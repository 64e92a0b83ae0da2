--------------------------- MODULE SessionsProofs ---------------------------
(***************************************************************************)
(* What holds of Sessions for any number of sessions, processes and claims *)
(***************************************************************************)
EXTENDS Sessions, TLAPS

USE SessionsAssumption

-----------------------------------------------------------------------------
(* Types *)

LEMMA ConstantRecords ==
  /\ NoRow \in Row
  /\ Nothing \notin Post
  /\ \A m \in Post : m.kind \in Kinds /\ m.session \in Sessions /\ m.pid \in Procs \cup {None}
  BY DEF NoRow, Row, Nothing, Post, Kinds

LEMMA TouchTyped ==
  ASSUME TypeOK, NEW S \in SUBSET Sessions, Touch(S)
  PROVE  newer' \in [Sessions -> SUBSET Sessions]
  BY DEF TypeOK, Touch

LEMMA UpsertTyped ==
  ASSUME TypeOK, NEW s \in Sessions, NEW status \in {"live", "ended"},
         NEW pid \in Procs \cup {None}, Upsert(s, status, pid)
  PROVE  row' \in [Sessions -> Row] /\ newer' \in [Sessions -> SUBSET Sessions]
<1>1. newer' \in [Sessions -> SUBSET Sessions]
  BY TouchTyped DEF Upsert
<1>2. row' \in [Sessions -> Row]
  BY DEF Upsert, TypeOK, Row
<1> QED BY <1>1, <1>2

LEMMA AgentsTyped ==
  ASSUME TypeOK, NEW S
  PROVE  AgentsEnded(S) \in [Sessions -> {"none", "running", "ended"}]
  BY DEF TypeOK, AgentsEnded

LEMMA ClaimsTyped ==
  ASSUME TypeOK, NEW S, ReleaseClaims(S)
  PROVE  claim' \in [Claims -> Sessions \cup {None, "free"}] /\ named' \subseteq Claims
  BY DEF TypeOK, ReleaseClaims

\* A post under way leaves the session of its lane.
LEMMA PostsTyped ==
  ASSUME TypeOK, NEW l \in Lanes, NEW kind \in Kinds, NEW s \in Sessions, Posts(l, kind, s)
  PROVE  post' \in [Lanes -> Post \cup {Nothing}]
  BY DEF TypeOK, Posts, Post

LEMMA DoneTyped ==
  ASSUME TypeOK, NEW l \in Lanes, post[l] # Nothing, Done(l)
  PROVE  /\ wsl' \subseteq Sessions \cup (Procs \ HubProcs)
         /\ proc' \in [Procs -> [up : BOOLEAN, session : Sessions \cup {None}]]
         /\ settling' \in [HubProcs -> Sessions \cup {None}]
         /\ pids' \in [Sessions -> Procs \cup {None}]
         /\ post' \in [Lanes -> Post \cup {Nothing}]
         /\ workers' \subseteq Sessions \X Procs
<1>1. post[l].session \in Sessions
  BY ConstantRecords DEF TypeOK
<1>2. workers' \subseteq Sessions \X Procs
  BY <1>1 DEF Done, RunBy, TypeOK
<1> QED BY <1>2 DEF Done, TypeOK

\* What a hook does to the tables is well typed, whatever it reports.
LEMMA ApplyTyped ==
  ASSUME TypeOK, NEW m \in Post, Apply(m)
  PROVE  /\ row' \in [Sessions -> Row]
         /\ newer' \in [Sessions -> SUBSET Sessions]
         /\ agent' \in [Sessions -> {"none", "running", "ended"}]
<1>1. m.kind \in Kinds /\ m.session \in Sessions /\ m.pid \in Procs \cup {None}
  BY ConstantRecords
<1>2. CASE m.kind = "event"
  BY <1>1, <1>2, UpsertTyped DEF Apply, TypeOK
<1>3. CASE m.kind = "session_end"
  BY <1>1, <1>3, UpsertTyped, AgentsTyped DEF Apply
<1>4. CASE m.kind \notin {"event", "session_end"}
  <2> DEFINE status == IF m.session \in Known THEN row[m.session].status ELSE "live"
  <2>1. status \in {"live", "ended"}
    BY <1>1 DEF Known, TypeOK, Row
  <2>2. Upsert(m.session, status, m.pid)
    BY <1>4 DEF Apply
  <2>3. agent' = [agent EXCEPT ![m.session] = IF m.kind = "subagent_start" THEN "running" ELSE "ended"]
    BY <1>4 DEF Apply
  <2> HIDE DEF status
  <2> QED BY <1>1, <2>1, <2>2, <2>3, UpsertTyped DEF TypeOK
<1> QED BY <1>2, <1>3, <1>4

LEMMA MetaTyped ==
  ASSUME TypeOK, NEW s \in Sessions, NEW pid \in Procs \cup {None}, Meta(s, pid)
  PROVE  row' \in [Sessions -> Row] /\ newer' \in [Sessions -> SUBSET Sessions]
<1>1. CASE s \in Known
  BY <1>1 DEF Meta, TypeOK, Row
<1>2. CASE s \notin Known
  BY <1>2, UpsertTyped DEF Meta
<1> QED BY <1>1, <1>2

LEMMA HostInfoTyped ==
  ASSUME TypeOK, NEW s \in Sessions, NEW p \in Procs, NEW info \in HostInfo(s, p)
  PROVE  info.pid \in Procs \cup {None} /\ info.file \in Procs \cup {None}
  BY DEF TypeOK, HostInfo

LEMMA TypeNext == TypeOK /\ [Next]_vars => TypeOK'
<1> SUFFICES ASSUME TypeOK, [Next]_vars PROVE TypeOK'
  OBVIOUS
<1>1. ASSUME NEW p \in Procs, NEW s \in Sessions, Open(p, s) PROVE TypeOK'
  <2>1. post' \in [Lanes -> Post \cup {Nothing}]
    BY <1>1, PostsTyped DEF Open, Lanes, Kinds
  <2> QED BY <1>1, <2>1 DEF Open, TypeOK, hub
<1>2. ASSUME NEW p \in Procs, NEW s \in Sessions, Worker(s, p) PROVE TypeOK'
  <2>1. PICK info \in HostInfo(s, p) : /\ pids' = [pids EXCEPT ![s] = info.file]
                                       /\ Meta(s, info.pid) \/ UNCHANGED <<row, newer>>
    BY <1>2 DEF Worker
  <2>2. row' \in [Sessions -> Row] /\ newer' \in [Sessions -> SUBSET Sessions]
    BY <2>1, HostInfoTyped, MetaTyped DEF TypeOK
  <2>3. pids' \in [Sessions -> Procs \cup {None}]
    BY <2>1, HostInfoTyped DEF TypeOK
  <2> QED BY <1>2, <2>2, <2>3 DEF Worker, TypeOK
<1>3. ASSUME NEW p \in Procs, Event(p) PROVE TypeOK'
  <2>1. proc[p].session \in Sessions
    BY <1>3 DEF Event, TypeOK
  <2>2. post' \in [Lanes -> Post \cup {Nothing}]
    BY <1>3, <2>1, PostsTyped DEF Event, Lanes, Kinds
  <2> QED BY <1>3, <2>2 DEF Event, TypeOK, hub
<1>4. ASSUME NEW p \in Procs, Leave(p) PROVE TypeOK'
  <2>1. proc[p].session \in Sessions
    BY <1>4 DEF Leave, TypeOK
  <2>2. post' \in [Lanes -> Post \cup {Nothing}]
    BY <1>4, <2>1, PostsTyped DEF Leave, Lanes, Kinds
  <2> QED BY <1>4, <2>2 DEF Leave, TypeOK, hub
<1>5. ASSUME NEW p \in Procs, Exit(p) PROVE TypeOK'
  BY <1>5 DEF Exit, TypeOK, hub
<1>6. ASSUME NEW c \in Claims, NEW s \in Sessions \cup {None}, CreateClaim(c, s) PROVE TypeOK'
  BY <1>6 DEF CreateClaim, TypeOK, claude
<1>7. ASSUME NEW s \in WithSubagent, NEW k \in {"subagent_start", "subagent_stop"}, Subagent(s, k)
      PROVE  TypeOK'
  <2>1. post' \in [Lanes -> Post \cup {Nothing}]
    BY <1>7, PostsTyped DEF Subagent, Lanes, Kinds
  <2> QED BY <1>7, <2>1 DEF Subagent, TypeOK, hub
<1>8. ASSUME NEW s \in Sessions, DeleteSession(s) PROVE TypeOK'
  BY <1>8, ConstantRecords DEF DeleteSession, TypeOK, claude
<1>9. ASSUME NEW l \in Lanes, Hook(l) PROVE TypeOK'
  <2>1. post[l] \in Post
    BY <1>9 DEF Hook, TypeOK
  <2>2. claim' \in [Claims -> Sessions \cup {None, "free"}] /\ named' \subseteq Claims
    BY <1>9, ClaimsTyped DEF Hook, TypeOK
  <2>3. heard' \subseteq Procs
    BY <1>9 DEF Hook, TypeOK
  <2>4. /\ row' \in [Sessions -> Row]
        /\ newer' \in [Sessions -> SUBSET Sessions]
        /\ agent' \in [Sessions -> {"none", "running", "ended"}]
    BY <1>9, <2>1, ApplyTyped DEF Hook
  <2>5. post[l] # Nothing /\ Done(l)
    BY <1>9 DEF Hook
  <2> QED BY <2>2, <2>3, <2>4, <2>5, DoneTyped DEF TypeOK
<1>10. ASSUME NEW l \in Lanes, Lost(l) PROVE TypeOK'
  <2>1. post[l] # Nothing /\ Done(l)
    BY <1>10 DEF Lost
  <2>2. UNCHANGED <<row, newer, agent, claim, named, heard>>
    BY <1>10 DEF Lost, hub
  <2> QED BY <2>1, <2>2, DoneTyped DEF TypeOK
<1>11. ASSUME NEW p \in HubProcs, EndRunSession(p) PROVE TypeOK'
  <2> DEFINE s == settling[p]
  <2>1. s \in Sessions
    BY <1>11 DEF EndRunSession, TypeOK
  <2>2. claim' \in [Claims -> Sessions \cup {None, "free"}] /\ named' \subseteq Claims
    BY <1>11, ClaimsTyped DEF EndRunSession
  <2>3. /\ row' \in [Sessions -> Row]
        /\ newer' \in [Sessions -> SUBSET Sessions]
        /\ agent' \in [Sessions -> {"none", "running", "ended"}]
    <3>1. CASE row[s].status = "live"
      <4>1. /\ row' = [row EXCEPT ![s].status = "ended"]
            /\ Touch({s})
            /\ agent' = AgentsEnded({s})
        BY <1>11, <3>1 DEF EndRunSession
      <4>2. newer' \in [Sessions -> SUBSET Sessions]
        BY <2>1, <4>1, TouchTyped
      <4>3. row' \in [Sessions -> Row]
        <5>1. [row[s] EXCEPT !.status = "ended"] \in Row
          BY <2>1 DEF TypeOK, Row
        <5> QED BY <4>1, <5>1 DEF TypeOK
      <4> QED BY <4>1, <4>2, <4>3, AgentsTyped
    <3>2. CASE row[s].status # "live"
      BY <1>11, <3>2 DEF EndRunSession, TypeOK
    <3> QED BY <3>1, <3>2
  <2> QED BY <1>11, <2>2, <2>3 DEF EndRunSession, TypeOK
<1>12. ASSUME NEW c \in Claims, ReleaseClaim(c) PROVE TypeOK'
  BY <1>12 DEF ReleaseClaim, TypeOK, claude
<1>13. CASE SweepDead
  <2>1. newer' \in [Sessions -> SUBSET Sessions]
    BY <1>13, TouchTyped DEF SweepDead, DeadSessions
  <2>2. /\ agent' \in [Sessions -> {"none", "running", "ended"}]
        /\ claim' \in [Claims -> Sessions \cup {None, "free"}] /\ named' \subseteq Claims
    BY <1>13, AgentsTyped, ClaimsTyped DEF SweepDead, SweptClaims
  <2>3. row' \in [Sessions -> Row]
    BY <1>13 DEF SweepDead, TypeOK, Row
  <2> QED BY <1>13, <2>1, <2>2, <2>3 DEF SweepDead, TypeOK, claude
<1>14. CASE CloseWindow
  BY <1>14 DEF CloseWindow, TypeOK, hub
<1>15. CASE UNCHANGED vars
  BY <1>15 DEF vars, TypeOK
<1> QED
  BY <1>1, <1>2, <1>3, <1>4, <1>5, <1>6, <1>7, <1>8, <1>9, <1>10, <1>11, <1>12,
     <1>13, <1>14, <1>15 DEF Next

\* The tables and what Claude keeps stay well formed.
THEOREM TypeCorrect == Spec => []TypeOK
<1>1. Init => TypeOK
  BY ConstantRecords DEF Init, TypeOK
<1> QED BY <1>1, TypeNext, PTL DEF Spec

-----------------------------------------------------------------------------
(* WSL *)

\* What the hub hears of a session in WSL never names a process, so that no
\* claim made by a process is booked to one: those it holds named it.
WslHasNoPids ==
  /\ \A s \in Sessions \cap wsl : pids[s] = None /\ row[s].pid = None
  /\ \A l \in Lanes : post[l].session \in wsl => post[l].pid = None
  /\ \A w \in workers : w[1] \notin wsl

WslClaimsAreNamed == \A c \in Claims : claim[c] \in wsl => c \in named

SessionsInv == TypeOK /\ WslHasNoPids /\ WslClaimsAreNamed

LEMMA NothingInWsl == TypeOK => None \notin wsl /\ "free" \notin wsl
  BY DEF TypeOK

\* Claude's steps: what is posted is what the file of the session says.
LEMMA PostsKeepWsl ==
  ASSUME SessionsInv, NEW l \in Lanes, NEW kind \in Kinds, NEW s \in Sessions,
         Posts(l, kind, s), UNCHANGED <<wsl, pids, workers, hub>>
  PROVE  (WslHasNoPids /\ WslClaimsAreNamed)'
<1>1. \A k \in Lanes : post'[k].session \in wsl => post'[k].pid = None
  BY DEF SessionsInv, TypeOK, WslHasNoPids, Posts
<1> QED BY <1>1 DEF SessionsInv, WslHasNoPids, WslClaimsAreNamed, hub

LEMMA DoneKeepsWsl ==
  ASSUME SessionsInv, NEW l \in Lanes, Done(l)
  PROVE  /\ \A k \in Lanes : post'[k].session \in wsl' => post'[k].pid = None
         /\ \A w \in workers' : w[1] \notin wsl'
         /\ \A s \in Sessions \cap wsl' : pids'[s] = None
         /\ wsl' = wsl
<1>1. \A w \in workers' : w[1] \notin wsl
  BY DEF SessionsInv, WslHasNoPids, Done
<1>2. \A k \in Lanes : post'[k].session \in wsl => post'[k].pid = None
  BY NothingInWsl DEF SessionsInv, TypeOK, WslHasNoPids, Done, Nothing
<1> QED BY <1>1, <1>2 DEF Done, SessionsInv, WslHasNoPids

\* A session gets a process id only from what is posted of it.
LEMMA UpsertKeepsWsl ==
  ASSUME SessionsInv, wsl' = wsl, NEW s \in Sessions, NEW status, NEW pid \in Procs \cup {None},
         s \in wsl => pid = None, Upsert(s, status, pid)
  PROVE  \A r \in Sessions \cap wsl' : row'[r].pid = None
  BY DEF SessionsInv, TypeOK, WslHasNoPids, Upsert, Row

LEMMA ReleaseKeepsWsl ==
  ASSUME SessionsInv, wsl' = wsl, NEW S, ReleaseClaims(S)
  PROVE  WslClaimsAreNamed'
  BY NothingInWsl DEF SessionsInv, WslClaimsAreNamed, ReleaseClaims

LEMMA WslNext == SessionsInv /\ [Next]_vars => (WslHasNoPids /\ WslClaimsAreNamed)'
<1> SUFFICES ASSUME SessionsInv, [Next]_vars PROVE (WslHasNoPids /\ WslClaimsAreNamed)'
  OBVIOUS
<1> USE DEF SessionsInv
<1>1. ASSUME NEW p \in Procs, NEW s \in Sessions, Open(p, s)
      PROVE  (WslHasNoPids /\ WslClaimsAreNamed)'
  BY <1>1, PostsKeepWsl DEF Open, Lanes, Kinds
<1>2. ASSUME NEW p \in Procs, NEW s \in Sessions, Worker(s, p)
      PROVE  (WslHasNoPids /\ WslClaimsAreNamed)'
  <2>1. s \notin wsl
    BY <1>2 DEF Worker, WslHasNoPids
  <2>2. PICK info \in HostInfo(s, p) : /\ pids' = [pids EXCEPT ![s] = info.file]
                                       /\ Meta(s, info.pid) \/ UNCHANGED <<row, newer>>
    BY <1>2 DEF Worker
  <2>3. \A r \in Sessions \cap wsl : pids'[r] = None
    BY <2>1, <2>2 DEF WslHasNoPids, TypeOK
  <2>4. \A r \in Sessions \cap wsl : row'[r].pid = None
    BY <2>1, <2>2 DEF WslHasNoPids, TypeOK, Meta, Upsert
  <2> QED BY <1>2, <2>3, <2>4 DEF Worker, WslHasNoPids, WslClaimsAreNamed
<1>3. ASSUME NEW p \in Procs, Event(p) PROVE (WslHasNoPids /\ WslClaimsAreNamed)'
  <2>1. proc[p].session \in Sessions
    BY <1>3 DEF Event, TypeOK
  <2> QED BY <1>3, <2>1, PostsKeepWsl DEF Event, Lanes, Kinds
<1>4. ASSUME NEW p \in Procs, Leave(p) PROVE (WslHasNoPids /\ WslClaimsAreNamed)'
  <2>1. proc[p].session \in Sessions
    BY <1>4 DEF Leave, TypeOK
  <2> QED BY <1>4, <2>1, PostsKeepWsl DEF Leave, Lanes, Kinds
<1>5. ASSUME NEW p \in Procs, Exit(p) PROVE (WslHasNoPids /\ WslClaimsAreNamed)'
  BY <1>5 DEF Exit, hub, WslHasNoPids, WslClaimsAreNamed
<1>6. ASSUME NEW c \in Claims, NEW s \in Sessions \cup {None}, CreateClaim(c, s)
      PROVE  (WslHasNoPids /\ WslClaimsAreNamed)'
  <2>1. \A p \in Procs : ByPid(p) \cap wsl = {}
    BY DEF ByPid, Known, WslHasNoPids
  <2>2. WslClaimsAreNamed'
    BY <1>6, <2>1, NothingInWsl DEF CreateClaim, WslClaimsAreNamed, TypeOK, claude
  <2> QED BY <1>6, <2>2 DEF CreateClaim, WslHasNoPids, claude
<1>7. ASSUME NEW s \in WithSubagent, NEW k \in {"subagent_start", "subagent_stop"}, Subagent(s, k)
      PROVE  (WslHasNoPids /\ WslClaimsAreNamed)'
  BY <1>7, PostsKeepWsl DEF Subagent, Lanes, Kinds
<1>8. ASSUME NEW s \in Sessions, DeleteSession(s) PROVE (WslHasNoPids /\ WslClaimsAreNamed)'
  BY <1>8 DEF DeleteSession, NoRow, TypeOK, claude, WslHasNoPids, WslClaimsAreNamed
<1>9. ASSUME NEW l \in Lanes, Hook(l) PROVE (WslHasNoPids /\ WslClaimsAreNamed)'
  <2> DEFINE m == post[l]
  <2>1. m.session \in Sessions /\ m.pid \in Procs \cup {None} /\ Done(l)
    BY <1>9, ConstantRecords DEF Hook, TypeOK
  <2>2. m.session \in wsl => m.pid = None
    BY DEF WslHasNoPids
  <2>3. wsl' = wsl
    BY <2>1, DoneKeepsWsl
  <2>4. \E status \in {"live", "ended"} : Upsert(m.session, status, m.pid)
    BY <1>9, <2>1 DEF Hook, Apply, Known, TypeOK, Row
  <2>5. \A r \in Sessions \cap wsl' : row'[r].pid = None
    BY <2>1, <2>2, <2>3, <2>4, UpsertKeepsWsl
  <2>6. WslClaimsAreNamed'
    BY <1>9, <2>3, ReleaseKeepsWsl DEF Hook, WslClaimsAreNamed
  <2> QED BY <2>1, <2>3, <2>5, <2>6, DoneKeepsWsl DEF WslHasNoPids
<1>10. ASSUME NEW l \in Lanes, Lost(l) PROVE (WslHasNoPids /\ WslClaimsAreNamed)'
  <2>1. Done(l) /\ UNCHANGED <<row, claim, named>>
    BY <1>10 DEF Lost, hub
  <2> QED BY <2>1, DoneKeepsWsl DEF WslHasNoPids, WslClaimsAreNamed
<1>11. ASSUME NEW p \in HubProcs, EndRunSession(p) PROVE (WslHasNoPids /\ WslClaimsAreNamed)'
  <2>1. wsl' = wsl /\ UNCHANGED <<pids, post, workers>>
    BY <1>11 DEF EndRunSession
  <2>2. \A r \in Sessions : row'[r].pid = row[r].pid
    <3>1. CASE row' = row
      BY <3>1
    <3>2. CASE row' = [row EXCEPT ![settling[p]].status = "ended"]
      BY <3>2 DEF TypeOK, Row
    <3>3. row' = row \/ row' = [row EXCEPT ![settling[p]].status = "ended"]
      BY <1>11 DEF EndRunSession
    <3> QED BY <3>1, <3>2, <3>3
  <2>3. WslClaimsAreNamed'
    BY <1>11, <2>1, ReleaseKeepsWsl DEF EndRunSession
  <2> QED BY <2>1, <2>2, <2>3 DEF WslHasNoPids
<1>12. ASSUME NEW c \in Claims, ReleaseClaim(c) PROVE (WslHasNoPids /\ WslClaimsAreNamed)'
  BY <1>12, NothingInWsl DEF ReleaseClaim, TypeOK, claude, WslHasNoPids, WslClaimsAreNamed
<1>13. CASE SweepDead
  <2>1. UNCHANGED <<wsl, pids, post, workers>>
    BY <1>13 DEF SweepDead, claude
  <2>2. \A r \in Sessions : row'[r].pid = row[r].pid
    BY <1>13 DEF SweepDead, TypeOK, Row
  <2>3. WslClaimsAreNamed'
    BY <1>13, <2>1, ReleaseKeepsWsl DEF SweepDead, SweptClaims
  <2> QED BY <2>1, <2>2, <2>3 DEF WslHasNoPids
<1>14. CASE CloseWindow
  BY <1>14 DEF CloseWindow, hub, WslHasNoPids, WslClaimsAreNamed
<1>15. CASE UNCHANGED vars
  BY <1>15 DEF vars, WslHasNoPids, WslClaimsAreNamed
<1> QED
  BY <1>1, <1>2, <1>3, <1>4, <1>5, <1>6, <1>7, <1>8, <1>9, <1>10, <1>11, <1>12,
     <1>13, <1>14, <1>15 DEF Next

\* No row of a session in WSL names a process, so that none is ever swept, and
\* no claim made by a process is booked to one: the claims that /hook/raw leaves
\* behind were made in the name of the session.
THEOREM WslClaimsNameTheSession == Spec => []SessionsInv
<1>1. Init => SessionsInv
  <2> SUFFICES ASSUME Init PROVE SessionsInv
    OBVIOUS
  <2>1. TypeOK
    BY ConstantRecords DEF Init, TypeOK
  <2>2. WslHasNoPids
    BY <2>1 DEF Init, WslHasNoPids, Nothing, NoRow
  <2>3. WslClaimsAreNamed
    BY <2>1, NothingInWsl DEF Init, WslClaimsAreNamed
  <2> QED BY <2>1, <2>2, <2>3 DEF SessionsInv
<1>2. SessionsInv /\ [Next]_vars => SessionsInv'
  BY TypeNext, WslNext DEF SessionsInv
<1> QED BY <1>1, <1>2, PTL DEF Spec

-----------------------------------------------------------------------------
(* What ends with a session *)

\* Subagents: a row turns to ended only in steps that end its agents.
LEMMA StepStopsAgents ==
  ASSUME TypeOK, [Next]_vars, NEW s \in Sessions, RunsInEnded(s)', agent[s] = "running"
  PROVE  RunsInEnded(s)
<1> SUFFICES row[s].status = "ended"
  BY DEF RunsInEnded
<1>0. row'[s].status = "ended" /\ agent'[s] = "running"
  BY DEF RunsInEnded
<1> USE DEF TypeOK, Row
<1>1. CASE row' = row
  BY <1>0, <1>1
<1>2. ASSUME NEW p \in Procs, NEW r \in Sessions, Worker(r, p) PROVE row[s].status = "ended"
  <2>1. PICK info : Meta(r, info.pid) \/ UNCHANGED <<row, newer>>
    BY <1>2 DEF Worker
  <2>2. CASE r # s
    BY <1>0, <2>1, <2>2 DEF Meta, Upsert
  <2>3. CASE r = s /\ r \in Known
    BY <1>0, <2>1, <2>3 DEF Meta
  <2>4. CASE r = s /\ r \notin Known
    BY <1>0, <2>1, <2>4 DEF Meta, Upsert
  <2> QED BY <2>2, <2>3, <2>4
<1>3. ASSUME NEW r \in Sessions, DeleteSession(r) PROVE row[s].status = "ended"
  BY <1>0, <1>3 DEF DeleteSession, NoRow
<1>4. ASSUME NEW l \in Lanes, Hook(l) PROVE row[s].status = "ended"
  <2> DEFINE m == post[l]
  <2>1. Apply(m) /\ m.session \in Sessions
    BY <1>4, ConstantRecords DEF Hook
  <2>2. CASE m.session # s
    BY <1>0, <2>1, <2>2 DEF Apply, Upsert
  <2>3. CASE m.session = s /\ m.kind = "event"
    BY <1>0, <2>1, <2>3 DEF Apply, Upsert
  <2>4. CASE m.session = s /\ m.kind = "session_end"
    BY <1>0, <2>1, <2>4 DEF Apply, AgentsEnded
  <2>5. CASE m.session = s /\ m.kind \notin {"event", "session_end"}
    BY <1>0, <2>1, <2>5 DEF Apply, Upsert
  <2> QED BY <2>2, <2>3, <2>4, <2>5
<1>5. ASSUME NEW p \in HubProcs, EndRunSession(p) PROVE row[s].status = "ended"
  BY <1>0, <1>5, SMTT(60) DEF EndRunSession, AgentsEnded
<1>6. CASE SweepDead
  BY <1>0, <1>6 DEF SweepDead, AgentsEnded
<1>7. Next \/ UNCHANGED vars
  OBVIOUS
<1> QED
  BY <1>1, <1>2, <1>3, <1>4, <1>5, <1>6, <1>7
     DEF Next, vars, hub, claude, Open, Event, Leave, Exit, CloseWindow, Subagent, Lost,
         CreateClaim, ReleaseClaim

\* Claims: a row turns to ended only in steps that release its claims, but for
\* the sessions in WSL, which hold those that named them.
LEMMA StepReleasesClaims ==
  ASSUME SessionsInv, [Next]_vars, NEW c \in Claims, HeldByEnded(c)', claim[c] # "free",
         ~NamedInWsl(c)
  PROVE  HeldByEnded(c)
<1> DEFINE s == claim'[c]
<1>0. s \in Sessions /\ row'[s].status = "ended" /\ s # "free"
  BY DEF HeldByEnded
<1> USE DEF SessionsInv, TypeOK, Row
<1>1. claim[c] = s
  <2>1. ASSUME NEW S, ReleaseClaims(S) PROVE claim[c] = s
    BY <1>0, <2>1 DEF ReleaseClaims
  <2>2. ASSUME claim' = claim PROVE claim[c] = s
    BY <2>2
  <2>3. ASSUME NEW d \in Claims, NEW t \in Sessions \cup {None}, CreateClaim(d, t)
        PROVE  claim[c] = s
    BY <2>3 DEF CreateClaim
  <2>4. ASSUME NEW d \in Claims, ReleaseClaim(d) PROVE claim[c] = s
    BY <1>0, <2>4 DEF ReleaseClaim
  <2>5. ASSUME NEW l \in Lanes, Hook(l) PROVE claim[c] = s
    BY <2>1, <2>2, <2>5 DEF Hook
  <2>6. ASSUME NEW p \in HubProcs, EndRunSession(p) PROVE claim[c] = s
    BY <2>1, <2>6 DEF EndRunSession
  <2>7. ASSUME SweepDead PROVE claim[c] = s
    BY <2>1, <2>7 DEF SweepDead, SweptClaims
  <2>8. Next \/ UNCHANGED vars
    OBVIOUS
  <2> QED
    BY <2>2, <2>3, <2>4, <2>5, <2>6, <2>7, <2>8
       DEF Next, vars, hub, claude, Open, Event, Leave, Exit, CloseWindow, Subagent, Lost,
           Worker, DeleteSession
<1>2. s \notin wsl
  BY <1>1 DEF WslClaimsAreNamed, NamedInWsl
<1> SUFFICES row[s].status = "ended"
  BY <1>0, <1>1 DEF HeldByEnded
<1>3. ASSUME NEW S, s \in S, ReleaseClaims(S) PROVE FALSE
  BY <1>0, <1>1, <1>3 DEF ReleaseClaims
<1> HIDE DEF s
<1>4. CASE row' = row
  BY <1>0, <1>4
<1>5. ASSUME NEW p \in Procs, NEW r \in Sessions, Worker(r, p) PROVE row[s].status = "ended"
  <2>1. PICK info \in HostInfo(r, p) : Meta(r, info.pid) \/ UNCHANGED <<row, newer>>
    BY <1>5 DEF Worker
  <2>2. CASE r \in Known /\ Meta(r, info.pid)
    BY <1>0, <2>2 DEF Meta
  <2>3. CASE r \notin Known /\ Meta(r, info.pid)
    BY <1>0, <2>3 DEF Meta, Upsert
  <2> QED BY <1>0, <2>1, <2>2, <2>3
<1>6. ASSUME NEW r \in Sessions, DeleteSession(r) PROVE row[s].status = "ended"
  BY <1>0, <1>6 DEF DeleteSession, NoRow
<1>7. ASSUME NEW l \in Lanes, Hook(l) PROVE row[s].status = "ended"
  <2> DEFINE m == post[l]
  <2>1. Apply(m) /\ m.session \in Sessions
    BY <1>7, ConstantRecords DEF Hook
  <2>2. CASE m.session # s
    BY <1>0, <2>1, <2>2 DEF Apply, Upsert
  <2>3. CASE m.session = s /\ m.kind = "event"
    BY <1>0, <2>1, <2>3 DEF Apply, Upsert
  <2>4. CASE m.session = s /\ m.kind = "session_end"
    BY <1>2, <1>3, <1>7, <2>4 DEF Hook
  <2>5. CASE m.session = s /\ m.kind \notin {"event", "session_end"}
    BY <1>0, <2>1, <2>5 DEF Apply, Upsert
  <2> QED BY <2>2, <2>3, <2>4, <2>5
<1>8. ASSUME NEW p \in HubProcs, EndRunSession(p) PROVE row[s].status = "ended"
  BY <1>0, <1>3, <1>8 DEF EndRunSession
<1>9. CASE SweepDead
  BY <1>0, <1>3, <1>9 DEF SweepDead, SweptClaims
<1>10. Next \/ UNCHANGED vars
  OBVIOUS
<1> QED
  BY <1>4, <1>5, <1>6, <1>7, <1>8, <1>9, <1>10
     DEF Next, vars, hub, claude, Open, Event, Leave, Exit, CloseWindow, Subagent, Lost,
         CreateClaim, ReleaseClaim

\* A session ends with its subagents, whether it says so, is swept, or its run
\* is settled.
THEOREM AgentsEndWithSession == Spec => EndStopsAgents
<1>1. TypeOK /\ [Next]_vars =>
        \A s \in Sessions : RunsInEnded(s)' => RunsInEnded(s) \/ agent[s] # "running"
  BY StepStopsAgents
<1>2. TypeOK /\ [Next]_vars =>
        [\A s \in Sessions : RunsInEnded(s)' => RunsInEnded(s) \/ agent[s] # "running"]_vars
  BY <1>1
<1> QED BY <1>2, TypeCorrect, PTL DEF Spec, EndStopsAgents

\* A session ends without its claims, but for one in WSL, which keeps those that
\* were made in its name.
THEOREM ClaimsEndWithSession == Spec => EndReleasesClaims
<1>1. SessionsInv /\ [Next]_vars =>
        \A c \in Claims :
          HeldByEnded(c)' => HeldByEnded(c) \/ claim[c] = "free" \/ NamedInWsl(c)
  BY StepReleasesClaims
<1>2. SessionsInv /\ [Next]_vars =>
        [\A c \in Claims :
           HeldByEnded(c)' => HeldByEnded(c) \/ claim[c] = "free" \/ NamedInWsl(c)]_vars
  BY <1>1
<1> QED BY <1>2, WslClaimsNameTheSession, PTL DEF Spec, EndReleasesClaims
=============================================================================
