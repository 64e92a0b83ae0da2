------------------------------ MODULE Sessions ------------------------------
(***************************************************************************)
(* Sessions as the hub sees them (index.ts, db.ts, hooks/notify.mjs).      *)
(*                                                                         *)
(* A claude process runs a hook script on everything that happens in its   *)
(* session.  The script posts the event to the hub and leaves a worker     *)
(* behind that finds out which process the session runs in and posts that. *)
(* Scripts and workers are processes of their own: what they post may come *)
(* late, when the session has ended, or not at all.  The hub never hears   *)
(* of a process that was killed, and looks every 30 seconds which of the   *)
(* processes it knows of are gone.  Files claimed by a session are         *)
(* released with it.                                                       *)
(***************************************************************************)
EXTENDS Naturals, FiniteSets

CONSTANTS
  Sessions,
  Procs,        \* claude processes; a process id is not used twice
  HubProcs,     \* those the hub spawned for a delegated run
  Claims,
  WithSubagent, \* bound: the sessions that start a subagent
  MaxInFlight,  \* bound: posts and workers under way at a time
  None

ASSUME SessionsAssumption ==
  /\ Sessions \cap Procs = {} /\ None \notin Sessions \cup Procs
  /\ HubProcs \subseteq Procs /\ WithSubagent \subseteq Sessions
  /\ "free" \notin Sessions \cup Procs \cup {None}
  /\ MaxInFlight \in Nat

VARIABLES
  wsl,      \* the processes and sessions that are in a WSL distribution
  proc,     \* the processes, and the session open in each
  settling, \* hub processes whose end the run has not been settled for: their session
  pids,     \* the files ~/.vbss-cchub/pids/<session>.json
  post,     \* the post under way of each process, and of the subagent of each session
  workers,  \* the workers that have not posted yet
  row,      \* table sessions
  newer,    \* column updated_at: the sessions updated after a session
  agent,    \* table agents: the subagent of each session
  claim,    \* table claims
  named,    \* history: the claims whose request named the session
  heard     \* history: the processes the hub has heard from since they opened
            \* their session

vars == <<wsl, proc, settling, pids, post, workers, row, newer, agent, claim, named, heard>>
claude == <<wsl, proc, settling, pids, post, workers, heard>>
hub == <<row, newer, agent, claim, named>>

-----------------------------------------------------------------------------
\* Whose hooks come one after the other: those of a process, and those of the
\* subagent of a session.
Lanes == Procs \cup WithSubagent

Kinds == {"event", "session_end", "subagent_start", "subagent_stop"}

\* event: any hook that gives a session a status other than ended.  Which of
\* active, waiting and idle it is makes no difference here.
Post == [kind : Kinds, session : Sessions, pid : Procs \cup {None}]

Nothing == [kind |-> "nothing", session |-> None, pid |-> None]

\* pid: COALESCE(claude_pid, shell_pid, host_pid).
Row == [status : {"none", "live", "ended"}, pid : Procs \cup {None}]

NoRow == [status |-> "none", pid |-> None]

TypeOK ==
  /\ wsl \subseteq Sessions \cup (Procs \ HubProcs)
  /\ proc \in [Procs -> [up : BOOLEAN, session : Sessions \cup {None}]]
  /\ settling \in [HubProcs -> Sessions \cup {None}]
  /\ pids \in [Sessions -> Procs \cup {None}]
  /\ post \in [Lanes -> Post \cup {Nothing}]
  /\ workers \subseteq Sessions \X Procs
  /\ row \in [Sessions -> Row]
  /\ newer \in [Sessions -> SUBSET Sessions]
  /\ agent \in [Sessions -> {"none", "running", "ended"}]
  /\ claim \in [Claims -> Sessions \cup {None, "free"}]
  /\ named \subseteq Claims
  /\ heard \subseteq Procs

Init ==
  /\ wsl \in SUBSET (Sessions \cup (Procs \ HubProcs))
  /\ proc = [p \in Procs |-> [up |-> TRUE, session |-> None]]
  /\ settling = [p \in HubProcs |-> None]
  /\ pids = [s \in Sessions |-> None]
  /\ post = [l \in Lanes |-> Nothing]
  /\ workers = {}
  /\ row = [s \in Sessions |-> NoRow]
  /\ newer = [s \in Sessions |-> {}]
  /\ agent = [s \in Sessions |-> "none"]
  /\ claim = [c \in Claims |-> "free"]
  /\ named = {}
  /\ heard = {}

-----------------------------------------------------------------------------
(* Claude *)

Serves(p, s) == proc[p].up /\ proc[p].session = s
Served(s) == \E p \in Procs : Serves(p, s)

InFlight == Cardinality({l \in Lanes : post[l] # Nothing}) + Cardinality(workers)

\* The script posts the process id it finds in the file of the session, which
\* is good as long as the window recorded there is open.
Posts(l, kind, s) ==
  /\ post[l] = Nothing
  /\ InFlight < MaxInFlight
  /\ post' = [post EXCEPT ![l] = [kind |-> kind, session |-> s, pid |-> pids[s]]]

\* A process opens a session, which may have been open in another one before.
Open(p, s) ==
  /\ proc[p].up /\ proc[p].session = None /\ ~Served(s)
  /\ p \in wsl <=> s \in wsl
  /\ p \in HubProcs => settling[p] = None
  /\ Posts(p, "event", s)
  /\ proc' = [proc EXCEPT ![p].session = s]
  /\ settling' = IF p \in HubProcs THEN [settling EXCEPT ![p] = s] ELSE settling
  /\ UNCHANGED <<wsl, pids, workers, hub, heard>>

\* A prompt, a question to the user, the end of a turn.
Event(p) ==
  /\ proc[p].up /\ proc[p].session # None
  /\ Posts(p, "event", proc[p].session)
  /\ UNCHANGED <<wsl, proc, settling, pids, workers, hub, heard>>

\* The session is left for another one (/clear, /resume), or before the exit.
Leave(p) ==
  /\ proc[p].up /\ proc[p].session # None
  /\ Posts(p, "session_end", proc[p].session)
  /\ proc' = [proc EXCEPT ![p].session = None]
  /\ heard' = heard \ {p}
  /\ UNCHANGED <<wsl, settling, pids, workers, hub>>

\* A subagent runs beside its session, and its hooks beside those of the session.
Subagent(s, kind) ==
  /\ Served(s)
  /\ Posts(s, kind, s)
  /\ UNCHANGED <<wsl, proc, settling, pids, workers, hub, heard>>

\* A process exits, or is killed.
Exit(p) ==
  /\ proc[p].up
  /\ proc' = [proc EXCEPT ![p] = [up |-> FALSE, session |-> None]]
  /\ heard' = heard \ {p}
  /\ UNCHANGED <<wsl, settling, pids, post, workers, hub>>

\* A window is closed with everything that runs in it.  Its process id is in
\* the files of its sessions, which are good for nothing from now on.
CloseWindow ==
  /\ proc' = [p \in Procs |-> IF p \in HubProcs THEN proc[p]
                              ELSE [up |-> FALSE, session |-> None]]
  /\ pids' = [s \in Sessions |-> IF pids[s] \in HubProcs THEN pids[s] ELSE None]
  /\ heard' = heard \cap HubProcs
  /\ UNCHANGED <<wsl, settling, post, workers, hub>>

-----------------------------------------------------------------------------
(* The tables *)

Known == {s \in Sessions : row[s].status # "none"}

\* Sets updated_at of the sessions of S, some of them new.
Touch(S) ==
  newer' = [s \in Sessions |-> IF s \in S THEN newer[s] \cap S
                               ELSE IF s \in Known THEN newer[s] \cup S ELSE {}]

\* The INSERT ... ON CONFLICT of sessions.
Upsert(s, status, pid) ==
  /\ row' = [row EXCEPT ![s] = [status |-> status, pid |-> IF pid = None THEN @.pid ELSE pid]]
  /\ Touch({s})

\* Mutant of AgentsEnded: the agents are left to their own stop hooks.
AgentsLeft(S) == agent

\* endAgentsStmt, for every session of S.
AgentsEnded(S) ==
  [s \in Sessions |-> IF s \in S /\ agent[s] = "running" THEN "ended" ELSE agent[s]]

\* releaseClaimsOfSession, for every session of S.
ReleaseClaims(S) ==
  /\ claim' = [c \in Claims |-> IF claim[c] \in S THEN "free" ELSE claim[c]]
  /\ named' = {c \in named : claim[c] \notin S}

-----------------------------------------------------------------------------
(* Hooks *)

\* applyHook.
Apply(m) ==
  CASE m.kind = "event" ->
         Upsert(m.session, "live", m.pid) /\ UNCHANGED agent
    [] m.kind = "session_end" ->
         Upsert(m.session, "ended", m.pid) /\ agent' = AgentsEnded({m.session})
    [] OTHER ->
         /\ Upsert(m.session, IF m.session \in Known THEN row[m.session].status ELSE "live", m.pid)
         /\ agent' = [agent EXCEPT ![m.session] =
                        IF m.kind = "subagent_start" THEN "running" ELSE "ended"]

\* The process a script was run by: that of a subagent is the one that has its
\* session open, or one that is gone.
RunBy(l) ==
  {p \in Procs : l = p \/ (l \in Sessions /\ (Serves(p, l) \/ ~proc[p].up))}

\* The script has posted, or has given up: it starts the worker, which may
\* come to nothing.  The script of WSL has none.
Done(l) ==
  /\ post' = [post EXCEPT ![l] = Nothing]
  /\ \/ UNCHANGED workers
     \/ /\ post[l].session \notin wsl
        /\ \E p \in RunBy(l) : workers' = workers \cup {<<post[l].session, p>>}
  /\ UNCHANGED <<wsl, proc, settling, pids>>

\* POST /hook, and for WSL POST /hook/raw, which releases no claims.
Hook(l) ==
  /\ post[l] # Nothing
  /\ Apply(post[l])
  /\ IF post[l].kind = "session_end" /\ post[l].session \notin wsl
       THEN ReleaseClaims({post[l].session}) ELSE UNCHANGED <<claim, named>>
  /\ heard' = heard \cup {p \in Procs : l = p /\ Serves(p, post[l].session)}
  /\ Done(l)

\* The hub was not there, or did not answer within two seconds.
Lost(l) ==
  /\ post[l] # Nothing
  /\ Done(l)
  /\ UNCHANGED <<hub, heard>>

\* resolveHostInfo, in the worker: what it says, and what the file says then.
\* A process that is gone is not found, a search may fail, and without a window
\* nothing is written.
HostInfo(s, p) ==
  IF pids[s] # None THEN {[pid |-> pids[s], file |-> pids[s]]}
  ELSE {[pid |-> None, file |-> None]} \cup
       IF proc[p].up THEN {[pid |-> p, file |-> f] : f \in {p, None}} ELSE {}

\* applyMeta, or applyHook when there is no such session.
Meta(s, pid) ==
  IF s \in Known
    THEN /\ row' = [row EXCEPT ![s].pid = IF pid = None THEN @ ELSE pid]
         /\ UNCHANGED newer
    ELSE Upsert(s, "live", pid)

Worker(s, p) ==
  /\ <<s, p>> \in workers
  /\ workers' = workers \ {<<s, p>>}
  /\ \E info \in HostInfo(s, p) :
       /\ pids' = [pids EXCEPT ![s] = info.file]
       /\ Meta(s, info.pid) \/ UNCHANGED <<row, newer>>
  /\ UNCHANGED <<wsl, proc, settling, post, agent, claim, named, heard>>

-----------------------------------------------------------------------------
(* The hub *)

\* Sessions that are not ended and whose process is gone.
Gone(s) == row[s].status = "live" /\ row[s].pid # None /\ ~proc[row[s].pid].up

\* Mutant of DeadSessions: a session with an agent at work is taken to be alive.
DeadWithoutAgents == {s \in Sessions : Gone(s) /\ agent[s] # "running"}

DeadSessions == {s \in Sessions : Gone(s)}

\* Mutant of SweptClaims: the claims are left to expire.
SweptKeepClaims(S) == UNCHANGED <<claim, named>>

SweptClaims(S) == ReleaseClaims(S)

\* sweepDead, every 30 seconds: endDeadSessions, then the claims of what it ended.
SweepDead ==
  /\ DeadSessions # {}
  /\ row' = [s \in Sessions |->
               IF s \in DeadSessions THEN [row[s] EXCEPT !.status = "ended"] ELSE row[s]]
  /\ Touch(DeadSessions)
  /\ agent' = AgentsEnded(DeadSessions)
  /\ SweptClaims(DeadSessions)
  /\ UNCHANGED claude

\* endRunSession: the run of a delegated task is settled after its process closed.
EndRunSession(p) ==
  /\ ~proc[p].up /\ settling[p] # None
  /\ LET s == settling[p] IN
       /\ ReleaseClaims({s})
       /\ IF row[s].status = "live"
            THEN /\ row' = [row EXCEPT ![s].status = "ended"]
                 /\ Touch({s})
                 /\ agent' = AgentsEnded({s})
            ELSE UNCHANGED <<row, newer, agent>>
  /\ settling' = [settling EXCEPT ![p] = None]
  /\ UNCHANGED <<wsl, proc, pids, post, workers, heard>>

\* deleteSession, asked for by the user.  purgeEmptySessions deletes in the same
\* way what was silent for hours without ever naming a model.
DeleteSession(s) ==
  /\ s \in Known
  /\ row' = [row EXCEPT ![s] = NoRow]
  /\ newer' = [r \in Sessions |-> IF r = s THEN {} ELSE newer[r] \ {s}]
  /\ UNCHANGED <<agent, claim, named, claude>>

\* sessionByPid: the session updated last of those with that process id.
ByPid(p) ==
  LET mine == {s \in Known : row[s].pid = p}
  IN {s \in mine : newer[s] \cap mine = {}}

\* POST /api/claims.  A caller may name the session, known to the hub or not.
\* The MCP server of a process names the process, for which the hub may know a
\* session; without one the claim is nobody's.
CreateClaim(c, s) ==
  /\ claim[c] = "free"
  /\ claim' = [claim EXCEPT ![c] = s]
  /\ \/ s \in Sessions /\ named' = named \cup {c}
     \/ s \in {None} \cup UNION {ByPid(p) : p \in Procs} /\ UNCHANGED named
  /\ UNCHANGED <<row, newer, agent, claude>>

\* DELETE /api/claims/:id, or the time is over: listClaims no longer lists it,
\* and the next sweep deletes it.
ReleaseClaim(c) ==
  /\ claim[c] # "free"
  /\ claim' = [claim EXCEPT ![c] = "free"]
  /\ named' = named \ {c}
  /\ UNCHANGED <<row, newer, agent, claude>>

-----------------------------------------------------------------------------
Next ==
  \/ \E p \in Procs : \/ \E s \in Sessions : Open(p, s) \/ Worker(s, p)
                      \/ Event(p) \/ Leave(p) \/ Exit(p)
  \/ \E s \in WithSubagent, k \in {"subagent_start", "subagent_stop"} : Subagent(s, k)
  \/ \E s \in Sessions : DeleteSession(s)
  \/ \E l \in Lanes : Hook(l) \/ Lost(l)
  \/ \E p \in HubProcs : EndRunSession(p)
  \/ \E c \in Claims : \/ \E s \in Sessions \cup {None} : CreateClaim(c, s)
                       \/ ReleaseClaim(c)
  \/ SweepDead
  \/ CloseWindow

Spec == Init /\ [][Next]_vars

\* The interval timer fires, a script ends within its two seconds, a worker ends.
FairSpec ==
  /\ Spec
  /\ WF_vars(SweepDead)
  /\ \A l \in Lanes : WF_vars(Hook(l) \/ Lost(l))
  /\ \A s \in Sessions, p \in Procs : WF_vars(Worker(s, p))

-----------------------------------------------------------------------------
(* Properties *)

\* A session ends with its subagents, however it ends: one that runs in an
\* ended session was reported after the end.
RunsInEnded(s) == row[s].status = "ended" /\ agent[s] = "running"

EndStopsAgents ==
  [][\A s \in Sessions : RunsInEnded(s)' => RunsInEnded(s) \/ agent[s] # "running"]_vars

\* A session ends without its claims: one that an ended session holds was made
\* after the end.  The raw hook, by which WSL reports, releases none: there a
\* claim stays that was made in the name of the session.
HeldByEnded(c) == claim[c] \in Sessions /\ row[claim[c]].status = "ended"

NamedInWsl(c) == claim[c] \in wsl /\ c \in named

EndReleasesClaims ==
  [][\A c \in Claims :
       HeldByEnded(c)' => HeldByEnded(c) \/ claim[c] = "free" \/ NamedInWsl(c)]_vars

\* A session that nobody opens any more does not stay among the living ones,
\* if its process was ever known; late hooks may bring it back, but not for good.
CountsStayHonest ==
  \A s \in Sessions : <>[](~Served(s)) => <>[](~Gone(s))

\* "Every 30 s the hub ends sessions whose process is gone", and it "leaves live
\* ones alone": no sweep ends a session that is open in a living process, once
\* that process has told the hub.
LiveOnesLeftAlone ==
  [][SweepDead => \A p \in heard, s \in Sessions : Serves(p, s) => row'[s] = row[s]]_vars
=============================================================================
