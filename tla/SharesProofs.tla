---------------------------- MODULE SharesProofs ----------------------------
(***************************************************************************)
(* Theorems about the questions on a share, for any number of askers,      *)
(* questions, processes and restarts.                                      *)
(***************************************************************************)
EXTENDS MCRequests, TLAPS, WellFoundedInduction, FiniteSetTheorems

Used(p) == proc[p].state # "none"

\* The last process started for an asker.
Newest(a, c) ==
  /\ c \in Procs /\ Used(c) /\ proc[c].asker = a
  /\ \A p \in Procs : Used(p) /\ proc[p].asker = a => p <= c

\* A line of a process of this asker that had ended before its own init came in.
Strayed(a) == \E p \in Procs : proc[p].stray /\ proc[p].asker = a

Confirmed(a, s) ==
  (\E p \in Procs : proc[p].inited /\ SessionOf(p) = s) \/ Strayed(a)

\* The questions: the row, the runner and the map of runners agree.
Asked ==
  /\ ~up => runner = [a \in Askers |-> NoRunner]
  /\ \A a \in Askers : runner[a].child # None \/ runner[a].pending # None => runner[a].mapped
  /\ \A a, b \in Askers : runner[a].pending # None /\ runner[b].pending # None => a = b
  /\ \A a \in Askers, q \in Questions : runner[a].pending = q =>
       /\ request[q].status = "running" /\ request[q].asker = a
       /\ share \in Closed => request[q].late
  /\ up => \A q \in Questions : request[q].status = "running" => \E a \in Askers : runner[a].pending = q

\* What the runner and the processes of an asker call its session.
Named(a) ==
  /\ \A s \in Procs : runner[a].sessionId = s => Confirmed(a, s)
  /\ \A p \in Procs : proc[p].state = "alive" /\ proc[p].asker = a => Confirmed(a, SessionOf(p))

\* The processes: what is alive is the child of its runner, and the last one
\* started for it.
Started ==
  /\ \A p \in Procs : /\ Used(p) => proc[p].asker \in Askers
                      /\ proc[p].inited => Used(p)
                      /\ proc[p].stray => Used(p)
                      /\ proc[p].state = "alive" => runner[proc[p].asker].child = p
  /\ \A p, q \in Procs : q < p /\ Used(p) => Used(q)
  /\ \A a \in Askers, c \in Procs : runner[a].child = c => Newest(a, c)
  /\ \A a \in Askers : runner[a].initSeen => Named(a)

\* What a share keeps, and what runs, when it is closed.
Kept ==
  /\ \A a \in Askers, s \in Procs : forks[a] = s => Confirmed(a, s)
  /\ \A q \in Questions : request[q].status = "none" => ~request[q].late
  /\ share = "deleted" => \A q \in Questions : request[q].status \in {"none", "deleted"} \/ request[q].late
  /\ DeletedKeepsNoFork
  /\ QuietWhenClosed

SInv == TypeOK /\ Asked /\ Started /\ Kept

-----------------------------------------------------------------------------
(* The least number of a set, and the records *)

LEMMA Least ==
  ASSUME NEW S \in SUBSET Nat, S # {}
  PROVE  \E m \in S : \A n \in S : m <= n
<1>1. PICK m \in S : \A n \in S : ~(<<n, m>> \in OpToRel(<, Nat))
  BY NatLessThanWellFounded, WFMin, Zenon
<1>2. \A n \in S : ~(n < m)
  BY <1>1 DEF OpToRel
<1> QED BY <1>2

LEMMA Apart ==
  ASSUME SharesAssumption
  PROVE  None \notin Procs /\ None \notin Questions /\ Owner \notin Procs /\ Fresh \notin Procs
  BY DEF SharesAssumption, Procs, Questions

LEMMA NextProcIsLeast ==
  ASSUME SharesAssumption, Unused # {}
  PROVE  NextProc \in Unused /\ \A p \in Unused : NextProc <= p
<1>1. Unused \in SUBSET Nat
  BY DEF Unused, Procs, SharesAssumption
<1>2. \E m \in Unused : \A n \in Unused : m <= n
  BY <1>1, Least
<1> QED BY <1>2, Zenon DEF NextProc

LEMMA NextQuestionIsFree ==
  ASSUME SharesAssumption, NoRowYet # {}
  PROVE  NextQuestion \in Questions /\ request[NextQuestion].status = "none"
<1>1. NoRowYet \in SUBSET Nat
  BY DEF NoRowYet, Questions, SharesAssumption
<1>2. \E m \in NoRowYet : \A n \in NoRowYet : m <= n
  BY <1>1, Least
<1>3. NextQuestion \in NoRowYet
  BY <1>2, Zenon DEF NextQuestion
<1> QED BY <1>3 DEF NoRowYet

LEMMA RunnerTyped ==
  ASSUME SharesAssumption, NEW r \in Runner
  PROVE  /\ NoRunner \in Runner
         /\ \A p \in Procs \cup {None} : /\ [r EXCEPT !.child = p] \in Runner
                                         /\ [r EXCEPT !.sessionId = p] \in Runner
         /\ \A q \in Questions \cup {None} : [r EXCEPT !.pending = q] \in Runner
         /\ \A n \in 0..MAX_STALE_RETRIES : [r EXCEPT !.retries = n] \in Runner
         /\ \A b \in BOOLEAN : /\ [r EXCEPT !.initSeen = b] \in Runner
                               /\ [r EXCEPT !.ownerStale = b] \in Runner
                               /\ [r EXCEPT !.mapped = b] \in Runner
<1>1. 0 \in 0..MAX_STALE_RETRIES /\ None \in Procs \cup {None} /\ None \in Questions \cup {None}
  BY DEF SharesAssumption
<1>2. NoRunner \in Runner
  BY <1>1, Zenon DEF NoRunner, Runner
<1>3. \A p \in Procs \cup {None} : [r EXCEPT !.child = p] \in Runner /\ [r EXCEPT !.sessionId = p] \in Runner
  BY Zenon DEF Runner
<1>4. \A q \in Questions \cup {None} : [r EXCEPT !.pending = q] \in Runner
  BY Zenon DEF Runner
<1>5. \A n \in 0..MAX_STALE_RETRIES : [r EXCEPT !.retries = n] \in Runner
  BY Zenon DEF Runner
<1>6. \A b \in BOOLEAN : [r EXCEPT !.initSeen = b] \in Runner
  BY Zenon DEF Runner
<1>7. \A b \in BOOLEAN : [r EXCEPT !.ownerStale = b] \in Runner
  BY Zenon DEF Runner
<1>8. \A b \in BOOLEAN : [r EXCEPT !.mapped = b] \in Runner
  BY Zenon DEF Runner
<1> QED BY <1>2, <1>3, <1>4, <1>5, <1>6, <1>7, <1>8

LEMMA ProcessTyped ==
  ASSUME NEW x \in Process
  PROVE  /\ \A s \in {"none", "alive", "ended", "closed"} : [x EXCEPT !.state = s] \in Process
         /\ \A i \in Seq(Questions) : [x EXCEPT !.inbox = i] \in Process
         /\ \A b \in BOOLEAN : /\ [x EXCEPT !.stale = b] \in Process /\ [x EXCEPT !.inited = b] \in Process
                               /\ [x EXCEPT !.stray = b] \in Process
         /\ \A a \in Askers \cup {None} : [x EXCEPT !.asker = a] \in Process
         /\ \A f \in Procs \cup {Owner, Fresh} : [x EXCEPT !.from = f] \in Process
<1>1. \A s \in {"none", "alive", "ended", "closed"} : [x EXCEPT !.state = s] \in Process
  BY Zenon DEF Process
<1>2. \A i \in Seq(Questions) : [x EXCEPT !.inbox = i] \in Process
  BY Zenon DEF Process
<1>3. \A b \in BOOLEAN : [x EXCEPT !.stale = b] \in Process
  BY Zenon DEF Process
<1>4. \A b \in BOOLEAN : [x EXCEPT !.inited = b] \in Process
  BY Zenon DEF Process
<1>5. \A a \in Askers \cup {None} : [x EXCEPT !.asker = a] \in Process
  BY Zenon DEF Process
<1>6. \A f \in Procs \cup {Owner, Fresh} : [x EXCEPT !.from = f] \in Process
  BY Zenon DEF Process
<1>7. \A b \in BOOLEAN : [x EXCEPT !.stray = b] \in Process
  BY Zenon DEF Process
<1> QED BY <1>1, <1>2, <1>3, <1>4, <1>5, <1>6, <1>7

LEMMA RowTyped ==
  ASSUME NEW x \in Row
  PROVE  /\ \A s \in {"none", "running", "completed", "failed", "deleted"} : [x EXCEPT !.status = s] \in Row
         /\ \A q \in Questions \cup {None} : [x EXCEPT !.answer = q] \in Row
         /\ \A a \in Askers \cup {None} : [x EXCEPT !.asker = a] \in Row
         /\ \A b \in BOOLEAN : [x EXCEPT !.late = b] \in Row
<1>1. \A s \in {"none", "running", "completed", "failed", "deleted"} : [x EXCEPT !.status = s] \in Row
  BY Zenon DEF Row
<1>2. \A q \in Questions \cup {None} : [x EXCEPT !.answer = q] \in Row
  BY Zenon DEF Row
<1>3. \A a \in Askers \cup {None} : [x EXCEPT !.asker = a] \in Row
  BY Zenon DEF Row
<1>4. \A b \in BOOLEAN : [x EXCEPT !.late = b] \in Row
  BY Zenon DEF Row
<1> QED BY <1>1, <1>2, <1>3, <1>4

LEMMA InitS == SharesAssumption /\ Init => SInv
<1> SUFFICES ASSUME SharesAssumption, Init PROVE SInv
  OBVIOUS
<1>1. NoRow \in Row
  BY Zenon DEF NoRow, Row
<1>2. NoProcess \in Process
  <2>1. <<>> \in Seq(Questions)
    OBVIOUS
  <2> QED BY <2>1, Zenon DEF NoProcess, Process
<1>3. NoRunner \in Runner
  <2>1. 0 \in 0..MAX_STALE_RETRIES
    BY DEF SharesAssumption
  <2> QED BY <2>1, Zenon DEF NoRunner, Runner
<1>4. up = TRUE
  BY Zenon DEF Init
<1>5. up \in BOOLEAN
  BY <1>4, Zenon
<1>6. TypeOK
  BY <1>1, <1>2, <1>3, <1>5 DEF Init, TypeOK, SharesAssumption
<1>7. Asked
  <2>1. \A a \in Askers : runner[a].child = None /\ runner[a].pending = None
    BY DEF Init, NoRunner
  <2>2. \A q \in Questions : request[q].status = "none" /\ q # None
    BY Apart DEF Init, NoRow
  <2> QED BY <1>4, <2>1, <2>2 DEF Asked
<1>8. Started
  BY Apart DEF Init, Started, Used, NoProcess, NoRunner
<1>9. Kept
  BY Apart DEF Init, Kept, NoRow, DeletedKeepsNoFork, QuietWhenClosed, Closed
<1> QED BY <1>6, <1>7, <1>8, <1>9 DEF SInv

-----------------------------------------------------------------------------
(* The parts of the invariant, one at a time *)

\* What a step may do to the processes without starting one.
Follows(procs) ==
  /\ procs \in [Procs -> Process]
  /\ \A p \in Procs : /\ procs[p].asker = proc[p].asker /\ procs[p].from = proc[p].from
                      /\ procs[p].state = "none" <=> proc[p].state = "none"
                      /\ procs[p].inited = proc[p].inited
                      /\ proc[p].stray => procs[p].stray
                      /\ procs[p].stray => proc[p].state # "none"
                      /\ procs[p].state = "alive" => proc[p].state = "alive"

\* The session of an asker's runner is confirmed after the step, and so are
\* those of its processes if it had seen none of them start up.
Backed(a) ==
  /\ \A s \in Procs : runner'[a].sessionId = s => Confirmed(a, s)'
  /\ runner[a].initSeen \/ \A p \in Procs : proc'[p].state = "alive" /\ proc[p].asker = a => Confirmed(a, SessionOf(p))'

LEMMA ConfirmedStays ==
  ASSUME \A p \in Procs : Used(p) => proc'[p].from = proc[p].from,
         \A p \in Procs : proc[p].inited => Used(p) /\ proc'[p].inited,
         \A p \in Procs : proc[p].stray => proc'[p].stray /\ proc'[p].asker = proc[p].asker,
         NEW b, NEW s, Confirmed(b, s)
  PROVE  Confirmed(b, s)'
  BY DEF Confirmed, SessionOf, Strayed

LEMMA StartedFollows ==
  ASSUME SharesAssumption, SInv, TypeOK',
         \A p \in Procs : /\ proc'[p].asker = proc[p].asker /\ proc'[p].from = proc[p].from
                          /\ Used(p)' <=> Used(p)
                          /\ proc[p].inited => proc'[p].inited
                          /\ proc'[p].inited => Used(p)
                          /\ proc[p].stray => proc'[p].stray
                          /\ proc'[p].stray => Used(p)
                          /\ proc'[p].state = "alive" => proc[p].state = "alive" /\ runner'[proc[p].asker].child = p,
         \A a \in Askers : /\ runner'[a].child \in {runner[a].child, None}
                           /\ runner'[a].initSeen => Backed(a)
  PROVE  Started'
<1>1. \A a \in Askers, c \in Procs : Newest(a, c) => Newest(a, c)'
  BY DEF Newest
<1>2. \A p \in Procs : /\ Used(p)' => proc'[p].asker \in Askers
                       /\ proc'[p].inited => Used(p)'
                       /\ proc'[p].stray => Used(p)'
                       /\ proc'[p].state = "alive" => runner'[proc'[p].asker].child = p
  BY DEF SInv, Started
<1>3. \A p, q \in Procs : q < p /\ Used(p)' => Used(q)'
  BY DEF SInv, Started
<1>4. \A a \in Askers, c \in Procs : runner'[a].child = c => Newest(a, c)'
  BY <1>1, Apart DEF SInv, Started
<1>5. ASSUME NEW a \in Askers, runner'[a].initSeen
      PROVE  Named(a)'
  <2>1. Backed(a)
    BY <1>5
  <2>2. \A s \in Procs : runner'[a].sessionId = s => Confirmed(a, s)'
    BY <2>1 DEF Backed
  <2>3. ASSUME NEW p \in Procs, proc'[p].state = "alive", proc'[p].asker = a
        PROVE  Confirmed(a, SessionOf(p))'
    <3>1. proc[p].state = "alive" /\ proc[p].asker = a /\ SessionOf(p)' = SessionOf(p)
      BY <2>3 DEF SessionOf
    <3>2. CASE runner[a].initSeen
      <4>1. Confirmed(a, SessionOf(p))
        BY <3>1, <3>2 DEF SInv, Started, Named
      <4>2. Confirmed(a, SessionOf(p)) => \A s : s = SessionOf(p) => Confirmed(a, s)'
        <5> SUFFICES ASSUME Confirmed(a, SessionOf(p)), NEW s, s = SessionOf(p) PROVE Confirmed(a, s)'
          OBVIOUS
        <5>1. Confirmed(a, s)
          OBVIOUS
        <5>2. /\ \A q \in Procs : Used(q) => proc'[q].from = proc[q].from
              /\ \A q \in Procs : proc[q].inited => Used(q) /\ proc'[q].inited
              /\ \A q \in Procs : proc[q].stray => proc'[q].stray /\ proc'[q].asker = proc[q].asker
          BY DEF SInv, Started
        <5> QED BY <5>1, <5>2, ConfirmedStays
      <4> QED BY <3>1, <4>1, <4>2 DEF Confirmed, Strayed
    <3>3. CASE ~runner[a].initSeen
      BY <2>1, <2>3, <3>1, <3>3 DEF Backed
    <3> QED BY <3>2, <3>3
  <2> QED BY <2>2, <2>3 DEF Named
<1> QED BY <1>2, <1>3, <1>4, <1>5 DEF Started

\* A process is started for an asker, in the place of the one it had.
LEMMA StartedSpawns ==
  ASSUME SharesAssumption, SInv, TypeOK', Unused # {}, NEW a \in Askers, NEW procs, Follows(procs),
         \A p \in Procs : procs[p].state = "alive" => proc[p].asker # a,
         \A p \in Procs \ {NextProc} : proc'[p] = procs[p],
         proc'[NextProc].state = "alive", proc'[NextProc].asker = a,
         ~proc'[NextProc].inited, ~proc'[NextProc].stray,
         runner'[a].child = NextProc, ~runner'[a].initSeen,
         \A b \in Askers \ {a} : runner'[b] = runner[b]
  PROVE  Started' /\ \A b \in Askers, s \in Procs : Confirmed(b, s) => Confirmed(b, s)'
<1>1. NextProc \in Procs /\ ~Used(NextProc) /\ \A p \in Procs : Used(p) => p < NextProc
  <2>1. NextProc \in Unused /\ \A p \in Unused : NextProc <= p
    BY NextProcIsLeast
  <2>2. NextProc \in Procs /\ ~Used(NextProc)
    BY <2>1 DEF Unused, Used
  <2>3. \A p \in Procs : Used(p) => ~(NextProc < p) /\ p # NextProc
    BY <2>2 DEF SInv, Started
  <2>4. \A p \in Procs : p \in Nat
    BY DEF Procs, SharesAssumption
  <2> QED BY <2>2, <2>3, <2>4
<1>2. \A p \in Procs : Used(p)' <=> Used(p) \/ p = NextProc
  BY <1>1 DEF Used, Follows
<1>3. \A p \in Procs : Used(p) => proc'[p].asker = proc[p].asker /\ proc'[p].from = proc[p].from
                                  /\ proc'[p].inited = proc[p].inited
                                  /\ (proc[p].stray => proc'[p].stray)
  BY <1>1 DEF Follows
<1>4. \A p \in Procs : proc[p].inited => Used(p) /\ proc'[p].inited
  BY <1>3 DEF SInv, Started
<1>5. \A b \in Askers, s \in Procs : Confirmed(b, s) => Confirmed(b, s)'
  <2>1. \A p \in Procs : proc[p].stray => proc'[p].stray /\ proc'[p].asker = proc[p].asker
    BY <1>3 DEF SInv, Started
  <2> QED BY <1>3, <1>4, <2>1, ConfirmedStays
<1>6. \A b \in Askers \ {a}, c \in Procs : Newest(b, c) => Newest(b, c)'
  BY <1>1, <1>2, <1>3 DEF Newest
<1>7. \A c \in Procs : c = NextProc => Newest(a, c)'
  BY <1>1, <1>2 DEF Newest, Procs, SharesAssumption
<1>8. \A p \in Procs : /\ Used(p)' => proc'[p].asker \in Askers
                       /\ proc'[p].inited => Used(p)'
                       /\ proc'[p].stray => Used(p)'
                       /\ proc'[p].state = "alive" => runner'[proc'[p].asker].child = p
  <2> SUFFICES ASSUME NEW p \in Procs
               PROVE  /\ Used(p)' => proc'[p].asker \in Askers
                      /\ proc'[p].inited => Used(p)'
                      /\ proc'[p].stray => Used(p)'
                      /\ proc'[p].state = "alive" => runner'[proc'[p].asker].child = p
    OBVIOUS
  <2>1. CASE p = NextProc
    BY <2>1, <1>2
  <2>2. CASE p # NextProc
    BY <2>2, <1>2, <1>3 DEF SInv, Started, Follows, Used
  <2> QED BY <2>1, <2>2
<1>9. \A p, q \in Procs : q < p /\ Used(p)' => Used(q)'
  <2>1. NextProc \in Unused /\ \A p \in Unused : NextProc <= p
    BY NextProcIsLeast
  <2>2. \A q \in Procs : q < NextProc => Used(q)
    BY <2>1 DEF Unused, Used, Procs, SharesAssumption
  <2> QED BY <1>2, <2>2 DEF SInv, Started
<1>10. \A b \in Askers, c \in Procs : runner'[b].child = c => Newest(b, c)'
  BY <1>6, <1>7 DEF SInv, Started
<1>11. ASSUME NEW b \in Askers, runner'[b].initSeen
       PROVE  Named(b)'
  <2>1. b # a /\ runner[b].initSeen /\ runner'[b] = runner[b] /\ Named(b)
    BY <1>11 DEF SInv, Started
  <2>2. ASSUME NEW p \in Procs, proc'[p].state = "alive", proc'[p].asker = b
        PROVE  Confirmed(b, SessionOf(p))'
    <3>1. p # NextProc
      BY <2>1, <2>2
    <3>2. proc[p].state = "alive" /\ proc[p].asker = b /\ proc'[p].from = proc[p].from
      BY <1>3, <2>2, <3>1 DEF Follows, Used
    <3>3. SessionOf(p)' = SessionOf(p) /\ SessionOf(p) \in Procs
      BY <3>2 DEF SessionOf
    <3>4. PICK s \in Procs : s = SessionOf(p) /\ s = SessionOf(p)'
      BY <3>3
    <3>5. Confirmed(b, s)'
      BY <1>5, <2>1, <3>2, <3>4 DEF Named
    <3> QED BY <3>4, <3>5 DEF Confirmed
  <2> QED BY <1>5, <2>1, <2>2 DEF Named
<1> QED BY <1>5, <1>8, <1>9, <1>10, <1>11 DEF Started

\* A step that asks nothing new: questions are settled, and the runners that
\* were busy with them are not any more.
LEMMA AskedSettles ==
  ASSUME SharesAssumption, SInv, TypeOK', up, UNCHANGED up, NEW settled \in SUBSET Askers,
         share' \in Closed => share \in Closed \/ settled = Askers,
         \A a \in Askers : /\ runner'[a].child # None \/ runner'[a].pending # None => runner'[a].mapped
                           /\ runner'[a].pending = IF a \in settled THEN None ELSE runner[a].pending,
         \A q \in Questions :
           /\ request[q].status = "none" <=> request'[q].status = "none"
           /\ request[q].status # "none" => request'[q].asker = request[q].asker /\ request'[q].late = request[q].late
           /\ request[q].status # "running" => request'[q].status # "running"
           /\ IF \E a \in settled : runner[a].pending = q
              THEN request'[q].status # "running"
              ELSE request[q].status = "running" => request'[q].status = "running"
  PROVE  Asked'
<1>1. \A a \in Askers, q \in Questions : runner'[a].pending = q => a \notin settled /\ runner[a].pending = q
  BY Apart
<1>2. \A a, b \in Askers : runner'[a].pending # None /\ runner'[b].pending # None => a = b
  BY DEF SInv, Asked
<1>3. \A a \in Askers, q \in Questions : runner'[a].pending = q =>
        request'[q].status = "running" /\ request'[q].asker = a
  <2> SUFFICES ASSUME NEW a \in Askers, NEW q \in Questions, runner'[a].pending = q
               PROVE  request'[q].status = "running" /\ request'[q].asker = a
    OBVIOUS
  <2>1. a \notin settled /\ runner[a].pending = q /\ q # None
    BY <1>1, Apart
  <2>2. request[q].status = "running" /\ request[q].asker = a
    BY <2>1 DEF SInv, Asked
  <2>3. ~ \E b \in settled : runner[b].pending = q
    BY <2>1 DEF SInv, Asked
  <2> QED BY <2>2, <2>3
<1>4. \A a \in Askers, q \in Questions : runner'[a].pending = q /\ share' \in Closed => request'[q].late
  BY <1>1 DEF SInv, Asked
<1>5. \A q \in Questions : request'[q].status = "running" => \E a \in Askers : runner'[a].pending = q
  BY DEF SInv, Asked
<1> QED BY <1>2, <1>3, <1>4, <1>5 DEF Asked
\* What is kept and what runs, for a share that stays as it is or is reopened.
LEMMA KeptSteps ==
  ASSUME SharesAssumption, SInv, TypeOK',
         \A b \in Askers, s \in Procs : Confirmed(b, s) => Confirmed(b, s)',
         \A a \in Askers, s \in Procs : forks'[a] = s => Confirmed(a, s)',
         share' = "deleted" => share = "deleted", share' \in Closed => share \in Closed,
         share = "deleted" => \A a \in Askers :
           forks'[a] = None \/ forks'[a] = forks[a] \/ \E q \in Questions : request[q].asker = a /\ request[q].late,
         \A q \in Questions :
           /\ request[q].status # "none" => request'[q].asker = request[q].asker /\ request'[q].late = request[q].late
           /\ request'[q].status = "none" => request'[q] = request[q]
           /\ share = "deleted" => request'[q].status \in {"none", "deleted"} \/ request'[q].late,
         \A p \in Procs : proc'[p].state = "alive" /\ share \in Closed =>
           \/ proc[p].state = "alive" /\ proc'[p].asker = proc[p].asker
           \/ \E q \in Questions : request'[q].asker = proc'[p].asker /\ request'[q].late
  PROVE  Kept'
<1>1. \A a \in Askers, q \in Questions : request[q].asker = a /\ request[q].late =>
        request'[q].asker = a /\ request'[q].late
  BY DEF SInv, Kept
<1>2. \A q \in Questions : request'[q].status = "none" => ~request'[q].late
  BY DEF SInv, Kept
<1>3. DeletedKeepsNoFork'
  BY <1>1 DEF SInv, Kept, DeletedKeepsNoFork
<1>4. QuietWhenClosed'
  <2> SUFFICES ASSUME share' \in Closed, NEW p \in Procs, proc'[p].state = "alive"
               PROVE  \E q \in Questions : request'[q].asker = proc'[p].asker /\ request'[q].late
    BY DEF QuietWhenClosed, Closed
  <2>1. CASE proc[p].state = "alive" /\ proc'[p].asker = proc[p].asker
    <3>1. proc[p].asker \in Askers
      BY <2>1 DEF SInv, Started, Used
    <3>2. PICK q \in Questions : request[q].asker = proc[p].asker /\ request[q].late
      BY <2>1 DEF SInv, Kept, QuietWhenClosed
    <3> QED BY <1>1, <2>1, <3>1, <3>2
  <2> QED BY <2>1
<1> QED BY <1>2, <1>3, <1>4 DEF Kept

-----------------------------------------------------------------------------
(* finish and restartStale *)

\* A runner as its caller hands it on.
Handed(a, r) ==
  /\ r \in Runner
  /\ r.mapped = runner[a].mapped /\ r.pending = runner[a].pending /\ r.initSeen = runner[a].initSeen
  /\ r.child = runner[a].child \/ r.child = None

LEMMA KilledFollows ==
  ASSUME SharesAssumption, NEW procs, Follows(procs), NEW c \in Procs \cup {None}, c # None => Used(c)
  PROVE  /\ Follows(Killed(procs, c))
         /\ \A p \in Procs : /\ Killed(procs, c)[p].state = "alive" => procs[p].state = "alive" /\ p # c
                             /\ Killed(procs, c)[p].stray = procs[p].stray
<1>1. CASE c = None
  BY <1>1, Apart DEF Killed, Follows
<1>2. CASE c # None
  <2>1. procs \in [Procs -> Process] /\ c \in Procs
    BY <1>2 DEF Follows
  <2>2. Killed(procs, c) = [procs EXCEPT ![c] = [procs[c] EXCEPT !.state = "ended"]]
    BY <1>2, <2>1 DEF Killed
  <2>3. [procs[c] EXCEPT !.state = "ended"] \in Process
    BY <2>1, ProcessTyped
  <2>4. Killed(procs, c) \in [Procs -> Process]
    BY <2>1, <2>2, <2>3
  <2>5. \A p \in Procs : Killed(procs, c)[p] = IF p = c THEN [procs[c] EXCEPT !.state = "ended"] ELSE procs[p]
    BY <2>1, <2>2
  <2>6. /\ [procs[c] EXCEPT !.state = "ended"].state = "ended"
        /\ [procs[c] EXCEPT !.state = "ended"].asker = procs[c].asker
        /\ [procs[c] EXCEPT !.state = "ended"].from = procs[c].from
        /\ [procs[c] EXCEPT !.state = "ended"].inited = procs[c].inited
        /\ [procs[c] EXCEPT !.state = "ended"].stray = procs[c].stray
    BY <2>1, Zenon DEF Process
  <2> HIDE DEF Killed
  <2>7. ASSUME NEW p \in Procs
        PROVE  /\ Killed(procs, c)[p].asker = procs[p].asker /\ Killed(procs, c)[p].from = procs[p].from
               /\ Killed(procs, c)[p].inited = procs[p].inited /\ Killed(procs, c)[p].stray = procs[p].stray
               /\ IF p = c THEN Killed(procs, c)[p].state = "ended"
                  ELSE Killed(procs, c)[p].state = procs[p].state
    <3>1. CASE p = c
      BY <2>5, <2>6, <3>1, Zenon
    <3>2. CASE p # c
      BY <2>5, <3>2, Zenon
    <3> QED BY <3>1, <3>2
  <2>8. proc[c].state # "none"
    BY <1>2 DEF Used
  <2>9. \A p \in Procs : Killed(procs, c)[p].state = "alive" => procs[p].state = "alive" /\ p # c
    BY <2>7
  <2>10. \A p \in Procs :
           /\ Killed(procs, c)[p].asker = proc[p].asker /\ Killed(procs, c)[p].from = proc[p].from
           /\ Killed(procs, c)[p].inited = proc[p].inited
           /\ proc[p].stray => Killed(procs, c)[p].stray
           /\ Killed(procs, c)[p].stray => proc[p].state # "none"
           /\ Killed(procs, c)[p].state = "none" <=> proc[p].state = "none"
           /\ Killed(procs, c)[p].state = "alive" => proc[p].state = "alive"
    BY <2>7, <2>8 DEF Follows
  <2>11. \A p \in Procs : Killed(procs, c)[p].stray = procs[p].stray
    BY <2>7
  <2> QED BY <2>4, <2>9, <2>10, <2>11, Zenon DEF Follows
<1> QED BY <1>1, <1>2

\* What a session a runner names has to its name once the processes are procs.
Vouched(procs, a, s) ==
  Confirmed(a, s) \/ \E p \in Procs : procs[p].stray /\ proc[p].asker = a

LEMMA VouchedConfirms ==
  ASSUME SInv, NEW procs, Follows(procs), proc' = procs, NEW a \in Askers, NEW s \in Procs, Vouched(procs, a, s)
  PROVE  Confirmed(a, s)'
<1>1. CASE Confirmed(a, s)
  BY <1>1, ConfirmedStays DEF SInv, Started, Follows
<1>2. CASE \E p \in Procs : procs[p].stray /\ proc[p].asker = a
  BY <1>2 DEF Follows, Confirmed, Strayed
<1> QED BY <1>1, <1>2 DEF Vouched

\* How the runner of an asker goes on without a new process: the question it
\* is busy with stays, or it is settled.
LEMMA RunnerSteps ==
  ASSUME SharesAssumption, SInv, up, NEW a \in Askers, NEW r \in Runner, NEW procs, Follows(procs),
         runner' = [runner EXCEPT ![a] = r], proc' = procs,
         r.mapped = runner[a].mapped, r.initSeen = runner[a].initSeen,
         r.child = runner[a].child \/ r.child = None,
         \A p \in Procs : procs[p].state = "alive" /\ proc[p].asker = a => r.child = p,
         r.initSeen => \A s \in Procs : r.sessionId = s => Vouched(procs, a, s),
         UNCHANGED <<share, gone, knocking, up, restarts>>,
         request' \in [Questions -> Row], forks' \in [Askers -> Procs \cup {None}],
         \/ r.pending = runner[a].pending /\ UNCHANGED <<request, forks>>
         \/ /\ r.pending = None /\ runner[a].pending \in Questions
            /\ \A q \in Questions : IF q = runner[a].pending
                                    THEN /\ request'[q].status \in {"completed", "failed"}
                                         /\ request'[q].asker = request[q].asker /\ request'[q].late = request[q].late
                                    ELSE request'[q] = request[q]
            /\ \A b \in Askers : \/ forks'[b] = forks[b]
                                 \/ b = a /\ \A s \in Procs : forks'[b] = s => Vouched(procs, a, s)
  PROVE  SInv'
<1>1. TypeOK'
  BY DEF SInv, TypeOK, Follows
<1>2. \A b \in Askers, s \in Procs : Confirmed(b, s) => Confirmed(b, s)'
  BY ConfirmedStays DEF SInv, Started, Follows
<1>3. \A b \in Askers : runner'[b] = IF b = a THEN r ELSE runner[b]
  BY DEF SInv, TypeOK
<1>0. \A s \in Procs : Vouched(procs, a, s) => Confirmed(a, s)'
  BY VouchedConfirms
<1>4. Started'
  <2>1. \A p \in Procs : /\ proc'[p].asker = proc[p].asker /\ proc'[p].from = proc[p].from
                         /\ Used(p)' <=> Used(p)
                         /\ proc[p].inited => proc'[p].inited
                         /\ proc'[p].inited => Used(p)
                         /\ proc[p].stray => proc'[p].stray
                         /\ proc'[p].stray => Used(p)
    BY DEF Follows, Used, SInv, Started
  <2>2. \A p \in Procs : proc'[p].state = "alive" => proc[p].state = "alive" /\ runner'[proc[p].asker].child = p
    BY <1>3 DEF Follows, Used, SInv, Started
  <2>3. \A b \in Askers : runner'[b].child \in {runner[b].child, None}
    BY <1>3
  <2>4. \A b \in Askers : runner'[b].initSeen => Backed(b)
    BY <1>0, <1>2, <1>3 DEF SInv, Started, Backed, Named
  <2> QED BY <1>1, <2>1, <2>2, <2>3, <2>4, StartedFollows
<1>5. \A q \in Questions : runner[a].pending = q => request[q].status = "running" /\ request[q].asker = a
  BY DEF SInv, Asked
<1>6. Asked'
  <2> DEFINE settled == IF r.pending = runner[a].pending THEN {} ELSE {a}
  <2>1. settled \in SUBSET Askers /\ \A b \in Askers : b \in settled <=> (b = a /\ r.pending # runner[a].pending)
    OBVIOUS
  <2> HIDE DEF settled
  <2>2. \A b \in Askers : /\ runner'[b].child # None \/ runner'[b].pending # None => runner'[b].mapped
                          /\ runner'[b].pending = IF b \in settled THEN None ELSE runner[b].pending
    BY <1>3, <2>1 DEF SInv, Asked
  <2>3. \A q \in Questions :
           /\ request[q].status = "none" <=> request'[q].status = "none"
           /\ request[q].status # "none" => request'[q].asker = request[q].asker /\ request'[q].late = request[q].late
           /\ request[q].status # "running" => request'[q].status # "running"
           /\ IF \E b \in settled : runner[b].pending = q
              THEN request'[q].status # "running"
              ELSE request[q].status = "running" => request'[q].status = "running"
    <3>1. CASE r.pending = runner[a].pending
      <4>1. UNCHANGED request /\ settled = {}
        BY <3>1, <2>1, Apart
      <4> QED BY <4>1
    <3>2. CASE r.pending # runner[a].pending
      <4>1. settled = {a}
        BY <3>2, <2>1
      <4> QED BY <3>2, <4>1, <1>5
    <3> QED BY <3>1, <3>2
  <2> QED BY <1>1, <2>1, <2>2, <2>3, AskedSettles
<1>7. Kept'
  <2>1. \A b \in Askers, s \in Procs : forks'[b] = s => Confirmed(b, s)'
    BY <1>0, <1>2 DEF SInv, Kept
  <2>2. share = "deleted" => \A b \in Askers :
           forks'[b] = None \/ forks'[b] = forks[b] \/ \E q \in Questions : request[q].asker = b /\ request[q].late
    BY <1>5 DEF SInv, Asked, Closed
  <2>3. \A q \in Questions :
           /\ request[q].status # "none" => request'[q].asker = request[q].asker /\ request'[q].late = request[q].late
           /\ request'[q].status = "none" => request'[q] = request[q]
           /\ share = "deleted" => request'[q].status \in {"none", "deleted"} \/ request'[q].late
    BY <1>5 DEF SInv, Asked, Kept, Closed
  <2>4. \A p \in Procs : proc'[p].state = "alive" => proc[p].state = "alive" /\ proc'[p].asker = proc[p].asker
    BY DEF Follows
  <2> QED BY <1>1, <1>2, <2>1, <2>2, <2>3, <2>4, KeptSteps
<1> QED BY <1>1, <1>4, <1>6, <1>7 DEF SInv

LEMMA AnsweredTyped ==
  ASSUME SharesAssumption, TypeOK, NEW q \in Questions, NEW answer, Answered(q, answer),
         answer.of \in Questions \cup {None}, answer.sessionId \in Procs \cup {None}
  PROVE  /\ request' \in [Questions -> Row] /\ forks' \in [Askers -> Procs \cup {None}]
         /\ \A x \in Questions : IF x = q THEN /\ request'[x].status \in {"completed", "failed"}
                                               /\ request'[x].asker = request[x].asker
                                               /\ request'[x].late = request[x].late
                                 ELSE request'[x] = request[x]
         /\ \A b \in Askers : \/ forks'[b] = forks[b]
                              \/ /\ b = request[q].asker /\ forks'[b] = answer.sessionId
                                 /\ answer.established
<1>1. request[q] \in Row /\ request \in [Questions -> Row] /\ forks \in [Askers -> Procs \cup {None}]
  BY DEF TypeOK
<1>2. PICK status \in {"completed", "failed"} :
        request' = [request EXCEPT ![q].status = status, ![q].answer = answer.of]
  BY Zenon DEF Answered
<1> DEFINE row == [[request[q] EXCEPT !.status = status] EXCEPT !.answer = answer.of]
<1>3. row \in Row
  <2>1. [request[q] EXCEPT !.status = status] \in Row
    BY <1>1, RowTyped
  <2> QED BY <2>1, RowTyped
<1>4. row.status = status /\ row.asker = request[q].asker /\ row.late = request[q].late
  BY <1>1, Zenon DEF Row
<1>5. request' = [request EXCEPT ![q] = row]
  BY <1>1, <1>2
<1> HIDE DEF row
<1>6. request' \in [Questions -> Row] /\ \A x \in Questions : request'[x] = IF x = q THEN row ELSE request[x]
  BY <1>1, <1>3, <1>5
<1>7. \/ forks' = forks
      \/ answer.established /\ forks' = [forks EXCEPT ![request[q].asker] = answer.sessionId]
  BY Zenon DEF Answered, StoresFork
<1>8. /\ forks' \in [Askers -> Procs \cup {None}]
      /\ \A b \in Askers : \/ forks'[b] = forks[b]
                           \/ /\ b = request[q].asker /\ forks'[b] = answer.sessionId
                              /\ answer.established
  BY <1>1, <1>7
<1> QED BY <1>4, <1>6, <1>8

LEMMA FinishKeeps ==
  ASSUME SharesAssumption, SInv, up, NEW a \in Askers, NEW r, Handed(a, r), NEW procs, Follows(procs),
         NEW answer, NEW kill \in BOOLEAN,
         answer.of \in Questions \cup {None}, answer.sessionId \in Procs \cup {None},
         \A p \in Procs : procs[p].state = "alive" /\ proc[p].asker = a => r.child = p,
         r.initSeen => \A s \in Procs : r.sessionId = s => Vouched(procs, a, s),
         answer.established => \A s \in Procs : answer.sessionId = s => Vouched(procs, a, s),
         Finish(a, r, procs, answer, kill), UNCHANGED <<share, gone, knocking, up, restarts>>
  PROVE  SInv'
<1>1. CASE r.pending = None
  <2>1. runner' = [runner EXCEPT ![a] = r] /\ proc' = procs /\ UNCHANGED <<request, forks>>
    BY <1>1, Zenon DEF Finish
  <2>2. request' \in [Questions -> Row] /\ forks' \in [Askers -> Procs \cup {None}]
    BY <2>1 DEF SInv, TypeOK
  <2> QED BY <2>1, <2>2, RunnerSteps DEF Handed
<1>2. CASE r.pending # None
  <2>1. r \in Runner /\ r.pending \in Questions /\ r.child \in Procs \cup {None}
    BY <1>2 DEF Handed, Runner
  <2>2. PICK child \in {r.child, None}, procs2 \in {procs, Killed(procs, r.child)} :
          /\ runner' = [runner EXCEPT ![a] = [r EXCEPT !.pending = None, !.child = child]]
          /\ proc' = procs2
          /\ (child = r.child /\ procs2 = procs) \/ (child = None /\ procs2 = Killed(procs, r.child))
    BY <1>2, Zenon DEF Finish
  <2>3. Answered(r.pending, answer)
    BY <1>2, Zenon DEF Finish
  <2> DEFINE r2 == [[r EXCEPT !.pending = None] EXCEPT !.child = child]
  <2>4. r2 \in Runner
    <3>1. [r EXCEPT !.pending = None] \in Runner
      BY <2>1, RunnerTyped
    <3> QED BY <2>1, <3>1, RunnerTyped
  <2>5. /\ r2.mapped = r.mapped /\ r2.initSeen = r.initSeen /\ r2.sessionId = r.sessionId
        /\ r2.pending = None /\ r2.child = child
    BY <2>1, Zenon DEF Runner
  <2>6. runner' = [runner EXCEPT ![a] = r2]
    BY <2>2
  <2> HIDE DEF r2
  <2>7. r.child # None => Used(r.child)
    BY <2>1 DEF Handed, SInv, Started, Newest
  <2>8. Follows(procs2) /\ \A p \in Procs : /\ procs2[p].state = "alive" =>
                                                procs[p].state = "alive" /\ (procs2 = procs \/ p # r.child)
                                            /\ procs2[p].stray = procs[p].stray
    BY <2>1, <2>2, <2>7, KilledFollows
  <2>17. \A s \in Procs : Vouched(procs, a, s) => Vouched(procs2, a, s)
    BY <2>8 DEF Vouched
  <2>9. \A p \in Procs : procs2[p].state = "alive" /\ proc[p].asker = a => r2.child = p
    BY <2>2, <2>5, <2>8, Apart, KilledFollows, <2>7, <2>1
  <2>10. request[r.pending].asker = a /\ runner[a].pending = r.pending
    BY <2>1 DEF Handed, SInv, Asked
  <2>11. /\ request' \in [Questions -> Row] /\ forks' \in [Askers -> Procs \cup {None}]
         /\ \A q \in Questions : IF q = runner[a].pending
                                 THEN /\ request'[q].status \in {"completed", "failed"}
                                      /\ request'[q].asker = request[q].asker /\ request'[q].late = request[q].late
                                 ELSE request'[q] = request[q]
         /\ \A b \in Askers : \/ forks'[b] = forks[b]
                              \/ b = a /\ forks'[b] = answer.sessionId /\ answer.established
    BY <2>1, <2>3, <2>10, AnsweredTyped DEF SInv
  <2>12. r2.child = runner[a].child \/ r2.child = None
    BY <2>2, <2>5 DEF Handed
  <2>13. r2.mapped = runner[a].mapped /\ r2.initSeen = runner[a].initSeen
    BY <2>5 DEF Handed
  <2>14. r2.initSeen => \A s \in Procs : r2.sessionId = s => Vouched(procs2, a, s)
    BY <2>5, <2>17
  <2>15. \A b \in Askers : forks'[b] = forks[b] \/ (b = a /\ \A s \in Procs : forks'[b] = s => Vouched(procs2, a, s))
    BY <2>11, <2>17
  <2>16. r2.pending = None /\ runner[a].pending \in Questions /\ proc' = procs2
    BY <2>1, <2>2, <2>5, <2>10
  <2> QED BY <2>4, <2>6, <2>8, <2>9, <2>11, <2>12, <2>13, <2>14, <2>15, <2>16, RunnerSteps, ZenonT(60)
<1> QED BY <1>1, <1>2
\* A process is started for the question a runner has.
LEMMA SpawnSteps ==
  ASSUME SharesAssumption, SInv, Unused # {}, NEW a \in Askers, NEW r \in Runner, NEW s \in Runner, NEW q \in Questions,
         NEW procs, Follows(procs), \A p \in Procs : procs[p].state = "alive" => proc[p].asker # a,
         runner' = [runner EXCEPT ![a] = WithChild(r)], proc' = Spawned(procs, a, s, q),
         request' \in [Questions -> Row], UNCHANGED <<share, forks, gone, up, restarts>>, knocking' \subseteq knocking
  PROVE  /\ TypeOK' /\ Started' /\ \A b \in Askers, x \in Procs : Confirmed(b, x) => Confirmed(b, x)'
         /\ \A p \in Procs : proc'[p].state = "alive" =>
              \/ proc[p].state = "alive" /\ proc'[p].asker = proc[p].asker
              \/ proc'[p].asker = a
         /\ \A b \in Askers : b # a => runner'[b] = runner[b]
         /\ runner'[a].pending = r.pending /\ runner'[a].mapped = r.mapped
<1>1. NextProc \in Procs /\ ~Used(NextProc)
  BY NextProcIsLeast DEF Unused, Used
<1> DEFINE p1 == [NoProcess EXCEPT !.state = "alive"]
           p2 == [p1 EXCEPT !.asker = a]
           p3 == [p2 EXCEPT !.from = Resumes(s)]
           p4 == [p3 EXCEPT !.stale = Resumes(s) \in gone]
           p5 == [p4 EXCEPT !.inbox = <<q>>]
<1>2. Resumes(s) \in Procs \cup {Owner, Fresh}
  <2>1. s.sessionId \in Procs \cup {None}
    BY DEF Runner
  <2>2. (Resumes(s) = s.sessionId /\ s.sessionId # None) \/ Resumes(s) = Fresh \/ Resumes(s) = Owner
    BY Zenon DEF Resumes
  <2> QED BY <2>1, <2>2
<1>3. NoProcess \in Process
  <2>1. <<>> \in Seq(Questions)
    OBVIOUS
  <2> QED BY <2>1, Zenon DEF NoProcess, Process
<1>4. p5 \in Process
  <2>1. p1 \in Process
    BY <1>3, ProcessTyped
  <2>2. p2 \in Process
    BY <2>1, ProcessTyped
  <2>3. p3 \in Process
    <3> HIDE DEF p2
    <3> QED BY <1>2, <2>2, ProcessTyped
  <2>4. p4 \in Process
    <3>1. (Resumes(s) \in gone) \in BOOLEAN
      OBVIOUS
    <3> HIDE DEF p3
    <3> QED BY <2>3, <3>1, ProcessTyped, Zenon
  <2>5. <<q>> \in Seq(Questions)
    OBVIOUS
  <2> HIDE DEF p4
  <2> QED BY <2>4, <2>5, ProcessTyped
<1>5. p5.state = "alive" /\ p5.asker = a /\ p5.inited = FALSE /\ p5.stray = FALSE
  BY <1>3, Zenon DEF NoProcess, Process
<1>6. proc' = [procs EXCEPT ![NextProc] = p5]
  BY DEF Spawned
<1> HIDE DEF p5
<1>7. proc' \in [Procs -> Process] /\ \A p \in Procs : proc'[p] = IF p = NextProc THEN p5 ELSE procs[p]
  BY <1>1, <1>4, <1>6 DEF Follows
<1>8. WithChild(r) \in Runner
  <2>1. [r EXCEPT !.child = NextProc] \in Runner
    BY <1>1, RunnerTyped
  <2>2. FALSE \in BOOLEAN
    BY Zenon
  <2> DEFINE r1 == [r EXCEPT !.child = NextProc]
  <2>3. r1 \in Runner
    BY <2>1
  <2>4. WithChild(r) = [r1 EXCEPT !.initSeen = FALSE]
    BY DEF WithChild
  <2> HIDE DEF r1
  <2> QED BY <2>2, <2>3, <2>4, RunnerTyped
<1>9. /\ WithChild(r).child = NextProc /\ WithChild(r).initSeen = FALSE
      /\ WithChild(r).pending = r.pending /\ WithChild(r).mapped = r.mapped
  BY Zenon DEF WithChild, Runner
<1>10. runner' \in [Askers -> Runner] /\ \A b \in Askers : runner'[b] = IF b = a THEN WithChild(r) ELSE runner[b]
  BY <1>8 DEF SInv, TypeOK
<1>11. TypeOK'
  BY <1>7, <1>10 DEF SInv, TypeOK
<1>12. Started' /\ \A b \in Askers, x \in Procs : Confirmed(b, x) => Confirmed(b, x)'
  <2>1. \A p \in Procs \ {NextProc} : proc'[p] = procs[p]
    BY <1>7
  <2>2. /\ proc'[NextProc].state = "alive" /\ proc'[NextProc].asker = a
        /\ ~proc'[NextProc].inited /\ ~proc'[NextProc].stray
    BY <1>1, <1>5, <1>7
  <2>3. runner'[a].child = NextProc /\ ~runner'[a].initSeen /\ \A b \in Askers \ {a} : runner'[b] = runner[b]
    BY <1>9, <1>10
  <2> QED BY <1>11, <2>1, <2>2, <2>3, StartedSpawns
<1>13. \A p \in Procs : proc'[p].state = "alive" =>
              \/ proc[p].state = "alive" /\ proc'[p].asker = proc[p].asker
              \/ proc'[p].asker = a
  BY <1>5, <1>7 DEF Follows
<1> QED BY <1>9, <1>10, <1>11, <1>12, <1>13

LEMMA RestartKeeps ==
  ASSUME SharesAssumption, SInv, up, NEW a \in Askers, NEW r, Handed(a, r), CanRestart(r),
         NEW procs, Follows(procs), \A p \in Procs : procs[p].state = "alive" /\ proc[p].asker = a => r.child = p,
         Restart(a, r, procs), UNCHANGED <<share, gone, knocking, up, restarts>>
  PROVE  SInv'
<1>1. r \in Runner /\ r.pending \in Questions /\ r.child \in Procs \cup {None} /\ r.retries + 1 \in 0..MAX_STALE_RETRIES
  BY DEF Handed, Runner, CanRestart, SharesAssumption
<1> DEFINE r1 == [r EXCEPT !.retries = r.retries + 1]
           r2 == [r1 EXCEPT !.sessionId = None]
           dropped == [r2 EXCEPT !.ownerStale = r.ownerStale \/ r.sessionId = None]
           procs2 == Killed(procs, r.child)
<1>2. dropped \in Runner
  <2>1. r1 \in Runner
    BY <1>1, RunnerTyped
  <2>2. r2 \in Runner
    <3> HIDE DEF r1
    <3> QED BY <2>1, RunnerTyped
  <2>3. (r.ownerStale \/ r.sessionId = None) \in BOOLEAN
    BY Zenon
  <2> HIDE DEF r2
  <2> QED BY <2>2, <2>3, RunnerTyped, Zenon
<1>3. dropped.pending = r.pending /\ dropped.mapped = r.mapped
  BY <1>1, Zenon DEF Runner
<1>4. /\ Unused # {} /\ UNCHANGED <<request, forks>>
      /\ runner' = [runner EXCEPT ![a] = WithChild(dropped)]
      /\ proc' = Spawned(procs2, a, dropped, r.pending)
  <2>1. dropped = [r EXCEPT !.retries = r.retries + 1, !.sessionId = None,
                            !.ownerStale = r.ownerStale \/ r.sessionId = None]
    OBVIOUS
  <2> HIDE DEF dropped
  <2> QED BY <2>1, Zenon DEF Restart
<1> HIDE DEF dropped
<1>5. r.child # None => Used(r.child)
  BY <1>1 DEF Handed, SInv, Started, Newest
<1>6. Follows(procs2) /\ \A p \in Procs : procs2[p].state = "alive" => procs[p].state = "alive" /\ p # r.child
  BY <1>1, <1>5, KilledFollows
<1> HIDE DEF procs2
<1>7. \A p \in Procs : procs2[p].state = "alive" => proc[p].asker # a
  BY <1>6
<1>8. request' \in [Questions -> Row] /\ knocking' \subseteq knocking
  BY <1>4 DEF SInv, TypeOK
<1>9. /\ TypeOK' /\ Started' /\ \A b \in Askers, x \in Procs : Confirmed(b, x) => Confirmed(b, x)'
      /\ \A p \in Procs : proc'[p].state = "alive" =>
           \/ proc[p].state = "alive" /\ proc'[p].asker = proc[p].asker
           \/ proc'[p].asker = a
      /\ \A b \in Askers : b # a => runner'[b] = runner[b]
      /\ runner'[a].pending = r.pending /\ runner'[a].mapped = r.mapped
  BY <1>1, <1>2, <1>3, <1>4, <1>6, <1>7, <1>8, SpawnSteps, ZenonT(60)
<1>10. runner[a].pending = r.pending /\ runner[a].mapped = r.mapped
  BY DEF Handed
<1>11. Asked'
  <2>1. \A b \in Askers : runner'[b].pending = runner[b].pending /\ runner'[b].mapped = runner[b].mapped
    BY <1>9, <1>10
  <2>2. \A b \in Askers : runner'[b].child # None \/ runner'[b].pending # None => runner'[b].mapped
    BY <1>1, <1>9, <1>10, Apart DEF SInv, Asked
  <2> QED BY <1>4, <2>1, <2>2 DEF SInv, Asked
<1>12. Kept'
  <2>1. share \in Closed => request'[r.pending].asker = a /\ request'[r.pending].late
    BY <1>1, <1>4, <1>10 DEF SInv, Asked
  <2>2. \A b \in Askers, x \in Procs : forks'[b] = x => Confirmed(b, x)'
    BY <1>4, <1>9 DEF SInv, Kept
  <2>3. share = "deleted" => \A q \in Questions : request'[q].status \in {"none", "deleted"} \/ request'[q].late
    BY <1>4 DEF SInv, Kept
  <2> QED BY <1>1, <1>4, <1>9, <2>1, <2>2, <2>3, KeptSteps
<1> QED BY <1>9, <1>11, <1>12 DEF SInv
-----------------------------------------------------------------------------
(* What a process does *)

LEMMA HeardFacts ==
  ASSUME SharesAssumption, SInv, NEW p \in Procs, Heard(p)
  PROVE  /\ up /\ Used(p) /\ proc[p].asker \in Askers /\ proc[p] \in Process
         /\ runner[proc[p].asker] \in Runner /\ Handed(proc[p].asker, runner[proc[p].asker])
         /\ SessionOf(p) \in Procs
         /\ \A a \in Askers, q \in Procs : proc[q].state = "alive" /\ proc[q].asker = a => runner[a].child = q
         /\ \A a \in Askers, s \in Procs : runner[a].initSeen /\ runner[a].sessionId = s => Confirmed(a, s)
<1>1. up /\ Used(p) /\ proc[p].asker \in Askers
  BY DEF Heard, Used, SInv, Started
<1>2. proc[p] \in Process /\ runner[proc[p].asker] \in Runner
  BY <1>1 DEF SInv, TypeOK
<1>3. Handed(proc[p].asker, runner[proc[p].asker])
  BY <1>2, Zenon DEF Handed
<1>4. SessionOf(p) \in Procs
  BY Zenon DEF SessionOf
<1>5. /\ \A a \in Askers, q \in Procs : proc[q].state = "alive" /\ proc[q].asker = a => runner[a].child = q
      /\ \A a \in Askers, s \in Procs : runner[a].initSeen /\ runner[a].sessionId = s => Confirmed(a, s)
  BY DEF SInv, Started, Named
<1> QED BY <1>1, <1>2, <1>3, <1>4, <1>5

\* One process goes on.
LEMMA OneFollows ==
  ASSUME SInv, NEW p \in Procs, NEW x \in Process, x.asker = proc[p].asker, x.from = proc[p].from,
         x.inited = proc[p].inited, x.state = "none" <=> proc[p].state = "none",
         x.state = "alive" => proc[p].state = "alive", proc[p].stray => x.stray,
         x.state # "none" \/ x.stray = proc[p].stray
  PROVE  /\ Follows([proc EXCEPT ![p] = x])
         /\ \A q \in Procs : [proc EXCEPT ![p] = x][q] = IF q = p THEN x ELSE proc[q]
<1>1. proc \in [Procs -> Process]
  BY DEF SInv, TypeOK
<1>2. [proc EXCEPT ![p] = x] \in [Procs -> Process]
  BY <1>1
<1>3. \A q \in Procs : [proc EXCEPT ![p] = x][q] = IF q = p THEN x ELSE proc[q]
  BY <1>1
<1>4. \A q \in Procs : proc[q].stray => proc[q].state # "none"
  BY DEF SInv, Started, Used
<1> QED BY <1>2, <1>3, <1>4 DEF Follows

LEMMA OverTyped ==
  ASSUME NEW x \in Process
  PROVE  /\ Over(x) \in Process /\ Over(x).asker = x.asker /\ Over(x).from = x.from
         /\ Over(x).inited = x.inited /\ Over(x).stray = x.stray /\ Over(x).state = "closed"
<1>1. <<>> \in Seq(Questions) /\ "closed" \in {"none", "alive", "ended", "closed"}
  OBVIOUS
<1>2. FALSE \in BOOLEAN
  BY Zenon
<1>3. [x EXCEPT !.state = "closed", !.inbox = <<>>, !.stale = FALSE] \in Process
  BY <1>1, <1>2, Zenon DEF Process
<1>4. /\ [x EXCEPT !.state = "closed", !.inbox = <<>>, !.stale = FALSE].asker = x.asker
      /\ [x EXCEPT !.state = "closed", !.inbox = <<>>, !.stale = FALSE].from = x.from
      /\ [x EXCEPT !.state = "closed", !.inbox = <<>>, !.stale = FALSE].inited = x.inited
      /\ [x EXCEPT !.state = "closed", !.inbox = <<>>, !.stale = FALSE].stray = x.stray
      /\ [x EXCEPT !.state = "closed", !.inbox = <<>>, !.stale = FALSE].state = "closed"
  BY Zenon DEF Process
<1> QED BY <1>3, <1>4 DEF Over

\* A process whose record is x from now on, and is drained if it had ended.
LEMMA InboxDrained ==
  ASSUME SInv, NEW p \in Procs, proc[p].state # "none", NEW x \in Process, x.asker = proc[p].asker,
         x.from = proc[p].from, x.inited = proc[p].inited, x.state = proc[p].state, proc[p].stray => x.stray,
         NEW procs, procs = [proc EXCEPT ![p] = x]
  PROVE  Follows(procs) /\ Follows(Drained(procs, p)) /\ Drained(procs, p)[p].stray = x.stray
<1>1. proc \in [Procs -> Process]
  BY DEF SInv, TypeOK
<1>2. Follows(procs) /\ procs[p] = x
  BY OneFollows, ZenonT(60)
<1>3. Over(x) \in Process /\ Over(x).asker = x.asker /\ Over(x).from = x.from
      /\ Over(x).inited = x.inited /\ Over(x).stray = x.stray /\ Over(x).state = "closed"
  BY OverTyped
<1>4. Follows([proc EXCEPT ![p] = Over(x)]) /\ [proc EXCEPT ![p] = Over(x)][p] = Over(x)
  BY <1>3, OneFollows
<1>5. Drained(procs, p) = procs \/ Drained(procs, p) = [proc EXCEPT ![p] = Over(x)]
  <2>1. Drained(procs, p) = procs \/ Drained(procs, p) = [procs EXCEPT ![p] = Over(procs[p])]
    BY Zenon DEF Drained
  <2>2. [procs EXCEPT ![p] = Over(procs[p])] = [proc EXCEPT ![p] = Over(x)]
    BY <1>1, <1>2
  <2> QED BY <2>1, <2>2
<1> QED BY <1>2, <1>3, <1>4, <1>5

LEMMA InboxFollows ==
  ASSUME SInv, NEW p \in Procs, proc[p].state # "none", NEW i \in Seq(Questions)
  PROVE  Follows([proc EXCEPT ![p].inbox = i]) /\ Follows(Drained([proc EXCEPT ![p].inbox = i], p))
<1> DEFINE x == [proc[p] EXCEPT !.inbox = i]
           procs == [proc EXCEPT ![p].inbox = i]
<1>1. proc[p] \in Process /\ proc \in [Procs -> Process]
  BY DEF SInv, TypeOK
<1>2. x \in Process
  BY <1>1, ProcessTyped
<1>3. /\ x.asker = proc[p].asker /\ x.from = proc[p].from /\ x.inited = proc[p].inited
      /\ x.state = proc[p].state /\ x.stray = proc[p].stray
  BY <1>1, Zenon DEF Process
<1>4. procs = [proc EXCEPT ![p] = x]
  BY <1>1
<1> HIDE DEF x, procs
<1>5. Follows(procs) /\ Follows(Drained(procs, p))
  BY <1>2, <1>3, <1>4, InboxDrained
<1> QED BY <1>5 DEF procs

\* A line of p that names its session has come in: of a process that had ended
\* before its init line did, the step says so.
LEMMA NotedFollows ==
  ASSUME SInv, NEW p \in Procs, proc[p].state # "none"
  PROVE  /\ \E x \in Process :
              /\ Noted(p) = [proc EXCEPT ![p] = x]
              /\ x.asker = proc[p].asker /\ x.from = proc[p].from /\ x.inited = proc[p].inited
              /\ x.state = proc[p].state /\ (proc[p].stray => x.stray)
              /\ proc[p].state = "ended" /\ ~proc[p].inited => x.stray
         /\ Follows(Noted(p))
         /\ proc[p].state = "ended" /\ ~proc[p].inited => Noted(p)[p].stray
<1>1. proc[p] \in Process /\ proc \in [Procs -> Process]
  BY DEF SInv, TypeOK
<1> DEFINE late == proc[p].stray \/ (proc[p].state = "ended" /\ ~proc[p].inited)
           x == [proc[p] EXCEPT !.stray = late]
<1>2. late \in BOOLEAN
  BY Zenon
<1>3. Noted(p) = [proc EXCEPT ![p] = x]
  BY <1>1 DEF Noted
<1>4. x \in Process
  <2> HIDE DEF late
  <2> QED BY <1>1, <1>2, ProcessTyped
<1>5. /\ x.asker = proc[p].asker /\ x.from = proc[p].from /\ x.inited = proc[p].inited
      /\ x.state = proc[p].state /\ x.stray = late
  <2> HIDE DEF late
  <2> QED BY <1>1, Zenon DEF Process
<1>6. (proc[p].stray => late) /\ (proc[p].state = "ended" /\ ~proc[p].inited => late)
  OBVIOUS
<1> HIDE DEF x, late
<1>8. /\ x.inited = proc[p].inited /\ (x.state = "none" <=> proc[p].state = "none")
      /\ (x.state = "alive" => proc[p].state = "alive") /\ (proc[p].stray => x.stray)
      /\ (x.state # "none" \/ x.stray = proc[p].stray)
  BY <1>5, <1>6
<1>7. Follows(Noted(p)) /\ Noted(p)[p] = x
  <2>1. x.asker = proc[p].asker /\ x.from = proc[p].from
    BY <1>5
  <2>2. Follows([proc EXCEPT ![p] = x]) /\ [proc EXCEPT ![p] = x][p] = x
    BY <1>4, <1>8, <2>1, OneFollows
  <2> QED BY <1>3, <2>2
<1> QED BY <1>3, <1>4, <1>5, <1>6, <1>7

\* A line that settles a question or names a session, of a process that is
\* heard: the session is confirmed, or the process is one that had ended
\* before its init line came in.
LEMMA HeardConfirms ==
  ASSUME SharesAssumption, SInv, NEW p \in Procs, Heard(p), runner[proc[p].asker].initSeen
  PROVE  Confirmed(proc[p].asker, SessionOf(p)) \/ (proc[p].state = "ended" /\ ~proc[p].inited)
<1>1. CASE proc[p].inited
  BY <1>1 DEF Confirmed
<1>2. CASE proc[p].state = "alive"
  BY <1>2, HeardFacts DEF SInv, Started, Named
<1> QED BY <1>1, <1>2 DEF Heard

LEMMA SessionHanded ==
  ASSUME SharesAssumption, NEW a, NEW s \in Procs \cup {None}, runner[a] \in Runner
  PROVE  /\ Handed(a, [runner[a] EXCEPT !.sessionId = s])
         /\ [runner[a] EXCEPT !.sessionId = s].sessionId = s
         /\ [runner[a] EXCEPT !.sessionId = s].child = runner[a].child
<1>1. [runner[a] EXCEPT !.sessionId = s] \in Runner
  BY RunnerTyped
<1> QED BY <1>1, Zenon DEF Handed, Runner

LEMMA FailureTyped ==
  ASSUME NEW r \in Runner
  PROVE  /\ Failure(r).ok = FALSE /\ Failure(r).of = None /\ Failure(r).sessionId = r.sessionId
         /\ Failure(r).established = r.initSeen
         /\ r.sessionId \in Procs \cup {None}
  BY Zenon DEF Failure, Runner

LEMMA NamesKeeps ==
  ASSUME SharesAssumption, SInv, NEW p \in Procs, Names(p)
  PROVE  SInv'
<1> DEFINE a == proc[p].asker
           procs == Noted(p)
<1>1. Heard(p) /\ runner' = [runner EXCEPT ![a].sessionId = SessionOf(p)] /\ proc' = procs
      /\ UNCHANGED <<share, request, forks, gone, knocking, up, restarts>>
  BY DEF Names
<1> DEFINE r == [runner[a] EXCEPT !.sessionId = SessionOf(p)]
<1>2. Handed(a, r) /\ r.sessionId = SessionOf(p) /\ r.child = runner[a].child
  BY <1>1, HeardFacts, SessionHanded
<1>3. runner' = [runner EXCEPT ![a] = r]
  BY <1>1, HeardFacts DEF SInv, TypeOK
<1>4. Follows(procs) /\ (proc[p].state = "ended" /\ ~proc[p].inited => procs[p].stray)
  BY <1>1, HeardFacts, NotedFollows DEF Used
<1>5. request' \in [Questions -> Row] /\ forks' \in [Askers -> Procs \cup {None}]
  BY <1>1 DEF SInv, TypeOK
<1> HIDE DEF r, procs
<1>6. r \in Runner /\ r.mapped = runner[a].mapped /\ r.pending = runner[a].pending /\ r.initSeen = runner[a].initSeen
  BY <1>2 DEF Handed
<1>7. r.initSeen => \A s \in Procs : r.sessionId = s => Vouched(procs, a, s)
  BY <1>1, <1>2, <1>4, <1>6, HeardConfirms DEF Vouched
<1>8. up /\ a \in Askers /\ \A q \in Procs : procs[q].state = "alive" /\ proc[q].asker = a => r.child = q
  BY <1>1, <1>2, <1>4, HeardFacts DEF Follows
<1> HIDE DEF a
<1> QED BY <1>1, <1>2, <1>3, <1>4, <1>5, <1>6, <1>7, <1>8, RunnerSteps

LEMMA ResultKeeps ==
  ASSUME SharesAssumption, SInv, NEW p \in Procs, NEW ok \in BOOLEAN, Result(p, ok)
  PROVE  SInv'
<1> DEFINE a == proc[p].asker
           r == [runner[a] EXCEPT !.sessionId = SessionOf(p)]
           noted == [Noted(p) EXCEPT ![p].inbox = Tail(proc[p].inbox)]
           procs == Drained(noted, p)
<1>2. Heard(p) /\ proc[p].inbox # <<>> /\ UNCHANGED <<share, gone, knocking, up, restarts>>
  BY Zenon DEF Result
<1>3. proc[p].inbox \in Seq(Questions)
  BY <1>2, HeardFacts DEF Process
<1>20. PICK x \in Process :
         /\ Noted(p) = [proc EXCEPT ![p] = x]
         /\ x.asker = proc[p].asker /\ x.from = proc[p].from /\ x.inited = proc[p].inited
         /\ x.state = proc[p].state /\ (proc[p].stray => x.stray)
         /\ (proc[p].state = "ended" /\ ~proc[p].inited => x.stray)
  BY <1>2, HeardFacts, NotedFollows DEF Used
<1>21. Noted(p)[p].inbox = proc[p].inbox
  BY <1>2, HeardFacts DEF Noted, SInv, TypeOK
<1>1. PICK of \in {None, Head(proc[p].inbox)} :
        Finish(a, r, procs, [ok |-> ok, of |-> of, sessionId |-> r.sessionId, established |-> r.initSeen], FALSE)
  <2>1. noted = [Noted(p) EXCEPT ![p].inbox = Tail(@)]
    BY <1>21
  <2> HIDE DEF noted
  <2> QED BY <2>1, Zenon DEF Result
<1>4. Tail(proc[p].inbox) \in Seq(Questions) /\ of \in Questions \cup {None}
  BY <1>2, <1>3
<1>5. Follows(procs) /\ (proc[p].state = "ended" /\ ~proc[p].inited => procs[p].stray)
  <2> DEFINE y == [x EXCEPT !.inbox = Tail(proc[p].inbox)]
  <2>1. y \in Process
    BY <1>4, ProcessTyped
  <2>2. /\ y.asker = x.asker /\ y.from = x.from /\ y.inited = x.inited
        /\ y.state = x.state /\ y.stray = x.stray
    BY Zenon DEF Process
  <2>3. noted = [proc EXCEPT ![p] = y]
    BY <1>20 DEF SInv, TypeOK
  <2>4. proc[p].state # "none"
    BY <1>2 DEF Heard
  <2> HIDE DEF y, noted
  <2>7. /\ x.asker = proc[p].asker /\ x.from = proc[p].from /\ x.inited = proc[p].inited
        /\ x.state = proc[p].state
    BY <1>20, Zenon
  <2>8. proc[p].stray => x.stray
    BY <1>20, Zenon
  <2>9. y.stray = x.stray
    BY <2>2, Zenon
  <2>10. proc[p].stray => y.stray
    BY <2>8, <2>9, Zenon
  <2>6. /\ y.asker = proc[p].asker /\ y.from = proc[p].from /\ y.inited = proc[p].inited
        /\ y.state = proc[p].state /\ (proc[p].stray => y.stray)
    BY <2>2, <2>7, <2>10, Zenon
  <2>5. Follows(procs) /\ procs[p].stray = y.stray
    BY <2>1, <2>3, <2>4, <2>6, InboxDrained
  <2> QED BY <1>20, <2>2, <2>5
<1>6. Handed(a, r) /\ r.sessionId = SessionOf(p) /\ r.child = runner[a].child /\ r.initSeen = runner[a].initSeen
  BY <1>2, HeardFacts, SessionHanded, SMTT(60) DEF Handed
<1> HIDE DEF r, procs
<1>7. r.initSeen => \A s \in Procs : r.sessionId = s => Vouched(procs, a, s)
  BY <1>2, <1>5, <1>6, HeardConfirms DEF Vouched
<1>8. \A q \in Procs : procs[q].state = "alive" /\ proc[q].asker = a => r.child = q
  BY <1>2, <1>5, <1>6, HeardFacts DEF Follows
<1>9. up /\ a \in Askers /\ SessionOf(p) \in Procs
  BY <1>2, HeardFacts
<1> DEFINE answer == [ok |-> ok, of |-> of, sessionId |-> r.sessionId, established |-> r.initSeen]
<1>10. answer.of = of /\ answer.sessionId = r.sessionId /\ answer.established = r.initSeen
  OBVIOUS
<1>11. Finish(a, r, procs, answer, FALSE)
  BY <1>1
<1>12. FALSE \in BOOLEAN
  BY Zenon
<1> HIDE DEF answer, a
<1>13. /\ answer.of \in Questions \cup {None} /\ answer.sessionId \in Procs \cup {None}
       /\ answer.established => \A s \in Procs : answer.sessionId = s => Vouched(procs, a, s)
  BY <1>4, <1>6, <1>7, <1>9, <1>10
<1>14. PICK kill \in BOOLEAN : Finish(a, r, procs, answer, kill)
  BY <1>11, <1>12, Zenon
<1> QED BY <1>2, <1>5, <1>6, <1>7, <1>8, <1>9, <1>13, <1>14, FinishKeeps

LEMMA StaleResultKeeps ==
  ASSUME SharesAssumption, SInv, NEW p \in Procs, StaleResult(p)
  PROVE  SInv'
<1> DEFINE a == proc[p].asker
           r == runner[a]
           procs == Drained([proc EXCEPT ![p].inbox = <<>>], p)
           answer == [Failure(r) EXCEPT !.sessionId = None, !.established = FALSE]
<1>1. Heard(p) /\ UNCHANGED <<share, gone, knocking, up, restarts>>
  BY Zenon DEF StaleResult
<1>11. (CanRestart(r) /\ Restart(a, r, procs)) \/ Finish(a, r, procs, answer, TRUE)
  BY Zenon DEF StaleResult
<1>2. /\ up /\ a \in Askers /\ Handed(a, r)
      /\ \A q \in Procs : proc[q].state = "alive" /\ proc[q].asker = a => r.child = q
      /\ \A s \in Procs : r.initSeen /\ r.sessionId = s => Confirmed(a, s)
  BY <1>1, HeardFacts
<1>3. Follows(procs)
  <2>1. <<>> \in Seq(Questions) /\ proc[p].state # "none"
    BY <1>1 DEF Heard
  <2> QED BY <2>1, InboxFollows
<1>4. answer.of = None /\ answer.sessionId = None
  BY DEF Failure
<1>5. TRUE \in BOOLEAN
  BY Zenon
<1> HIDE DEF procs, answer
<1>6. \A q \in Procs : procs[q].state = "alive" /\ proc[q].asker = a => r.child = q
  BY <1>2, <1>3 DEF Follows
<1> HIDE DEF a, r
<1>7. CASE CanRestart(r) /\ Restart(a, r, procs)
  BY <1>1, <1>2, <1>3, <1>6, <1>7, RestartKeeps
<1>8. /\ answer.of \in Questions \cup {None} /\ answer.sessionId \in Procs \cup {None}
      /\ answer.established => \A s \in Procs : answer.sessionId = s => Vouched(procs, a, s)
  BY <1>4, Apart
<1>9. r.initSeen => \A s \in Procs : r.sessionId = s => Vouched(procs, a, s)
  BY <1>2 DEF Vouched
<1>10. CASE Finish(a, r, procs, answer, TRUE)
  <2>1. PICK kill \in BOOLEAN : Finish(a, r, procs, answer, kill)
    BY <1>5, <1>10, Zenon
  <2>2. up /\ a \in Askers /\ Handed(a, r)
    BY <1>2
  <2> QED BY <1>1, <1>3, <1>6, <1>8, <1>9, <2>1, <2>2, FinishKeeps
<1> QED BY <1>7, <1>10, <1>11, Zenon

LEMMA ExitsKeeps ==
  ASSUME SharesAssumption, SInv, NEW p \in Procs, NEW saysStale \in BOOLEAN, Exits(p, saysStale)
  PROVE  SInv'
<1> DEFINE a == proc[p].asker
           r == [runner[a] EXCEPT !.child = None]
           procs == [proc EXCEPT ![p].state = "ended"]
           answer == Failure(r)
<1>1. Heard(p) /\ runner[a].child = p /\ UNCHANGED <<share, gone, knocking, up, restarts>>
      /\ \/ CanRestart(r) /\ Restart(a, r, procs)
         \/ Finish(a, r, procs, answer, FALSE)
  BY Zenon DEF Exits
<1>2. /\ up /\ a \in Askers /\ runner[a] \in Runner /\ proc[p] \in Process /\ Used(p)
      /\ \A q \in Procs : proc[q].state = "alive" /\ proc[q].asker = a => runner[a].child = q
      /\ \A s \in Procs : runner[a].initSeen /\ runner[a].sessionId = s => Confirmed(a, s)
  BY <1>1, HeardFacts
<1>3. r \in Runner
  BY <1>2, RunnerTyped
<1>4. /\ r.mapped = runner[a].mapped /\ r.pending = runner[a].pending /\ r.initSeen = runner[a].initSeen
      /\ r.child = None /\ r.sessionId = runner[a].sessionId
  BY <1>2, Zenon DEF Runner
<1>5. answer.of = None /\ answer.sessionId = r.sessionId /\ answer.established = r.initSeen
      /\ r.sessionId \in Procs \cup {None}
  BY <1>3, FailureTyped
<1> DEFINE x == [proc[p] EXCEPT !.state = "ended"]
<1>6. x \in Process /\ procs = [proc EXCEPT ![p] = x]
  BY <1>2, ProcessTyped DEF SInv, TypeOK
<1>7. /\ x.asker = proc[p].asker /\ x.from = proc[p].from /\ x.inited = proc[p].inited /\ x.stray = proc[p].stray
      /\ x.state = "ended"
  BY <1>2, Zenon DEF Process
<1> HIDE DEF r, procs, answer, x
<1>8. Follows(procs) /\ \A q \in Procs : procs[q] = IF q = p THEN x ELSE proc[q]
  BY <1>2, <1>6, <1>7, OneFollows, ZenonT(60) DEF Used
<1>9. \A q \in Procs : procs[q].state = "alive" /\ proc[q].asker = a => r.child = q
  BY <1>1, <1>2, <1>7, <1>8
<1>10. Handed(a, r)
  BY <1>3, <1>4 DEF Handed
<1>11. r.initSeen => \A s \in Procs : r.sessionId = s => Vouched(procs, a, s)
  BY <1>2, <1>4 DEF Vouched
<1>12. FALSE \in BOOLEAN
  BY Zenon
<1> HIDE DEF a
<1>13. CASE CanRestart(r) /\ Restart(a, r, procs)
  BY <1>1, <1>2, <1>8, <1>9, <1>10, <1>13, RestartKeeps
<1>14. /\ answer.of \in Questions \cup {None} /\ answer.sessionId \in Procs \cup {None}
       /\ answer.established => \A s \in Procs : answer.sessionId = s => Vouched(procs, a, s)
  BY <1>5, <1>11
<1>15. CASE Finish(a, r, procs, answer, FALSE)
  <2>1. PICK kill \in BOOLEAN : Finish(a, r, procs, answer, kill)
    BY <1>12, <1>15, Zenon
  <2> QED BY <1>1, <1>2, <1>8, <1>9, <1>10, <1>11, <1>14, <2>1, FinishKeeps
<1> QED BY <1>1, <1>13, <1>15

\* A question fails, and the process that was to answer it is killed.
LEMMA FailsKeeps ==
  ASSUME SharesAssumption, SInv, up, NEW a \in Askers, NEW procs, Follows(procs), NEW kill \in BOOLEAN,
         Finish(a, runner[a], procs, Failure(runner[a]), kill), UNCHANGED <<share, gone, knocking, up, restarts>>
  PROVE  SInv'
<1>0. PICK r, answer : r = runner[a] /\ answer = Failure(r)
  OBVIOUS
<1>1. r \in Runner
  BY <1>0 DEF SInv, TypeOK
<1>2. answer.of = None /\ answer.sessionId = r.sessionId /\ answer.established = r.initSeen
      /\ r.sessionId \in Procs \cup {None}
  BY <1>0, <1>1, FailureTyped
<1>3. Handed(a, r)
  BY <1>0, <1>1, Zenon DEF Handed
<1>5. /\ \A q \in Procs : procs[q].state = "alive" /\ proc[q].asker = a => r.child = q
      /\ r.initSeen => \A s \in Procs : r.sessionId = s => Vouched(procs, a, s)
  BY <1>0 DEF SInv, Started, Named, Vouched, Follows
<1>6. Finish(a, r, procs, answer, kill)
  BY <1>0, Zenon
<1>7. /\ answer.of \in Questions \cup {None} /\ answer.sessionId \in Procs \cup {None}
      /\ answer.established => \A s \in Procs : answer.sessionId = s => Vouched(procs, a, s)
  BY <1>2, <1>5
<1> QED BY <1>3, <1>5, <1>6, <1>7, FinishKeeps

LEMMA SendFailsKeeps ==
  ASSUME SharesAssumption, SInv, NEW p \in Procs, SendFails(p)
  PROVE  SInv'
<1>1. Heard(p) /\ UNCHANGED <<share, gone, knocking, up, restarts>>
  BY DEF SendFails
<1>4. PICK kill \in BOOLEAN : Finish(proc[p].asker, runner[proc[p].asker], [proc EXCEPT ![p].inbox = <<>>],
                                     Failure(runner[proc[p].asker]), kill)
  <2>1. TRUE \in BOOLEAN
    BY Zenon
  <2> QED BY <2>1, Zenon DEF SendFails
<1>2. Follows([proc EXCEPT ![p].inbox = <<>>])
  <2>1. <<>> \in Seq(Questions) /\ proc[p].state # "none"
    BY <1>1 DEF Heard
  <2> QED BY <2>1, InboxFollows
<1>3. up /\ proc[p].asker \in Askers
  BY <1>1, HeardFacts
<1> QED BY <1>1, <1>2, <1>3, <1>4, FailsKeeps

LEMMA TimeoutKeeps ==
  ASSUME SharesAssumption, SInv, NEW a \in Askers, Timeout(a)
  PROVE  SInv'
<1>1. Follows(proc)
  BY DEF Follows, SInv, TypeOK, Started, Used
<1>2. up /\ UNCHANGED <<share, gone, knocking, up, restarts>>
  BY DEF Timeout
<1>3. PICK kill \in BOOLEAN : Finish(a, runner[a], proc, Failure(runner[a]), kill)
  <2>1. TRUE \in BOOLEAN
    BY Zenon
  <2> QED BY <2>1, Zenon DEF Timeout
<1> QED BY <1>1, <1>2, <1>3, FailsKeeps
LEMMA InitsKeeps ==
  ASSUME SharesAssumption, SInv, NEW p \in Procs, Inits(p)
  PROVE  SInv'
<1>0. PICK a \in Askers : a = proc[p].asker
  <2>1. Heard(p)
    BY DEF Inits
  <2> QED BY <2>1, HeardFacts
<1> DEFINE late == proc[p].stray \/ (proc[p].state = "ended" /\ ~proc[p].inited)
           x1 == [proc[p] EXCEPT !.stray = late]
           x == [x1 EXCEPT !.inited = TRUE]
           r1 == [runner[a] EXCEPT !.sessionId = SessionOf(p)]
           r == [r1 EXCEPT !.initSeen = TRUE]
<1>1. /\ Heard(p) /\ ~proc[p].inited
      /\ UNCHANGED <<share, request, forks, gone, knocking, up, restarts>>
  BY DEF Inits
<1>2. /\ up /\ Used(p) /\ a \in Askers /\ runner[a] \in Runner /\ proc[p] \in Process /\ SessionOf(p) \in Procs
      /\ proc \in [Procs -> Process] /\ runner \in [Askers -> Runner]
  BY <1>0, <1>1, HeardFacts DEF SInv, TypeOK
<1>3. proc' = [proc EXCEPT ![p] = x] /\ runner' = [runner EXCEPT ![a] = r]
  <2>1. proc' = [proc EXCEPT ![p] = x]
    <3>1. proc' = [Noted(p) EXCEPT ![p].inited = TRUE]
      BY Zenon DEF Inits
    <3>2. Noted(p) = [proc EXCEPT ![p] = x1]
      BY <1>2 DEF Noted
    <3> HIDE DEF x1
    <3> QED BY <1>2, <3>1, <3>2
  <2>2. runner' = [runner EXCEPT ![a].sessionId = SessionOf(p), ![a].initSeen = TRUE]
    BY <1>0, Zenon DEF Inits
  <2>3. [runner EXCEPT ![a].sessionId = SessionOf(p), ![a].initSeen = TRUE] = [runner EXCEPT ![a] = r]
    BY <1>2
  <2> QED BY <2>1, <2>2, <2>3
<1>4. TRUE \in BOOLEAN
  BY Zenon
<1>40. late \in BOOLEAN /\ (proc[p].stray => late) /\ (proc[p].state = "ended" => late)
  BY <1>1, Zenon
<1> HIDE DEF late
<1>41. x1 \in Process
  BY <1>2, <1>40, ProcessTyped
<1>42. x1.asker = a /\ x1.from = proc[p].from /\ x1.state = proc[p].state /\ x1.stray = late
  BY <1>0, <1>2, Zenon DEF Process
<1> HIDE DEF x1
<1>5. x \in Process
  BY <1>4, <1>41, ProcessTyped
<1>6. /\ x.asker = a /\ x.from = proc[p].from /\ x.state = proc[p].state
      /\ x.inited = TRUE /\ x.stray = late
  <2>1. x.asker = x1.asker /\ x.from = x1.from /\ x.state = x1.state /\ x.inited = TRUE /\ x.stray = x1.stray
    BY <1>41, Zenon DEF Process
  <2> QED BY <1>42, <2>1
<1>7. r \in Runner
  <2>1. r1 \in Runner
    BY <1>2, RunnerTyped
  <2> HIDE DEF r1
  <2> QED BY <1>4, <2>1, RunnerTyped
<1>8. /\ r.mapped = runner[a].mapped /\ r.pending = runner[a].pending /\ r.child = runner[a].child
      /\ r.sessionId = SessionOf(p)
  BY <1>2, Zenon DEF Runner
<1> HIDE DEF x, r
<1>9. /\ \A q \in Procs : proc'[q] = IF q = p THEN x ELSE proc[q]
      /\ \A b \in Askers : runner'[b] = IF b = a THEN r ELSE runner[b]
  BY <1>2, <1>3
<1>10. TypeOK'
  BY <1>1, <1>2, <1>3, <1>5, <1>7 DEF SInv, TypeOK
<1>11. \A b \in Askers, s \in Procs : Confirmed(b, s) => Confirmed(b, s)'
  <2>1. \A q \in Procs : Used(q) => proc'[q].from = proc[q].from
    BY <1>6, <1>9
  <2>2. \A q \in Procs : proc[q].inited => Used(q) /\ proc'[q].inited
    BY <1>6, <1>9 DEF SInv, Started
  <2>3. \A q \in Procs : proc[q].stray => proc'[q].stray /\ proc'[q].asker = proc[q].asker
    BY <1>0, <1>6, <1>9, <1>40
  <2> QED BY <2>1, <2>2, <2>3, ConfirmedStays
<1>12. \A b \in Askers, s \in Procs : s = SessionOf(p) => Confirmed(b, s)'
  <2>1. proc'[p].inited /\ SessionOf(p)' = SessionOf(p)
    BY <1>6, <1>9 DEF SessionOf
  <2> QED BY <2>1 DEF Confirmed
<1>13. Started'
  <2>1. \A q \in Procs : /\ proc'[q].asker = proc[q].asker /\ proc'[q].from = proc[q].from
                         /\ Used(q)' <=> Used(q)
                         /\ proc[q].inited => proc'[q].inited
                         /\ proc'[q].inited => Used(q)
                         /\ proc[q].stray => proc'[q].stray
                         /\ proc'[q].stray => Used(q)
    BY <1>0, <1>2, <1>6, <1>9, <1>40 DEF Used, SInv, Started
  <2>2. \A q \in Procs : proc'[q].state = "alive" => proc[q].state = "alive" /\ runner'[proc[q].asker].child = q
    BY <1>6, <1>8, <1>9 DEF Used, SInv, Started
  <2>3. \A b \in Askers : runner'[b].child \in {runner[b].child, None}
    BY <1>8, <1>9
  <2>4. ASSUME NEW q \in Procs, proc'[q].state = "alive", proc[q].asker = a
        PROVE  Confirmed(a, SessionOf(q))'
    <3>1. proc[q].state = "alive" /\ runner[a].child = q
      BY <2>2, <2>4 DEF SInv, Started
    <3>2. CASE proc[p].state = "alive"
      <4>1. q = p
        BY <1>0, <3>1, <3>2 DEF SInv, Started
      <4>2. proc'[p].inited
        BY <1>6, <1>9
      <4> QED BY <4>1, <4>2 DEF Confirmed
    <3>3. CASE proc[p].state = "ended"
      <4>1. proc'[p].stray /\ proc'[p].asker = a
        BY <1>6, <1>9, <1>40, <3>3
      <4> QED BY <4>1 DEF Confirmed, Strayed
    <3> QED BY <1>1, <3>2, <3>3 DEF Heard
  <2>5. \A b \in Askers : runner'[b].initSeen => Backed(b)
    <3> SUFFICES ASSUME NEW b \in Askers, runner'[b].initSeen PROVE Backed(b)
      OBVIOUS
    <3>1. CASE b = a
      <4>1. \A s \in Procs : runner'[a].sessionId = s => Confirmed(a, s)'
        BY <1>2, <1>8, <1>9, <1>12
      <4> QED BY <2>4, <3>1, <4>1 DEF Backed
    <3>2. CASE b # a
      BY <1>9, <1>11, <3>2 DEF SInv, Started, Backed, Named
    <3> QED BY <3>1, <3>2
  <2> QED BY <1>10, <2>1, <2>2, <2>3, <2>5, StartedFollows
<1>14. Asked'
  <2>1. \A b \in Askers : /\ runner'[b].pending = runner[b].pending
                          /\ runner'[b].mapped = runner[b].mapped
                          /\ runner'[b].child = runner[b].child
    BY <1>8, <1>9
  <2> QED BY <1>1, <1>2, <2>1 DEF SInv, Asked
<1>15. Kept'
  <2>1. \A b \in Askers, s \in Procs : forks'[b] = s => Confirmed(b, s)'
    BY <1>1, <1>11 DEF SInv, Kept
  <2>2. share = "deleted" => \A q \in Questions : request'[q].status \in {"none", "deleted"} \/ request'[q].late
    BY <1>1 DEF SInv, Kept
  <2>3. \A q \in Procs : proc'[q].state = "alive" => proc[q].state = "alive" /\ proc'[q].asker = proc[q].asker
    BY <1>0, <1>6, <1>9
  <2> QED BY <1>1, <1>10, <1>11, <2>1, <2>2, <2>3, KeptSteps
<1> QED BY <1>10, <1>13, <1>14, <1>15 DEF SInv

\* A step that neither asks nor settles, and stops or starts nothing.
LEMMA QuietKeeps ==
  ASSUME SharesAssumption, SInv, UNCHANGED <<request, forks, runner, up, restarts>>, Follows(proc'),
         share' = share \/ (share' = "active" /\ share = "paused"),
         gone' \subseteq Procs \cup {Owner}, knocking' \subseteq Askers
  PROVE  SInv'
<1>1. TypeOK'
  BY DEF SInv, TypeOK, Follows
<1>2. \A b \in Askers, s \in Procs : Confirmed(b, s) => Confirmed(b, s)'
  BY ConfirmedStays DEF SInv, Started, Follows
<1>3. Started'
  <2>1. \A p \in Procs : /\ proc'[p].asker = proc[p].asker /\ proc'[p].from = proc[p].from
                         /\ Used(p)' <=> Used(p)
                         /\ proc[p].inited => proc'[p].inited
                         /\ proc'[p].inited => Used(p)
                         /\ proc[p].stray => proc'[p].stray
                         /\ proc'[p].stray => Used(p)
    BY DEF Follows, Used, SInv, Started
  <2>2. \A p \in Procs : proc'[p].state = "alive" => proc[p].state = "alive" /\ runner'[proc[p].asker].child = p
    BY DEF Follows, Used, SInv, Started
  <2>3. \A b \in Askers : runner'[b].initSeen => Backed(b)
    BY <1>2, <2>1 DEF SInv, Started, Backed, Named
  <2> QED BY <1>1, <2>1, <2>2, <2>3, StartedFollows
<1>4. Asked'
  BY DEF SInv, Asked, Closed
<1>5. Kept'
  <2>1. \A b \in Askers, s \in Procs : forks'[b] = s => Confirmed(b, s)'
    BY <1>2 DEF SInv, Kept
  <2>2. share = "deleted" => \A q \in Questions : request'[q].status \in {"none", "deleted"} \/ request'[q].late
    BY DEF SInv, Kept
  <2>3. \A q \in Procs : proc'[q].state = "alive" => proc[q].state = "alive" /\ proc'[q].asker = proc[q].asker
    BY DEF Follows
  <2>4. (share' = "deleted" => share = "deleted") /\ (share' \in Closed => share \in Closed)
    BY DEF Closed
  <2> QED BY <1>1, <1>2, <2>1, <2>2, <2>3, <2>4, KeptSteps
<1> QED BY <1>1, <1>3, <1>4, <1>5 DEF SInv

LEMMA ClosesKeeps ==
  ASSUME SharesAssumption, SInv, NEW p \in Procs, Closes(p)
  PROVE  SInv'
<1>1. /\ proc[p].state = "ended" /\ proc' = [proc EXCEPT ![p] = Over(proc[p])]
      /\ UNCHANGED <<share, request, forks, runner, gone, knocking, up, restarts>>
  BY Zenon DEF Closes
<1>2. Follows(proc')
  <2>1. proc[p] \in Process
    BY DEF SInv, TypeOK
  <2>2. Over(proc[p]) \in Process /\ Over(proc[p]).asker = proc[p].asker /\ Over(proc[p]).from = proc[p].from
        /\ Over(proc[p]).inited = proc[p].inited /\ Over(proc[p]).state = "closed"
        /\ Over(proc[p]).stray = proc[p].stray
    BY <2>1, OverTyped
  <2> QED BY <1>1, <2>2, OneFollows
<1> QED BY <1>1, <1>2, QuietKeeps DEF SInv, TypeOK

LEMMA AsideKeeps ==
  ASSUME SharesAssumption, SInv, NEW a \in Askers, NEW s \in Procs \cup {Owner},
         Knock(a) \/ AskRefused(a) \/ Vanish(s) \/ Reopen \/ UNCHANGED vars
  PROVE  SInv'
<1>1. Follows(proc) /\ gone \subseteq Procs \cup {Owner} /\ knocking \subseteq Askers
  BY DEF Follows, SInv, TypeOK, Started, Used
<1>2. UNCHANGED <<request, forks, runner, proc, up, restarts>>
  BY DEF Knock, AskRefused, Vanish, Reopen, vars
<1>3. gone' \subseteq gone \cup {s} /\ knocking' \subseteq knocking \cup {a}
  BY DEF Knock, AskRefused, Vanish, Reopen, vars
<1>4. share' = share \/ (share' = "active" /\ share = "paused")
  BY DEF Knock, AskRefused, Vanish, Reopen, vars
<1> QED BY <1>1, <1>2, <1>3, <1>4, QuietKeeps
-----------------------------------------------------------------------------
(* Timers, the owner and the hub *)

LEMMA UnmappedFollows ==
  ASSUME SharesAssumption, SInv, NEW as \in SUBSET Askers
  PROVE  /\ Follows(Unmapped(as))
         /\ \A p \in Procs : Unmapped(as)[p].state = "alive" => proc[p].state = "alive" /\ proc[p].asker \notin as
<1>1. \A p \in Procs : Unmapped(as)[p] =
        IF \E a \in as : proc[p].asker = a /\ (proc[p].state = "ended" \/ runner[a].child = p)
        THEN Over(proc[p]) ELSE proc[p]
  BY Zenon DEF Unmapped
<1>2. \A p \in Procs : /\ proc[p] \in Process
                       /\ Over(proc[p]) \in Process /\ Over(proc[p]).asker = proc[p].asker
                       /\ Over(proc[p]).from = proc[p].from
                       /\ Over(proc[p]).inited = proc[p].inited /\ Over(proc[p]).state = "closed"
                       /\ Over(proc[p]).stray = proc[p].stray
  BY OverTyped DEF SInv, TypeOK
<1>3. Unmapped(as) \in [Procs -> Process]
  <2>1. Unmapped(as) = [p \in Procs |-> Unmapped(as)[p]]
    BY Zenon DEF Unmapped
  <2> QED BY <1>1, <1>2, <2>1
<1>4. \A p \in Procs, a \in as : proc[p].state = "ended" \/ runner[a].child = p => Used(p)
  BY DEF SInv, Started, Newest, Used
<1>5. \A p \in Procs : proc[p].state = "alive" => runner[proc[p].asker].child = p /\ proc[p].asker \in Askers
  BY DEF SInv, Started, Used
<1>6. Follows(Unmapped(as))
  <2>1. \A p \in Procs : /\ Unmapped(as)[p].stray = proc[p].stray /\ Unmapped(as)[p].inited = proc[p].inited
                         /\ Unmapped(as)[p].asker = proc[p].asker /\ Unmapped(as)[p].from = proc[p].from
    BY <1>1, <1>2, Zenon
  <2>2. \A p \in Procs : /\ Unmapped(as)[p].state = "none" <=> proc[p].state = "none"
                         /\ Unmapped(as)[p].state = "alive" => proc[p].state = "alive"
    BY <1>1, <1>2, <1>4 DEF Used
  <2>3. \A p \in Procs : proc[p].stray => proc[p].state # "none"
    BY DEF SInv, Started, Used
  <2>4. \A p \in Procs : /\ proc[p].stray => Unmapped(as)[p].stray
                         /\ Unmapped(as)[p].stray => proc[p].state # "none"
    BY <2>1, <2>3, Zenon
  <2> QED BY <1>3, <2>1, <2>2, <2>4 DEF Follows
<1> QED BY <1>1, <1>2, <1>5, <1>6

LEMMA NoRunnerFields ==
  /\ NoRunner.mapped = FALSE /\ NoRunner.child = None /\ NoRunner.pending = None
  /\ NoRunner.initSeen = FALSE /\ NoRunner.sessionId = None /\ NoRunner.retries = 0
  BY DEF NoRunner

LEMMA NoRunnerTyped ==
  ASSUME SharesAssumption
  PROVE  NoRunner \in Runner
<1>1. 0 \in 0..MAX_STALE_RETRIES
  BY DEF SharesAssumption
<1> QED BY <1>1, Zenon DEF NoRunner, Runner

\* Some runners leave the map, with their processes.
LEMMA UnmapStarted ==
  ASSUME SharesAssumption, SInv, NEW as \in SUBSET Askers, proc' = Unmapped(as), TypeOK',
         \A a \in Askers : runner'[a] = IF a \in as THEN NoRunner ELSE runner[a]
  PROVE  /\ Started' /\ \A b \in Askers, s \in Procs : Confirmed(b, s) => Confirmed(b, s)'
         /\ \A p \in Procs : proc'[p].state = "alive" =>
              proc[p].state = "alive" /\ proc'[p].asker = proc[p].asker /\ proc[p].asker \notin as
<1>1. Follows(proc') /\ \A p \in Procs : proc'[p].state = "alive" => proc[p].state = "alive" /\ proc[p].asker \notin as
  BY UnmappedFollows
<1>2. \A b \in Askers, s \in Procs : Confirmed(b, s) => Confirmed(b, s)'
  BY <1>1, ConfirmedStays DEF SInv, Started, Follows
<1>3. \A p \in Procs : /\ proc'[p].asker = proc[p].asker /\ proc'[p].from = proc[p].from
                       /\ Used(p)' <=> Used(p)
                       /\ proc[p].inited => proc'[p].inited
                       /\ proc'[p].inited => Used(p)
                       /\ proc[p].stray => proc'[p].stray
                       /\ proc'[p].stray => Used(p)
  BY <1>1 DEF Follows, Used, SInv, Started
<1>4. \A p \in Procs : proc'[p].state = "alive" => proc[p].state = "alive" /\ runner'[proc[p].asker].child = p
  BY <1>1 DEF Used, SInv, Started
<1>5. \A a \in Askers : runner'[a].child \in {runner[a].child, None}
  BY NoRunnerFields
<1>6. \A b \in Askers : runner'[b].initSeen => Backed(b)
  BY <1>2, <1>3, NoRunnerFields DEF SInv, Started, Backed, Named
<1>7. Started'
  BY <1>3, <1>4, <1>5, <1>6, StartedFollows
<1> QED BY <1>1, <1>2, <1>3, <1>7

LEMMA IdleKeeps ==
  ASSUME SharesAssumption, SInv, NEW a \in Askers, Idle(a)
  PROVE  SInv'
<1>1. /\ up /\ runner[a].pending = None /\ runner' = [runner EXCEPT ![a] = NoRunner] /\ proc' = Unmapped({a})
      /\ UNCHANGED <<share, request, forks, gone, knocking, up, restarts>>
  BY DEF Idle
<1>2. \A b \in Askers : runner'[b] = IF b \in {a} THEN NoRunner ELSE runner[b]
  BY <1>1 DEF SInv, TypeOK
<1>3. TypeOK'
  <2>1. runner' \in [Askers -> Runner]
    BY <1>1, NoRunnerTyped DEF SInv, TypeOK
  <2>2. proc' \in [Procs -> Process]
    BY <1>1, UnmappedFollows DEF Follows
  <2> QED BY <1>1, <2>1, <2>2 DEF SInv, TypeOK
<1>4. /\ Started' /\ \A b \in Askers, s \in Procs : Confirmed(b, s) => Confirmed(b, s)'
      /\ \A p \in Procs : proc'[p].state = "alive" => proc[p].state = "alive" /\ proc'[p].asker = proc[p].asker
  BY <1>1, <1>2, <1>3, UnmapStarted
<1>5. Asked'
  <2>1. \A b \in Askers : /\ runner'[b].pending = runner[b].pending
                          /\ runner'[b].child # None \/ runner'[b].pending # None => runner'[b].mapped
    BY <1>1, <1>2, NoRunnerFields DEF SInv, Asked
  <2> QED BY <1>1, <2>1 DEF SInv, Asked
<1>6. Kept'
  <2>1. \A b \in Askers, s \in Procs : forks'[b] = s => Confirmed(b, s)'
    BY <1>1, <1>4 DEF SInv, Kept
  <2>2. share = "deleted" => \A q \in Questions : request'[q].status \in {"none", "deleted"} \/ request'[q].late
    BY <1>1 DEF SInv, Kept
  <2> QED BY <1>1, <1>3, <1>4, <2>1, <2>2, KeptSteps
<1> QED BY <1>3, <1>4, <1>5, <1>6 DEF SInv

LEMMA AbortsFacts ==
  ASSUME SharesAssumption, SInv, NEW rows \in [Questions -> Row], NEW stored \in [Askers -> Procs \cup {None}],
         Aborts(rows, stored)
  PROVE  /\ request' \in [Questions -> Row] /\ forks' \in [Askers -> Procs \cup {None}]
         /\ \A q \in Questions : /\ request'[q].asker = rows[q].asker /\ request'[q].late = rows[q].late
                                 /\ \/ request'[q] = rows[q] /\ (rows[q].status = "running" => \A a \in Askers : runner[a].pending # q)
                                    \/ /\ request'[q].status = "failed" /\ rows[q].status # "deleted"
                                       /\ \E a \in Askers : runner[a].pending = q
         /\ \A a \in Askers : \/ forks'[a] = stored[a]
                              \/ /\ runner[a].pending # None /\ rows[runner[a].pending].status # "deleted"
                                 /\ runner[a].initSeen /\ forks'[a] = runner[a].sessionId
<1> DEFINE Lost(q) == (\E a \in {x \in Askers : runner[x].pending # None} : runner[a].pending = q) /\ Exists(rows[q])
           failed(q) == [rows[q] EXCEPT !.status = "failed"]
<1>1. request' = [q \in Questions |-> IF Lost(q) THEN failed(q) ELSE rows[q]]
  BY Zenon DEF Aborts
<1>2. \A q \in Questions : /\ failed(q) \in Row /\ failed(q).status = "failed"
                           /\ failed(q).asker = rows[q].asker /\ failed(q).late = rows[q].late
  <2> SUFFICES ASSUME NEW q \in Questions
               PROVE  /\ failed(q) \in Row /\ failed(q).status = "failed"
                      /\ failed(q).asker = rows[q].asker /\ failed(q).late = rows[q].late
    OBVIOUS
  <2>1. rows[q] \in Row
    OBVIOUS
  <2>2. failed(q) \in Row
    BY <2>1, RowTyped
  <2>3. failed(q).status = "failed" /\ failed(q).asker = rows[q].asker /\ failed(q).late = rows[q].late
    BY <2>1, Zenon DEF Row
  <2> QED BY <2>2, <2>3
<1>3. \A q \in Questions : /\ Lost(q) => rows[q].status # "deleted" /\ \E a \in Askers : runner[a].pending = q
                           /\ (\E a \in Askers : runner[a].pending = q) /\ rows[q].status = "running" => Lost(q)
  BY Apart DEF Exists
<1> HIDE DEF Lost, failed
<1>4. request' \in [Questions -> Row]
  BY <1>1, <1>2
<1>5. \A q \in Questions : request'[q] = IF Lost(q) THEN failed(q) ELSE rows[q]
  BY <1>1
<1>6. \A a \in Askers : \/ forks'[a] = stored[a]
                        \/ /\ runner[a].pending # None /\ StoresFork(rows[runner[a].pending], Failure(runner[a]))
                           /\ forks'[a] = runner[a].sessionId
  BY Zenon DEF Aborts
<1>7. \A a \in Askers : StoresFork(rows[runner[a].pending], Failure(runner[a])) =>
                          rows[runner[a].pending].status # "deleted" /\ runner[a].initSeen
  BY Zenon DEF StoresFork, Exists, Failure
<1>8. forks' \in [Askers -> Procs \cup {None}]
  <2>1. forks' = [a \in Askers |-> forks'[a]]
    BY Zenon DEF Aborts
  <2>2. \A a \in Askers : forks'[a] \in Procs \cup {None}
    BY <1>6 DEF SInv, TypeOK, Runner
  <2> QED BY <2>1, <2>2
<1> QED BY <1>2, <1>3, <1>4, <1>5, <1>6, <1>7, <1>8

\* Every runner is killed.
LEMMA KillsAll ==
  ASSUME SharesAssumption, SInv, up, KillRunners, NEW rows \in [Questions -> Row],
         NEW stored \in [Askers -> Procs \cup {None}], Aborts(rows, stored),
         \A q \in Questions : rows[q].status = "running" => request[q].status = "running",
         share' \in Closed \cup {"active"}, UNCHANGED <<gone, knocking, up, restarts>>
  PROVE  /\ TypeOK' /\ Started' /\ Asked' /\ \A b \in Askers, s \in Procs : Confirmed(b, s) => Confirmed(b, s)'
         /\ \A p \in Procs : proc'[p].state # "alive"
<1>1. proc' = Unmapped(Askers) /\ runner' = [a \in Askers |-> NoRunner]
  BY DEF KillRunners
<1>2. \A b \in Askers : runner'[b] = NoRunner
  BY <1>1
<1>3. TypeOK'
  <2>1. runner' \in [Askers -> Runner]
    BY <1>1, NoRunnerTyped
  <2>2. proc' \in [Procs -> Process]
    BY <1>1, UnmappedFollows DEF Follows
  <2>3. request' \in [Questions -> Row] /\ forks' \in [Askers -> Procs \cup {None}]
    BY AbortsFacts
  <2> QED BY <2>1, <2>2, <2>3 DEF SInv, TypeOK
<1>4. /\ Started' /\ \A b \in Askers, s \in Procs : Confirmed(b, s) => Confirmed(b, s)'
      /\ \A p \in Procs : proc'[p].state = "alive" => proc[p].state = "alive" /\ proc[p].asker \notin Askers
  BY <1>1, <1>2, <1>3, UnmapStarted
<1>5. \A p \in Procs : proc'[p].state # "alive"
  BY <1>4 DEF SInv, Started, Used
<1>6. Asked'
  <2>1. \A b \in Askers : runner'[b].child = None /\ runner'[b].pending = None
    BY <1>2, NoRunnerFields
  <2>2. \A q \in Questions : request'[q].status # "running"
    BY AbortsFacts DEF SInv, Asked
  <2>3. \A b \in Askers, q \in Questions : runner'[b].pending # q
    BY <2>1, Apart
  <2> QED BY <2>1, <2>2, <2>3 DEF Asked
<1> QED BY <1>3, <1>4, <1>5, <1>6

\* Pausing, revoking, shutting down.
LEMMA StopKeeps ==
  ASSUME SharesAssumption, SInv, up, KillRunners, Aborts(request, forks),
         share' \in Closed \cup {"active"}, share' = "deleted" <=> share = "deleted",
         UNCHANGED <<gone, knocking, up, restarts>>
  PROVE  SInv'
<1>1. request \in [Questions -> Row] /\ forks \in [Askers -> Procs \cup {None}]
  BY DEF SInv, TypeOK
<1>2. /\ TypeOK' /\ Started' /\ Asked' /\ \A b \in Askers, s \in Procs : Confirmed(b, s) => Confirmed(b, s)'
      /\ \A p \in Procs : proc'[p].state # "alive"
  BY <1>1, KillsAll
<1>3. /\ \A q \in Questions : /\ request'[q].asker = request[q].asker /\ request'[q].late = request[q].late
                              /\ \/ request'[q] = request[q]
                                 \/ request'[q].status = "failed" /\ \E a \in Askers : runner[a].pending = q
      /\ \A a \in Askers : \/ forks'[a] = forks[a]
                           \/ runner[a].pending # None /\ runner[a].initSeen /\ forks'[a] = runner[a].sessionId
  BY <1>1, AbortsFacts
<1>4. \A a \in Askers, q \in Questions : runner[a].pending = q =>
        request[q].status = "running" /\ request[q].asker = a /\ (share = "deleted" => request[q].late)
  BY DEF SInv, Asked, Closed
<1>5. \A a \in Askers : runner[a].pending # None => runner[a].pending \in Questions
  BY DEF SInv, TypeOK, Runner
<1>6. \A a \in Askers, s \in Procs : forks'[a] = s => Confirmed(a, s)'
  BY <1>2, <1>3 DEF SInv, Started, Named, Kept
<1>7. \A q \in Questions : request'[q].status = "none" => ~request'[q].late
  BY <1>3 DEF SInv, Kept
<1>8. share' = "deleted" => \A q \in Questions : request'[q].status \in {"none", "deleted"} \/ request'[q].late
  BY <1>3, <1>4 DEF SInv, Kept
<1>9. DeletedKeepsNoFork'
  <2> SUFFICES ASSUME share' = "deleted", NEW a \in Askers, forks'[a] # None
               PROVE  \E q \in Questions : request'[q].asker = a /\ request'[q].late
    BY DEF DeletedKeepsNoFork
  <2>1. \E q \in Questions : request[q].asker = a /\ request[q].late
    BY <1>3, <1>4, <1>5 DEF SInv, Kept, DeletedKeepsNoFork
  <2> QED BY <1>3, <2>1
<1>10. QuietWhenClosed'
  BY <1>2 DEF QuietWhenClosed
<1> QED BY <1>2, <1>6, <1>7, <1>8, <1>9, <1>10 DEF SInv, Kept

LEMMA DeleteKeeps ==
  ASSUME SharesAssumption, SInv, Delete
  PROVE  SInv'
<1> DEFINE rows == [q \in Questions |-> IF request[q].status = "none" THEN NoRow
                                        ELSE [request[q] EXCEPT !.status = "deleted"]]
           stored == [a \in Askers |-> None]
<1>1. up /\ KillRunners /\ share' = "deleted" /\ Aborts(rows, stored) /\ UNCHANGED <<gone, knocking, up, restarts>>
  BY DEF Delete
<1>2. NoRow \in Row /\ NoRow.status = "none" /\ NoRow.late = FALSE
  BY Zenon DEF NoRow, Row
<1>3. \A q \in Questions : /\ [request[q] EXCEPT !.status = "deleted"] \in Row
                           /\ [request[q] EXCEPT !.status = "deleted"].status = "deleted"
  <2> SUFFICES ASSUME NEW q \in Questions
               PROVE  /\ [request[q] EXCEPT !.status = "deleted"] \in Row
                      /\ [request[q] EXCEPT !.status = "deleted"].status = "deleted"
    OBVIOUS
  <2>1. request[q] \in Row
    BY DEF SInv, TypeOK
  <2>2. [request[q] EXCEPT !.status = "deleted"].status = "deleted"
    BY <2>1, Zenon DEF Row
  <2> QED BY <2>1, <2>2, RowTyped
<1>4. rows \in [Questions -> Row] /\ stored \in [Askers -> Procs \cup {None}]
  BY <1>2, <1>3
<1>5. \A q \in Questions : /\ rows[q].status \in {"none", "deleted"}
                           /\ rows[q].status = "none" => request[q].status = "none" /\ rows[q].late = FALSE
  BY <1>2, <1>3
<1>6. \A a \in Askers : stored[a] = None
  OBVIOUS
<1> HIDE DEF rows, stored
<1>7. /\ TypeOK' /\ Started' /\ Asked' /\ \A b \in Askers, s \in Procs : Confirmed(b, s) => Confirmed(b, s)'
      /\ \A p \in Procs : proc'[p].state # "alive"
  <2>1. \A q \in Questions : rows[q].status = "running" => request[q].status = "running"
    BY <1>5
  <2> QED BY <1>1, <1>4, <2>1, KillsAll DEF Closed
<1>8. \A a \in Askers, q \in Questions : runner[a].pending = q => rows[q].status = "deleted"
  BY <1>5 DEF SInv, Asked
<1>9. \A a \in Askers : runner[a].pending # None => runner[a].pending \in Questions
  BY DEF SInv, TypeOK, Runner
<1>10. \A a \in Askers : forks'[a] = None
  BY <1>1, <1>4, <1>6, <1>8, <1>9, AbortsFacts
<1>11. \A q \in Questions : request'[q] = rows[q]
  BY <1>1, <1>4, <1>8, AbortsFacts
<1>12. Kept'
  BY <1>5, <1>7, <1>10, <1>11, Apart DEF Kept, DeletedKeepsNoFork, QuietWhenClosed
<1> QED BY <1>7, <1>12 DEF SInv

LEMMA OwnerKeeps ==
  ASSUME SharesAssumption, SInv, Close("paused") \/ Close("revoked") \/ Shutdown
  PROVE  SInv'
<1>1. up /\ KillRunners /\ Aborts(request, forks) /\ UNCHANGED <<gone, knocking, up, restarts>>
  BY DEF Close, Shutdown
<1>2. share' \in Closed \cup {"active"} /\ (share' = "deleted" <=> share = "deleted")
  BY DEF Close, Shutdown, Closed, SInv, TypeOK
<1> QED BY <1>1, <1>2, StopKeeps
LEMMA CrashKeeps ==
  ASSUME SharesAssumption, SInv, Crash
  PROVE  SInv'
<1>1. /\ up /\ restarts < MaxRestarts /\ restarts' = restarts + 1
      /\ runner' = [a \in Askers |-> NoRunner] /\ knocking' = {}
      /\ proc' = [p \in Procs |-> IF proc[p].state = "none" THEN proc[p] ELSE Over(proc[p])]
      /\ UNCHANGED <<share, request, forks, gone>>
  BY DEF Crash
<1>2. up' = FALSE
  BY Zenon DEF Crash
<1>3. up' \in BOOLEAN
  BY <1>2, Zenon
<1>4. \A p \in Procs : /\ proc[p] \in Process
                       /\ Over(proc[p]) \in Process /\ Over(proc[p]).asker = proc[p].asker
                       /\ Over(proc[p]).from = proc[p].from
                       /\ Over(proc[p]).inited = proc[p].inited /\ Over(proc[p]).state = "closed"
                       /\ Over(proc[p]).stray = proc[p].stray
  BY OverTyped DEF SInv, TypeOK
<1>5. Follows(proc') /\ \A p \in Procs : proc'[p].state # "alive"
  BY <1>1, <1>4 DEF Follows, SInv, Started, Used
<1>6. \A a \in Askers : runner'[a] = NoRunner
  BY <1>1
<1>7. TypeOK'
  <2>1. runner' \in [Askers -> Runner]
    BY <1>1, NoRunnerTyped
  <2>2. restarts' \in 0..MaxRestarts
    BY <1>1 DEF SharesAssumption, SInv, TypeOK
  <2> QED BY <1>1, <1>3, <1>5, <2>1, <2>2 DEF SInv, TypeOK, Follows
<1>8. \A b \in Askers, s \in Procs : Confirmed(b, s) => Confirmed(b, s)'
  BY <1>5, ConfirmedStays DEF SInv, Started, Follows
<1>9. Started'
  <2>1. \A p \in Procs : /\ proc'[p].asker = proc[p].asker /\ proc'[p].from = proc[p].from
                         /\ Used(p)' <=> Used(p)
                         /\ proc[p].inited => proc'[p].inited
                         /\ proc'[p].inited => Used(p)
                         /\ proc[p].stray => proc'[p].stray
                         /\ proc'[p].stray => Used(p)
    BY <1>5 DEF Follows, Used, SInv, Started
  <2>2. \A a \in Askers : runner'[a].child \in {runner[a].child, None} /\ ~runner'[a].initSeen
    BY <1>6, NoRunnerFields
  <2> QED BY <1>5, <1>7, <2>1, <2>2, StartedFollows
<1>10. Asked'
  <2>1. \A a \in Askers : runner'[a].child = None /\ runner'[a].pending = None
    BY <1>6, NoRunnerFields
  <2>2. \A a \in Askers, q \in Questions : runner'[a].pending # q
    BY <2>1, Apart
  <2> QED BY <1>1, <1>2, <2>1, <2>2 DEF Asked
<1>11. Kept'
  <2>1. \A a \in Askers, s \in Procs : forks'[a] = s => Confirmed(a, s)'
    BY <1>1, <1>8 DEF SInv, Kept
  <2>2. share = "deleted" => \A q \in Questions : request'[q].status \in {"none", "deleted"} \/ request'[q].late
    BY <1>1 DEF SInv, Kept
  <2> QED BY <1>1, <1>5, <1>7, <1>8, <2>1, <2>2, KeptSteps
<1> QED BY <1>7, <1>9, <1>10, <1>11 DEF SInv

LEMMA BootKeeps ==
  ASSUME SharesAssumption, SInv, Boot
  PROVE  SInv'
<1>1. /\ ~up /\ UNCHANGED <<share, runner, proc, gone, knocking, restarts>>
      /\ request' = [q \in Questions |->
           IF request[q].status = "running" THEN [request[q] EXCEPT !.status = "failed"] ELSE request[q]]
      /\ forks' = forks \/ (forks' = [a \in Askers |-> None])
      /\ share = "deleted" => \A a \in Askers : forks'[a] = None
  BY DEF Boot
<1>2. up' = TRUE
  BY Zenon DEF Boot
<1>3. up' \in BOOLEAN
  BY <1>2, Zenon
<1>4. \A q \in Questions : /\ [request[q] EXCEPT !.status = "failed"] \in Row
                           /\ [request[q] EXCEPT !.status = "failed"].status = "failed"
                           /\ [request[q] EXCEPT !.status = "failed"].asker = request[q].asker
                           /\ [request[q] EXCEPT !.status = "failed"].late = request[q].late
  <2> SUFFICES ASSUME NEW q \in Questions
               PROVE  /\ [request[q] EXCEPT !.status = "failed"] \in Row
                      /\ [request[q] EXCEPT !.status = "failed"].status = "failed"
                      /\ [request[q] EXCEPT !.status = "failed"].asker = request[q].asker
                      /\ [request[q] EXCEPT !.status = "failed"].late = request[q].late
    OBVIOUS
  <2>1. request[q] \in Row
    BY DEF SInv, TypeOK
  <2>2. /\ [request[q] EXCEPT !.status = "failed"].status = "failed"
        /\ [request[q] EXCEPT !.status = "failed"].asker = request[q].asker
        /\ [request[q] EXCEPT !.status = "failed"].late = request[q].late
    BY <2>1, Zenon DEF Row
  <2> QED BY <2>1, <2>2, RowTyped
<1>5. /\ request' \in [Questions -> Row]
      /\ \A q \in Questions : /\ request'[q].asker = request[q].asker /\ request'[q].late = request[q].late
                              /\ request'[q].status # "running"
                              /\ request'[q].status # "failed" => request'[q] = request[q]
                              /\ request'[q].status = "failed" => request[q].status \in {"running", "failed"}
  BY <1>1, <1>4 DEF SInv, TypeOK
<1>6. \A a \in Askers : forks'[a] = forks[a] \/ forks'[a] = None
  BY <1>1
<1>7. TypeOK'
  <2>1. forks' \in [Askers -> Procs \cup {None}]
    BY <1>1 DEF SInv, TypeOK
  <2> QED BY <1>1, <1>3, <1>5, <2>1 DEF SInv, TypeOK
<1>8. \A b \in Askers, s \in Procs : Confirmed(b, s) => Confirmed(b, s)'
  BY <1>1, ConfirmedStays DEF SInv, Started
<1>9. Started'
  <2>1. \A p \in Procs : /\ proc'[p].asker = proc[p].asker /\ proc'[p].from = proc[p].from
                         /\ Used(p)' <=> Used(p)
                         /\ proc[p].inited => proc'[p].inited
                         /\ proc'[p].inited => Used(p)
                         /\ proc[p].stray => proc'[p].stray
                         /\ proc'[p].stray => Used(p)
                         /\ proc'[p].state = "alive" => proc[p].state = "alive" /\ runner'[proc[p].asker].child = p
    BY <1>1 DEF Used, SInv, Started
  <2>2. \A b \in Askers : runner'[b].initSeen => Backed(b)
    BY <1>1, <1>8 DEF SInv, Started, Backed, Named
  <2> QED BY <1>1, <1>7, <2>1, <2>2, StartedFollows
<1>10. Asked'
  <2>1. \A a \in Askers : runner'[a].child = None /\ runner'[a].pending = None
    BY <1>1, NoRunnerFields DEF SInv, Asked
  <2>2. \A a \in Askers, q \in Questions : runner'[a].pending # q
    BY <2>1, Apart
  <2> QED BY <1>2, <1>5, <2>1, <2>2 DEF Asked
<1>11. Kept'
  <2>1. \A a \in Askers, s \in Procs : forks'[a] = s => Confirmed(a, s)'
    BY <1>6, <1>8, Apart DEF SInv, Kept
  <2>2. \A q \in Questions :
           /\ request'[q].status = "none" => request'[q] = request[q]
           /\ share = "deleted" => request'[q].status \in {"none", "deleted"} \/ request'[q].late
    BY <1>5 DEF SInv, Kept
  <2> QED BY <1>1, <1>5, <1>6, <1>7, <1>8, <2>1, <2>2, KeptSteps
<1> QED BY <1>7, <1>9, <1>10, <1>11 DEF SInv

-----------------------------------------------------------------------------
(* A question *)

LEMMA AskKeeps ==
  ASSUME SharesAssumption, SInv, NEW a \in Askers, Ask(a)
  PROVE  SInv'
<1> DEFINE q == NextQuestion
           r == RunnerFor(a)
           r1 == [r EXCEPT !.pending = q]
           asks == [r1 EXCEPT !.retries = 0]
           row == [NoRow EXCEPT !.status = "running", !.asker = a, !.late = (share # "active")]
<1>1. /\ up /\ a \in knocking /\ ~HasRunningAsk(a) /\ NoRowYet # {} /\ knocking' = knocking \ {a}
      /\ UNCHANGED <<share, forks, gone, up, restarts>>
  BY Zenon DEF Ask
<1>2. q \in Questions /\ request[q].status = "none"
  BY <1>1, NextQuestionIsFree
<1>3. \A b \in Askers : runner[b].pending = None
  <2>1. \A b \in Askers : runner[b].pending \in Questions \cup {None}
    BY DEF SInv, TypeOK, Runner
  <2>2. \A b \in Askers, x \in Questions : runner[b].pending # x
    BY <1>1 DEF HasRunningAsk, SInv, Asked
  <2> QED BY <2>1, <2>2
<1>4. \/ runner[a].mapped /\ r = runner[a]
      \/ ~runner[a].mapped /\ r = [NoRunner EXCEPT !.mapped = TRUE, !.sessionId = forks[a]]
  BY Zenon DEF RunnerFor
<1>5. /\ [NoRunner EXCEPT !.mapped = TRUE, !.sessionId = forks[a]] \in Runner
      /\ [NoRunner EXCEPT !.mapped = TRUE, !.sessionId = forks[a]].pending = None
      /\ [NoRunner EXCEPT !.mapped = TRUE, !.sessionId = forks[a]].child = None
      /\ [NoRunner EXCEPT !.mapped = TRUE, !.sessionId = forks[a]].mapped = TRUE
  <2>1. forks[a] \in Procs \cup {None} /\ NoRunner \in Runner
    BY NoRunnerTyped DEF SInv, TypeOK
  <2>2. TRUE \in BOOLEAN
    BY Zenon
  <2>3. [NoRunner EXCEPT !.mapped = TRUE, !.sessionId = forks[a]] \in Runner
    BY <2>1, <2>2, Zenon DEF Runner
  <2>4. /\ [NoRunner EXCEPT !.mapped = TRUE, !.sessionId = forks[a]].pending = NoRunner.pending
        /\ [NoRunner EXCEPT !.mapped = TRUE, !.sessionId = forks[a]].child = NoRunner.child
        /\ [NoRunner EXCEPT !.mapped = TRUE, !.sessionId = forks[a]].mapped = TRUE
    BY <2>1, Zenon DEF Runner
  <2> QED BY <2>3, <2>4, NoRunnerFields
<1>6. r \in Runner /\ r.pending = None /\ r.mapped
  <2>1. runner[a] \in Runner
    BY DEF SInv, TypeOK
  <2> HIDE DEF r
  <2> QED BY <1>3, <1>4, <1>5, <2>1
<1>7. r.child = runner[a].child /\ (r.child # None => r = runner[a])
  <2> HIDE DEF r
  <2> QED BY <1>4, <1>5, Zenon DEF SInv, Asked
<1>8. row \in Row
  <2>1. (share # "active") \in BOOLEAN
    OBVIOUS
  <2>2. NoRow \in Row /\ "running" \in {"none", "running", "completed", "failed", "deleted"} /\ a \in Askers \cup {None}
    BY Zenon DEF NoRow, Row
  <2> QED BY <2>1, <2>2, Zenon DEF Row
<1>9. row.status = "running" /\ row.asker = a /\ (share # "active" => row.late)
  BY Zenon DEF NoRow
<1>10. /\ request' = [request EXCEPT ![q] = row]
       /\ \/ /\ r.child = None /\ Unused # {}
             /\ runner' = [runner EXCEPT ![a] = WithChild(asks)]
             /\ proc' = Spawned(proc, a, r, q)
          \/ /\ r.child # None
             /\ runner' = [runner EXCEPT ![a] = asks]
             /\ proc' = [proc EXCEPT ![r.child].inbox = Append(proc[r.child].inbox, q)]
  <2>1. asks = [r EXCEPT !.pending = q, !.retries = 0]
    OBVIOUS
  <2> HIDE DEF asks, r
  <2>2. ~(r.pending # None)
    BY <1>6
  <2> QED BY <2>1, <2>2, Zenon DEF Ask, r, q, row
<1>11. asks \in Runner
  <2>1. r1 \in Runner
    <3> HIDE DEF r, q
    <3> QED BY <1>2, <1>6, RunnerTyped
  <2>2. 0 \in 0..MAX_STALE_RETRIES
    BY DEF SharesAssumption
  <2> HIDE DEF r1
  <2> QED BY <2>1, <2>2, RunnerTyped
<1>12. /\ asks.pending = q /\ asks.mapped = r.mapped /\ asks.child = r.child
       /\ asks.initSeen = r.initSeen /\ asks.sessionId = r.sessionId
  <2> HIDE DEF r, q
  <2> QED BY <1>6, Zenon DEF Runner
<1> HIDE DEF r1, asks, row
<1>13. /\ request' \in [Questions -> Row]
       /\ \A x \in Questions : request'[x] = IF x = q THEN row ELSE request[x]
  BY <1>2, <1>8, <1>10 DEF SInv, TypeOK
<1>14. Follows(proc) /\ \A p \in Procs : proc[p].state = "alive" /\ proc[p].asker = a => runner[a].child = p
  BY DEF Follows, SInv, TypeOK, Started, Used
<1> HIDE DEF r, q
<1>15. /\ TypeOK' /\ Started' /\ \A b \in Askers, s \in Procs : Confirmed(b, s) => Confirmed(b, s)'
       /\ \A p \in Procs : proc'[p].state = "alive" =>
            \/ proc[p].state = "alive" /\ proc'[p].asker = proc[p].asker
            \/ proc'[p].asker = a
       /\ \A b \in Askers : b # a => runner'[b] = runner[b]
       /\ runner'[a].pending = q /\ runner'[a].mapped
  <2>1. CASE /\ r.child = None /\ Unused # {}
             /\ runner' = [runner EXCEPT ![a] = WithChild(asks)]
             /\ proc' = Spawned(proc, a, r, q)
    <3>1. \A p \in Procs : proc[p].state = "alive" => proc[p].asker # a
      BY <1>7, <1>14, <2>1, Apart
    <3>2. knocking' \subseteq knocking
      BY <1>1
    <3>3. asks.pending = q /\ asks.mapped
      BY <1>6, <1>12
    <3>4. /\ TypeOK' /\ Started' /\ \A b \in Askers, s \in Procs : Confirmed(b, s) => Confirmed(b, s)'
          /\ \A p \in Procs : proc'[p].state = "alive" =>
               \/ proc[p].state = "alive" /\ proc'[p].asker = proc[p].asker
               \/ proc'[p].asker = a
          /\ \A b \in Askers : b # a => runner'[b] = runner[b]
          /\ runner'[a].pending = asks.pending /\ runner'[a].mapped = asks.mapped
      BY <1>1, <1>2, <1>6, <1>11, <1>13, <1>14, <2>1, <3>1, <3>2, SpawnSteps
    <3> QED BY <3>3, <3>4
  <2>2. CASE /\ r.child # None
             /\ runner' = [runner EXCEPT ![a] = asks]
             /\ proc' = [proc EXCEPT ![r.child].inbox = Append(proc[r.child].inbox, q)]
    <3>1. r.child \in Procs /\ Newest(a, r.child) /\ r = runner[a]
      BY <1>6, <1>7, <2>2 DEF Runner, SInv, Started
    <3>2. proc[r.child] \in Process /\ proc[r.child].inbox \in Seq(Questions)
      BY <3>1 DEF SInv, TypeOK, Process
    <3>3. Append(proc[r.child].inbox, q) \in Seq(Questions)
      BY <1>2, <3>2
    <3>4. Follows(proc')
      BY <2>2, <3>1, <3>3, InboxFollows DEF Newest, Used
    <3>5. \A b \in Askers : runner'[b] = IF b = a THEN asks ELSE runner[b]
      BY <2>2 DEF SInv, TypeOK
    <3>6. TypeOK'
      <4>1. runner' \in [Askers -> Runner]
        BY <1>11, <2>2 DEF SInv, TypeOK
      <4> QED BY <1>1, <1>13, <3>4, <4>1 DEF SInv, TypeOK, Follows
    <3>7. \A b \in Askers, s \in Procs : Confirmed(b, s) => Confirmed(b, s)'
      BY <3>4, ConfirmedStays DEF SInv, Started, Follows
    <3>8. \A p \in Procs : /\ proc'[p].asker = proc[p].asker /\ proc'[p].from = proc[p].from
                           /\ Used(p)' <=> Used(p)
                           /\ proc[p].inited => proc'[p].inited
                           /\ proc'[p].inited => Used(p)
                           /\ proc[p].stray => proc'[p].stray
                           /\ proc'[p].stray => Used(p)
      BY <3>4 DEF Follows, Used, SInv, Started
    <3>9. \A b \in Askers : /\ runner'[b].child = runner[b].child /\ runner'[b].initSeen = runner[b].initSeen
                            /\ runner'[b].sessionId = runner[b].sessionId
      BY <1>12, <3>1, <3>5
    <3>10. \A p \in Procs : proc'[p].state = "alive" => proc[p].state = "alive" /\ runner'[proc[p].asker].child = p
      BY <3>4, <3>9 DEF Follows, Used, SInv, Started
    <3>11. \A b \in Askers : runner'[b].initSeen => Backed(b)
      BY <3>7, <3>8, <3>9 DEF SInv, Started, Backed, Named
    <3>12. Started'
      BY <3>6, <3>8, <3>9, <3>10, <3>11, StartedFollows
    <3> QED BY <1>6, <1>12, <3>4, <3>5, <3>6, <3>7, <3>12 DEF Follows
  <2> QED BY <1>10, <2>1, <2>2
<1>16. Asked'
  <2>1. \A b \in Askers : b # a => runner'[b].pending = None
    BY <1>3, <1>15
  <2>2. q # None /\ request'[q].status = "running" /\ request'[q].asker = a /\ (share \in Closed => request'[q].late)
    BY <1>2, <1>9, <1>13, Apart DEF Closed
  <2>3. \A b \in Askers : runner'[b].child # None \/ runner'[b].pending # None => runner'[b].mapped
    BY <1>15 DEF SInv, Asked
  <2>4. \A b \in Askers, x \in Questions : runner'[b].pending = x => b = a /\ x = q
    BY <1>15, <2>1, Apart
  <2>5. \A x \in Questions : request'[x].status = "running" => x = q
    BY <1>1, <1>13 DEF HasRunningAsk
  <2> QED BY <1>1, <1>15, <2>1, <2>2, <2>3, <2>4, <2>5 DEF Asked
<1>17. Kept'
  <2>1. \A b \in Askers, s \in Procs : forks'[b] = s => Confirmed(b, s)'
    BY <1>1, <1>15 DEF SInv, Kept
  <2>2. \A x \in Questions :
           /\ request[x].status # "none" => request'[x].asker = request[x].asker /\ request'[x].late = request[x].late
           /\ request'[x].status = "none" => request'[x] = request[x]
           /\ share = "deleted" => request'[x].status \in {"none", "deleted"} \/ request'[x].late
    BY <1>2, <1>9, <1>13 DEF SInv, Kept
  <2>3. share \in Closed => request'[q].asker = a /\ request'[q].late
    BY <1>2, <1>9, <1>13 DEF Closed
  <2> QED BY <1>1, <1>2, <1>15, <2>1, <2>2, <2>3, KeptSteps
<1> QED BY <1>15, <1>16, <1>17 DEF SInv

-----------------------------------------------------------------------------
(* The theorems *)

LEMMA StepKeeps == SharesAssumption /\ SInv /\ [Next]_vars => SInv'
<1> SUFFICES ASSUME SharesAssumption, SInv, [Next]_vars PROVE SInv'
  OBVIOUS
<1>1. ASSUME NEW a \in Askers, Knock(a) \/ AskRefused(a) PROVE SInv'
  BY <1>1, AsideKeeps
<1>2. ASSUME NEW a \in Askers, Ask(a) PROVE SInv'
  BY <1>2, AskKeeps
<1>3. ASSUME NEW a \in Askers, Timeout(a) PROVE SInv'
  BY <1>3, TimeoutKeeps
<1>4. ASSUME NEW a \in Askers, Idle(a) PROVE SInv'
  BY <1>4, IdleKeeps
<1>5. ASSUME NEW p \in Procs, Prints(p) PROVE SInv'
  <2>1. CASE Names(p)
    BY <2>1, NamesKeeps
  <2>2. CASE Inits(p)
    BY <2>2, InitsKeeps
  <2>3. CASE StaleResult(p)
    BY <2>3, StaleResultKeeps
  <2>4. CASE SendFails(p)
    BY <2>4, SendFailsKeeps
  <2>5. CASE Closes(p)
    BY <2>5, ClosesKeeps
  <2>6. ASSUME NEW ok \in BOOLEAN, Result(p, ok) PROVE SInv'
    BY <2>6, ResultKeeps
  <2>7. ASSUME NEW saysStale \in BOOLEAN, Exits(p, saysStale) PROVE SInv'
    BY <2>7, ExitsKeeps
  <2> QED BY <1>5, <2>1, <2>2, <2>3, <2>4, <2>5, <2>6, <2>7, Zenon DEF Prints
<1>6. CASE (\E s \in Procs \cup {Owner} : Vanish(s)) \/ Reopen \/ UNCHANGED vars
  <2>1. Follows(proc) /\ gone \subseteq Procs \cup {Owner} /\ knocking \subseteq Askers
    BY DEF Follows, SInv, TypeOK, Started, Used
  <2>2. UNCHANGED <<request, forks, runner, proc, up, restarts, knocking>> /\ gone' \subseteq Procs \cup {Owner}
    BY <1>6, <2>1 DEF Vanish, Reopen, vars
  <2>3. share' = share \/ (share' = "active" /\ share = "paused")
    BY <1>6 DEF Vanish, Reopen, vars
  <2> QED BY <2>1, <2>2, <2>3, QuietKeeps
<1>7. CASE Close("paused") \/ Close("revoked") \/ Shutdown
  BY <1>7, OwnerKeeps
<1>8. CASE Delete
  BY <1>8, DeleteKeeps
<1>9. CASE Crash
  BY <1>9, CrashKeeps
<1>10. CASE Boot
  BY <1>10, BootKeeps
<1> QED BY <1>1, <1>2, <1>3, <1>4, <1>5, <1>6, <1>7, <1>8, <1>9, <1>10, Zenon DEF Next

\* The values are well typed.
THEOREM TypeCorrect == Spec => []TypeOK
<1>1. Init => SInv
  BY InitS, SharesAssumption
<1>2. SInv /\ [Next]_vars => SInv'
  BY StepKeeps, SharesAssumption
<1>3. SInv => TypeOK
  BY DEF SInv
<1> QED BY <1>1, <1>2, <1>3, PTL DEF Spec

\* A question is on record as running exactly as long as a runner is busy with
\* it (askShare, finish, markInterruptedShareRequests).
THEOREM RunningIsAnswered == Spec => []RunningIsPending
<1>1. Init => SInv
  BY InitS, SharesAssumption
<1>2. SInv /\ [Next]_vars => SInv'
  BY StepKeeps, SharesAssumption
<1>3. SInv => RunningIsPending
  BY DEF SInv, Asked, RunningIsPending
<1> QED BY <1>1, <1>2, <1>3, PTL DEF Spec

\* A share answers one question at a time (hasRunningShareAsk).
THEOREM OneAtATime == Spec => []OneQuestionAtATime
<1>1. Init => SInv
  BY InitS, SharesAssumption
<1>2. SInv /\ [Next]_vars => SInv'
  BY StepKeeps, SharesAssumption
<1>3. SInv => OneQuestionAtATime
  <2> SUFFICES ASSUME SInv PROVE Cardinality({a \in Askers : runner[a].pending # None}) <= 1
    BY DEF OneQuestionAtATime
  <2> DEFINE busy == {a \in Askers : runner[a].pending # None}
  <2>1. busy = {} \/ \E a \in Askers : busy = {a}
    BY DEF SInv, Asked
  <2> HIDE DEF busy
  <2>2. Cardinality(busy) = 0 \/ Cardinality(busy) = 1
    BY <2>1, FS_EmptySet, FS_Singleton
  <2>3. Cardinality(busy) <= 1
    BY <2>2
  <2> QED BY <2>3 DEF busy
<1> QED BY <1>1, <1>2, <1>3, PTL DEF Spec

\* No process outlives the interest of its runner: restarts, timeouts and
\* exits that come late leave none behind (share-runner.ts).
THEOREM NoProcessStrays == Spec => []NoStrayProcess
<1>1. Init => SInv
  BY InitS, SharesAssumption
<1>2. SInv /\ [Next]_vars => SInv'
  BY StepKeeps, SharesAssumption
<1>3. SInv => NoStrayProcess
  BY SharesAssumption, Apart DEF SInv, Asked, Started, Used, NoStrayProcess
<1> QED BY <1>1, <1>2, <1>3, PTL DEF Spec

\* A fork is stored only when the CLI has confirmed it, of however many
\* processes, restarts and lines the name of the session came: but for askers
\* whose runner took a line of a process that had ended before its own init
\* line for one of its successor (handle, whose listeners stay).
THEOREM ForksAreConfirmed == Spec => []ForkWasConfirmed
<1>1. Init => SInv
  BY InitS, SharesAssumption
<1>2. SInv /\ [Next]_vars => SInv'
  BY StepKeeps, SharesAssumption
<1>3. SInv => ForkWasConfirmed
  BY DEF SInv, TypeOK, Kept, Confirmed, Strayed, ForkWasConfirmed
<1> QED BY <1>1, <1>2, <1>3, PTL DEF Spec

\* A deleted share keeps no fork, but for a question that had been authorised
\* before (DELETE, and the continuations of the runners it kills).
THEOREM DeletedSharesKeepNothing == Spec => []DeletedKeepsNoFork
<1>1. Init => SInv
  BY InitS, SharesAssumption
<1>2. SInv /\ [Next]_vars => SInv'
  BY StepKeeps, SharesAssumption
<1>3. SInv => DeletedKeepsNoFork
  BY DEF SInv, Kept
<1> QED BY <1>1, <1>2, <1>3, PTL DEF Spec

\* A closed share is quiet, but for a question that had been authorised
\* before (killRunners).
THEOREM ClosedSharesAreQuiet == Spec => []QuietWhenClosed
<1>1. Init => SInv
  BY InitS, SharesAssumption
<1>2. SInv /\ [Next]_vars => SInv'
  BY StepKeeps, SharesAssumption
<1>3. SInv => QuietWhenClosed
  BY DEF SInv, Kept
<1> QED BY <1>1, <1>2, <1>3, PTL DEF Spec
-----------------------------------------------------------------------------
(* The requests to the hub: what the theorems about each of its two parts    *)
(* say of a behaviour of their composition                                   *)

WP == INSTANCE WorktreesProofs WITH restarts <- hubs

LEMMA AssumptionSame == WP!WorktreesAssumption
  BY WorktreesPart DEF W!WorktreesAssumption, WP!WorktreesAssumption

LEMMA InitSame == W!Init => WP!Init
  BY DEF W!Init, WP!Init, W!Idle, WP!Idle, W!Places, WP!Places

LEMMA NextSame == [W!Next]_merges => [WP!Next]_WP!vars
<1>1. \A t \in Tasks : W!AgentEdits(t) <=> WP!AgentEdits(t)
  BY Zenon DEF W!AgentEdits, WP!AgentEdits, W!Works, WP!Works, W!Touches, WP!Touches
<1>2. \A t \in Tasks : W!AgentCommits(t) <=> WP!AgentCommits(t)
  BY Zenon DEF W!AgentCommits, WP!AgentCommits, W!Works, WP!Works, W!Touches, WP!Touches
<1>3. \A t \in Tasks : W!AgentEnds(t) <=> WP!AgentEnds(t)
  BY Zenon DEF W!AgentEnds, WP!AgentEnds
<1>4. \A t \in Tasks : W!Continue(t) <=> WP!Continue(t)
  BY Zenon DEF W!Continue, WP!Continue
<1>5. \A q \in Requests, t \in Tasks : W!MergeAccepted(q, t) <=> WP!MergeAccepted(q, t)
  BY Zenon DEF W!MergeAccepted, WP!MergeAccepted, W!Refused, WP!Refused, W!LockFree, WP!LockFree,
    W!Idle, WP!Idle
<1>6. \A q \in Requests, t \in Tasks : W!DiscardAccepted(q, t) <=> WP!DiscardAccepted(q, t)
  BY Zenon DEF W!DiscardAccepted, WP!DiscardAccepted, W!Refused, WP!Refused, W!Idle, WP!Idle
<1>7. \A q \in Requests : W!MergeStatus(q) <=> WP!MergeStatus(q)
  BY Zenon DEF W!MergeStatus, WP!MergeStatus, W!IsDirty, WP!IsDirty, W!Answer, WP!Answer, W!Idle,
    WP!Idle, W!Goto, WP!Goto
<1>8. \A q \in Requests : W!MergeLog(q) <=> WP!MergeLog(q)
  BY Zenon DEF W!MergeLog, WP!MergeLog, W!Answer, WP!Answer, W!Idle, WP!Idle, W!Goto, WP!Goto
<1>9. \A q \in Requests : W!MergeFindsBase(q) <=> WP!MergeFindsBase(q)
  BY Zenon DEF W!MergeFindsBase, WP!MergeFindsBase, W!Places, WP!Places, W!Answer, WP!Answer,
    W!Idle, WP!Idle, W!Goto, WP!Goto
<1>10. \A q \in Requests : W!MergeAdds(q) <=> WP!MergeAdds(q)
  BY Zenon DEF W!MergeAdds, WP!MergeAdds, W!Answer, WP!Answer, W!Idle, WP!Idle
<1>11. \A q \in Requests : W!MergeMerges(q) <=> WP!MergeMerges(q)
  BY Zenon DEF W!MergeMerges, WP!MergeMerges, W!Mergeable, WP!Mergeable, W!AfterMerge,
    WP!AfterMerge, W!Answer, WP!Answer, W!Idle, WP!Idle, W!AfterConflict, WP!AfterConflict, W!Goto,
    WP!Goto
<1>12. \A q \in Requests : W!MergeAborts(q) <=> WP!MergeAborts(q)
  BY Zenon DEF W!MergeAborts, WP!MergeAborts, W!AfterMerge, WP!AfterMerge, W!Answer, WP!Answer,
    W!Idle, WP!Idle
<1>13. \A q \in Requests : W!MergeRemoves(q) <=> WP!MergeRemoves(q)
  BY Zenon DEF W!MergeRemoves, WP!MergeRemoves, W!Answer, WP!Answer, W!Idle, WP!Idle
<1>14. \A q \in Requests : W!DiscardRemoves(q) <=> WP!DiscardRemoves(q)
  BY Zenon DEF W!DiscardRemoves, WP!DiscardRemoves, W!Idle, WP!Idle
<1>15. \A q \in Requests : W!DiscardDeletes(q) <=> WP!DiscardDeletes(q)
  BY Zenon DEF W!DiscardDeletes, WP!DiscardDeletes, W!Idle, WP!Idle
<1>16. W!UserSwitches <=> WP!UserSwitches
  BY Zenon DEF W!UserSwitches, WP!UserSwitches
<1>17. W!Restart <=> WP!Restart
  BY Zenon DEF W!Restart, WP!Restart, W!Idle, WP!Idle
<1>18. \A q \in Requests : W!Answers(q) <=> WP!Answers(q)
  BY <1>7, <1>8, <1>9, <1>10, <1>11, <1>12, <1>13, <1>14, <1>15 DEF W!Answers, WP!Answers
<1>19. W!Next <=> WP!Next
  BY <1>1, <1>2, <1>3, <1>4, <1>5, <1>6, <1>16, <1>17, <1>18 DEF W!Next, WP!Next
<1> QED BY <1>19 DEF merges, WP!vars

\* While the behaviour is one of the worktrees, their invariant holds.
MergesInv == part = "worktrees" => WP!WInv

LEMMA MergesInit == RequestsInit => MergesInv
  BY InitSame, WP!InitW, AssumptionSame DEF RequestsInit, MergesInv

LEMMA MergesStep == MergesInv /\ [RequestsNext]_<<part, vars, merges>> => MergesInv'
<1> SUFFICES ASSUME MergesInv, [RequestsNext]_<<part, vars, merges>>, part' = "worktrees"
             PROVE  WP!WInv'
  BY DEF MergesInv
<1>1. part = "worktrees" /\ [W!Next]_merges
  BY DEF RequestsNext
<1>2. WP!WInv /\ [WP!Next]_WP!vars
  BY <1>1, NextSame DEF MergesInv
<1> QED BY <1>2, WP!StepW, AssumptionSame

LEMMA MergesSafe == RequestsSpec => [](part = "worktrees" => WP!MergesAlone /\ WP!MergedIsSafe /\ WP!NothingLeftBehind)
<1>1. MergesInv => (part = "worktrees" => WP!MergesAlone /\ WP!MergedIsSafe /\ WP!NothingLeftBehind)
  BY WP!SafeW, AssumptionSame DEF MergesInv
<1> QED BY <1>1, MergesInit, MergesStep, PTL DEF RequestsSpec

\* Questions to a share and merges of worktrees reach the hub together: the
\* merges still exclude each other (the lock of a repository in worktrees.ts).
THEOREM RequestsMergeAlone == RequestsSpec => []MergesAlone
<1>1. W!Merging = WP!Merging
  BY Zenon DEF W!Merging, WP!Merging, W!MergeSteps, WP!MergeSteps
<1>2. W!Cardinality(W!Merging) = WP!Cardinality(W!Merging)
  BY Zenon DEF W!Cardinality, WP!Cardinality
<1>3. (part = "worktrees" => WP!MergesAlone) => MergesAlone
  BY <1>1, <1>2 DEF MergesAlone, W!MergesAlone, WP!MergesAlone
<1> QED BY <1>3, MergesSafe, PTL

\* What a task calls merged is on the base branch.
THEOREM RequestsMergeSafely == RequestsSpec => []MergedIsSafe
<1>1. (part = "worktrees" => WP!MergedIsSafe) => MergedIsSafe
  BY DEF MergedIsSafe, W!MergedIsSafe, WP!MergedIsSafe
<1> QED BY <1>1, MergesSafe, PTL

\* A merge that is over leaves neither a half merge nor its temporary worktree.
THEOREM RequestsCleanUp == RequestsSpec => []NothingLeftBehind
<1>1. (part = "worktrees" => WP!NothingLeftBehind) => NothingLeftBehind
  BY DEF NothingLeftBehind, W!NothingLeftBehind, WP!NothingLeftBehind
<1> QED BY <1>1, MergesSafe, PTL
=============================================================================
