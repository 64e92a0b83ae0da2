-------------------------- MODULE DelegationProofs --------------------------
(***************************************************************************)
(* What holds of Delegation for any number of tasks, runs, repositories    *)
(* and port blocks.                                                        *)
(***************************************************************************)
EXTENDS Delegation, FiniteSetTheorems, TLAPS

USE DelegationAssumption

\* The constant records are of the types declared.
LEMMA ConstantRecords == NoTask \in Task /\ NoRun \in Run /\ NoChild \in Child
  BY DEF NoTask, Task, NoRun, Run, NoChild, Child, TaskStatus, RunStatus,
         Isolation, Reason, Active, Finished

\* What a launch leaves of the agent: a process, or none when the store fails.
LEMMA AgentFacts ==
  \A agent \in Agents :
    /\ agent \in Child /\ agent.said = None /\ agent.aborted = FALSE
    /\ agent.state = "alive" \/ (agent.state = "closed" /\ StoreMayFail)
    /\ ~StoreMayFail => agent = Spawned
<1>1. /\ Spawned \in Child /\ Spawned.said = None /\ Spawned.aborted = FALSE
      /\ Spawned.state = "alive"
  BY DEF Spawned, Child
<1>2. /\ Unspawned \in Child /\ Unspawned.said = None /\ Unspawned.aborted = FALSE
      /\ Unspawned.state = "closed"
  BY DEF Unspawned, Child
<1>3. ASSUME NEW agent \in Agents
      PROVE  agent = Spawned \/ (agent = Unspawned /\ StoreMayFail)
  BY DEF Agents
<1> QED BY <1>1, <1>2, <1>3

\* The rows delegateTask and createInternalTask insert are tasks.
LEMMA NewRowsTyped ==
  ASSUME TypeOK
  PROVE  /\ \A q \in Request, port \in Blocks : NewTask(q, port) \in Task
         /\ \A d \in Dates, runner \in Runners, port \in Blocks :
              NewDailyTask(d, runner, port) \in Task
<1>1. ASSUME NEW q \in Request, NEW port \in Blocks
      PROVE  NewTask(q, port) \in Task
  <2>1. /\ Wanted(q).isolation \in Isolation
        /\ Wanted(q).reason \in Reason
    BY DEF Request, Wanted, ResolveIsolation, Isolation, Reason
  <2>2. q.runner \in {"claude", "codex"} /\ q.repo \in Repos \cup {None}
    BY DEF Request
  <2> QED
    BY <2>1, <2>2 DEF NewTask, NoTask, Task, TaskStatus, Isolation, Reason, Active
<1>2. ASSUME NEW d \in Dates, NEW runner \in Runners, NEW port \in Blocks
      PROVE  NewDailyTask(d, runner, port) \in Task
  BY DEF NewDailyTask, NoTask, Task, TaskStatus, Isolation, Reason, Active
<1> QED BY <1>1, <1>2

LEMMA NewRunTyped ==
  ASSUME TypeOK, NEW t \in Tasks, NEW r \in Runs, NEW kind \in {"launch", "continue"},
         NEW session \in Runs \cup {None}
  PROVE  NewRun(t, r, kind, session) \in Run
  BY DEF NewRun, Run, RunStatus, RunsOf

LEMMA TouchTyped ==
  ASSUME TypeOK, NEW S \in SUBSET Tasks, Touch(S)
  PROVE  newer' \in [Tasks -> SUBSET Tasks]
  BY DEF TypeOK, Touch

LEMMA InsertTyped ==
  ASSUME TypeOK, NEW t \in Tasks, Insert(t)
  PROVE  newer' \in [Tasks -> SUBSET Tasks]
  BY DEF TypeOK, Insert

LEMMA DieTyped ==
  ASSUME TypeOK, Die
  PROVE  /\ hub' \in {"up", "settling", "down"}
         /\ activeRuns' \in [Tasks -> Runs \cup {None}]
         /\ child' \in [Runs -> Child]
<1>1. PICK survivors \in SUBSET {r \in Runs : child[r].state = "alive"} :
        child' = [r \in Runs |->
                   IF child[r].state # "alive" THEN child[r]
                   ELSE [child[r] EXCEPT !.state =
                           IF r \in survivors THEN "orphan" ELSE "closed"]]
  BY DEF Die
<1>2. ASSUME NEW r \in Runs
      PROVE  [child[r] EXCEPT !.state = IF r \in survivors THEN "orphan" ELSE "closed"] \in Child
  BY DEF TypeOK, Child
<1> QED BY <1>1, <1>2 DEF TypeOK, Die

\* Launch leaves every table well typed.
LEMMA LaunchTyped ==
  ASSUME TypeOK, NEW t \in Tasks, NEW r \in Runs, NEW row \in Task, Launch(t, r, row)
  PROVE  TypeOK'
<1>1. NewRun(t, r, "launch", PlannedSession(row.runner, r)) \in Run
  BY NewRunTyped DEF PlannedSession
<1>2. [row EXCEPT !.status = "running"] \in Task
  BY DEF Task, TaskStatus, Active
<1>3. PICK agent \in Agents : child' = [child EXCEPT ![r] = agent]
  BY DEF Launch
<1>4. child' \in [Runs -> Child]
  BY <1>3, AgentFacts DEF TypeOK
<1> QED
  BY <1>1, <1>2, <1>4, InsertTyped DEF Launch, TypeOK

LEMMA InsertOnlyTyped ==
  ASSUME TypeOK, NEW t \in Tasks, NEW row \in Task, InsertOnly(t, row)
  PROVE  TypeOK'
  BY InsertTyped, DieTyped DEF InsertOnly, TypeOK

LEMMA StoreTyped ==
  ASSUME TypeOK, NEW r \in Runs, run[r].task \in Tasks, NEW status \in Finished,
         NEW session \in Runs \cup {None}, Store(r, status, session)
  PROVE  /\ run' \in [Runs -> Run] /\ task' \in [Tasks -> Task]
         /\ newer' \in [Tasks -> SUBSET Tasks]
<1> DEFINE t == run[r].task
<1>0. /\ Coalesce(session, run[r].session) \in Runs \cup {None}
      /\ Coalesce(session, task[t].session) \in Runs \cup {None}
      /\ run[r] \in Run /\ task[t] \in Task
      /\ status \in RunStatus /\ status \in TaskStatus
  BY DEF TypeOK, Run, Task, Coalesce, RunStatus, TaskStatus
<1>1. [run[r] EXCEPT !.status = status, !.session = Coalesce(session, @)] \in Run
  BY <1>0 DEF Run
<1>2. run' = [run EXCEPT ![r] = [run[r] EXCEPT !.status = status, !.session = Coalesce(session, @)]]
  BY DEF Store, TypeOK
<1>3. [task[t] EXCEPT !.status = status, !.session = Coalesce(session, @)] \in Task
  BY <1>0 DEF Task
<1>4. task' = [task EXCEPT ![t] = [task[t] EXCEPT !.status = status, !.session = Coalesce(session, @)]]
  BY DEF Store, TypeOK
<1> QED
  BY <1>1, <1>2, <1>3, <1>4, TouchTyped DEF Store, TypeOK
-----------------------------------------------------------------------------
(* Every kind of step keeps the inductive invariant *)

\* An agent that is alive serves the run in flight of a task that exists.
LEMMA AliveFacts ==
  ASSUME RunsInv, NEW r \in Runs, child[r].state = "alive"
  PROVE  /\ r \in InFlight
         /\ run[r].task \in Created /\ run[r].task \in Tasks
         /\ r \in RunsOf(run[r].task)
         /\ activeRuns[run[r].task] = r
         /\ hub # "down"
  BY DEF RunsInv, NoLostAgent, RowsOK, InFlight, RunsOf, Created

\* A run without a final verdict is the last run of a task that exists.
LEMMA UnsettledFacts ==
  ASSUME RunsInv, NEW r \in Unsettled
  PROVE  /\ r \in Runs /\ run[r].status # "none"
         /\ run[r].task \in Created /\ run[r].task \in Tasks
         /\ r \in RunsOf(run[r].task)
         /\ LastRun(run[r].task, r)
<1>1. r \in Runs /\ run[r].status # "none"
  BY DEF Unsettled, Settling, Finished
<1>2. run[r].task \in Created /\ run[r].task \in Tasks
  BY <1>1 DEF RunsInv, RowsOK, Created
<1>3. LastRun(run[r].task, r)
  BY DEF RunsInv, Unsettled, InFlight, InFlightIsLast, SettlingOK
<1> QED BY <1>1, <1>2, <1>3 DEF RunsOf

\* At most one run of a task has no final verdict: two would each be the last.
LEMMA UnsettledUnique ==
  ASSUME RunsInv, NEW q \in Unsettled, NEW r \in Unsettled, run[q].task = run[r].task
  PROVE  q = r
<1> SUFFICES ASSUME q # r PROVE FALSE
  OBVIOUS
<1>1. q \in Runs /\ r \in Runs /\ run[q].status # "none" /\ run[r].status # "none"
  BY UnsettledFacts
<1>2. q \in RunsOf(run[r].task) /\ r \in RunsOf(run[q].task)
  BY <1>1 DEF RunsOf
<1>3. q \in run[r].earlier /\ r \in run[q].earlier
  BY <1>1, <1>2, UnsettledFacts DEF LastRun
<1> QED BY <1>1, <1>3 DEF RunsInv, RowsOK

LEMMA InFlightUnique ==
  ASSUME RunsInv, NEW q \in InFlight, NEW r \in InFlight, run[q].task = run[r].task
  PROVE  q = r
  BY UnsettledUnique DEF Unsettled, InFlight

\* Between two handlers a run without a final verdict is in flight.
LEMMA UnsettledInFlight ==
  /\ hub # "settling" => Unsettled = InFlight /\ \A r \in Runs : ~Settling(r)
  /\ hub' # "settling" => Unsettled' = InFlight' /\ \A r \in Runs : ~Settling(r)'
  BY DEF Unsettled, InFlight, Settling

\* A step that leaves the controllers and the chains alone.
LEMMA ChainsKept ==
  ASSUME RunsInv, run' = run, UNCHANGED <<hub, activeRuns>>,
         \A r \in Runs : child[r].state = "closed" => child'[r].state = "closed"
  PROVE  ControllersOK' /\ SettlingOK' /\ Unsettled' = Unsettled
<1>1. \A r : Settling(r)' <=> Settling(r)
  BY DEF Settling
<1>2. Unsettled' = Unsettled
  BY <1>1 DEF Unsettled
<1>3. ControllersOK'
  BY <1>2 DEF RunsInv, ControllersOK
<1>4. SettlingOK'
  BY <1>1 DEF RunsInv, SettlingOK, LastRun, RunsOf
<1> QED BY <1>2, <1>3, <1>4

\* A run begins: the common part of Launch and Continue.
LEMMA BeginKeeps ==
  ASSUME RunsInv, TypeOK', NEW t \in Tasks, NEW r \in Runs, NEW kind, NEW session,
         hub = "up", hub' = hub,
         run[r].status = "none", ~HasRunningRun(t),
         run' = [run EXCEPT ![r] = NewRun(t, r, kind, session)],
         task'[t].status = "running",
         \A u \in Tasks \ {t} : task'[u] = task[u],
         activeRuns' = [activeRuns EXCEPT ![t] = r],
         \E agent \in Agents : child' = [child EXCEPT ![r] = agent]
  PROVE  RunsInv'
<1> USE DEF RunsInv
<1>1. run[r] = NoRun /\ child[r] = NoChild
  BY DEF RowsOK
<1>2. \A u \in Tasks : r \notin RunsOf(u)
  BY <1>1 DEF RunsOf, NoRun
<1>3. /\ run'[r] = [status |-> "running", task |-> t, earlier |-> RunsOf(t),
                    kind |-> kind, session |-> session]
      /\ \A q \in Runs \ {r} : run'[q] = run[q]
      /\ child'[r] \in Agents
      /\ \A q \in Runs \ {r} : child'[q] = child[q]
      /\ activeRuns'[t] = r
      /\ \A u \in Tasks \ {t} : activeRuns'[u] = activeRuns[u]
  BY DEF TypeOK, NewRun
<1>4. /\ RunsOf(t)' = RunsOf(t) \cup {r}
      /\ \A u \in Tasks \ {t} : RunsOf(u)' = RunsOf(u)
      /\ InFlight' = InFlight \cup {r}
  BY <1>1, <1>2, <1>3 DEF RunsOf, InFlight
<1>5. \A q \in InFlight : run[q].task \in Tasks \ {t} /\ q # r
  BY <1>1 DEF HasRunningRun, InFlight, RunsOf, RowsOK, Created, NoRun
<1>6. Created' = Created \cup {t}
  BY DEF Created, TypeOK
<1>7. \A q \in Runs \ {r} : r \notin run[q].earlier
  <2> SUFFICES ASSUME NEW q \in Runs \ {r}, r \in run[q].earlier PROVE FALSE
    OBVIOUS
  <2>1. CASE run[q].status = "none"
    BY <2>1 DEF RowsOK, NoRun
  <2>2. CASE run[q].status # "none"
    BY <2>2, <1>2 DEF RowsOK, Created
  <2> QED BY <2>1, <2>2
<1>8. RowsOK'
  <2> SUFFICES ASSUME NEW q \in Runs
               PROVE  IF run'[q].status = "none" THEN run'[q] = NoRun /\ child'[q] = NoChild
                      ELSE /\ run'[q].task \in Created'
                           /\ run'[q].earlier \subseteq RunsOf(run[q].task)' \ {q}
                           /\ \A p \in run'[q].earlier : q \notin run'[p].earlier
    BY DEF RowsOK
  <2>1. CASE q = r
    <3>1. \A p \in RunsOf(t) : p \in Runs \ {r}
      BY <1>2 DEF RunsOf
    <3> QED BY <2>1, <3>1, <1>2, <1>3, <1>4, <1>6, <1>7
  <2>2. CASE q # r /\ run[q].status = "none"
    BY <2>2, <1>3 DEF RowsOK
  <2>3. CASE q # r /\ run[q].status # "none"
    <3>1. /\ run[q].task \in Created /\ run[q].task \in Tasks
          /\ run[q].earlier \subseteq RunsOf(run[q].task) \ {q}
          /\ \A p \in run[q].earlier : q \notin run[p].earlier
      BY <2>3 DEF RowsOK, Created
    <3>2. \A p \in run[q].earlier : p \in Runs \ {r}
      BY <3>1, <1>2 DEF RunsOf
    <3> QED BY <2>3, <3>1, <3>2, <1>3, <1>4, <1>6
  <2> QED BY <2>1, <2>2, <2>3
<1>9. InFlightIsLast'
  <2> SUFFICES ASSUME NEW q \in InFlight'
               PROVE  LastRun(run[q].task, q)' /\ task'[run'[q].task].status = "running"
    BY DEF InFlightIsLast
  <2>1. CASE q = r
    <3>1. LastRun(t, r)'
      BY <1>2, <1>3, <1>4 DEF LastRun
    <3> QED BY <2>1, <3>1, <1>3
  <2>2. CASE q # r
    <3>1. /\ q \in InFlight /\ q \in Runs \ {r} /\ run[q].task \in Tasks \ {t}
          /\ LastRun(run[q].task, q) /\ task[run[q].task].status = "running"
      BY <2>2, <1>4, <1>5 DEF InFlightIsLast, InFlight
    <3>2. LastRun(run[q].task, q)'
      BY <3>1, <1>3, <1>4 DEF LastRun
    <3> QED BY <3>1, <3>2, <1>3
  <2> QED BY <2>1, <2>2
<1>10. TaskFollowsLastRun'
  <2> SUFFICES ASSUME NEW u \in Created'
               PROVE  IF RunsOf(u)' = {} THEN task'[u].status = "pending"
                      ELSE \E q \in Runs : LastRun(u, q)' /\ task'[u].status = run'[q].status
    BY DEF TaskFollowsLastRun
  <2>1. CASE u = t
    <3>1. LastRun(t, r)' /\ task'[t].status = run'[r].status
      BY <1>2, <1>3, <1>4 DEF LastRun
    <3> QED BY <2>1, <3>1, <1>4
  <2>2. CASE u # t
    <3>1. u \in Created /\ u \in Tasks \ {t}
      BY <2>2, <1>6 DEF Created
    <3>2. CASE RunsOf(u) = {}
      BY <3>1, <3>2, <1>4 DEF TaskFollowsLastRun
    <3>3. CASE RunsOf(u) # {}
      <4>1. PICK q \in Runs : LastRun(u, q) /\ task[u].status = run[q].status
        BY <3>1, <3>3 DEF TaskFollowsLastRun
      <4>2. q # r
        BY <4>1, <1>1, <3>1 DEF LastRun, NoRun
      <4>3. LastRun(u, q)' /\ task'[u].status = run'[q].status
        BY <4>1, <4>2, <3>1, <1>3, <1>4 DEF LastRun
      <4> QED BY <3>1, <3>3, <4>3, <1>4
    <3> QED BY <3>2, <3>3
  <2> QED BY <2>1, <2>2
<1>11. ControllersOK' /\ SettlingOK'
  <2>0. /\ Unsettled = InFlight /\ Unsettled' = InFlight'
        /\ \A q \in Runs : ~Settling(q)'
    BY UnsettledInFlight
  <2> SUFFICES ASSUME NEW u \in Tasks, activeRuns'[u] # None
               PROVE  activeRuns'[u] \in InFlight' /\ run'[activeRuns'[u]].task = u
    BY <2>0 DEF ControllersOK, SettlingOK
  <2>1. CASE u = t
    BY <2>1, <1>3, <1>4
  <2>2. CASE u # t
    <3>1. activeRuns[u] \in InFlight /\ run[activeRuns[u]].task = u
      BY <2>0, <2>2, <1>3 DEF ControllersOK
    <3>2. activeRuns[u] \in Runs \ {r}
      BY <3>1, <1>5 DEF InFlight
    <3> QED BY <2>2, <3>1, <3>2, <1>3, <1>4
  <2> QED BY <2>1, <2>2
<1>12. NoLostAgent'
  <2> SUFFICES ASSUME NEW q \in Runs, child'[q].state = "alive"
               PROVE  hub' # "down" /\ run'[q].status = "running" /\ activeRuns'[run'[q].task] = q
    BY DEF NoLostAgent
  <2>1. CASE q = r
    BY <2>1, <1>3
  <2>2. CASE q # r
    <3>1. q \in InFlight /\ activeRuns[run[q].task] = q
      BY <2>2, <1>3, AliveFacts
    <3> QED BY <2>2, <3>1, <1>3, <1>5 DEF InFlight
  <2> QED BY <2>1, <2>2
<1>13. RunningIsCancellable'
  <2> SUFFICES ASSUME NEW q \in InFlight'
               PROVE  \/ child'[q].state = "alive" /\ activeRuns'[run'[q].task] = q
                      \/ child'[q].state = "closed" /\ StoreMayFail
    BY DEF RunningIsCancellable
  <2>1. CASE q = r
    BY <2>1, <1>3, AgentFacts
  <2>2. CASE q # r
    <3>1. q \in InFlight /\ q \in Runs \ {r} /\ run[q].task \in Tasks \ {t}
      BY <2>2, <1>4, <1>5 DEF InFlight
    <3>2. \/ child[q].state = "alive" /\ activeRuns[run[q].task] = q
          \/ child[q].state = "closed" /\ StoreMayFail
      BY <3>1 DEF RunningIsCancellable
    <3> QED BY <3>1, <3>2, <1>3
  <2> QED BY <2>1, <2>2
<1>14. AbortIsFinal'
  BY <1>3, AgentFacts DEF AbortIsFinal
<1> QED BY <1>8, <1>9, <1>10, <1>11, <1>12, <1>13, <1>14

\* A step that leaves the runs and the status of every task alone.
LEMMA QuietKeeps ==
  ASSUME RunsInv, run' = run,
         \A t \in Tasks : task'[t].status = task[t].status,
         \A r \in Runs : child[r] = NoChild => child'[r] = NoChild
  PROVE  RowsOK' /\ InFlightIsLast' /\ TaskFollowsLastRun' /\ InFlight' = InFlight
<1> USE DEF RunsInv
<1>1. /\ Created' = Created
      /\ InFlight' = InFlight
      /\ \A t \in Tasks : RunsOf(t)' = RunsOf(t)
  BY DEF Created, InFlight, RunsOf
<1>2. RowsOK'
  BY <1>1 DEF RowsOK, RunsOf
<1>3. InFlightIsLast'
  <2>1. \A r \in InFlight : run[r].task \in Tasks
    BY DEF RowsOK, InFlight, Created
  <2> QED BY <1>1, <2>1 DEF InFlightIsLast, LastRun, RunsOf
<1>4. TaskFollowsLastRun'
  <2>1. \A t \in Created : t \in Tasks
    BY DEF Created
  <2> QED BY <1>1, <2>1 DEF TaskFollowsLastRun, LastRun, RunsOf
<1> QED BY <1>1, <1>2, <1>3, <1>4

\* The controllers of the hub fire.
LEMMA AbortKeeps ==
  ASSUME RunsInv, hub = "up", NEW S \in SUBSET Tasks, Abort(S)
  PROVE  RunsInv'
<1> USE DEF RunsInv
<1>1. /\ \A r \in Runs : child'[r].state = child[r].state
      /\ \A r \in Runs : child'[r].aborted # child[r].aborted => r \in InFlight
      /\ \A r \in Runs : child'[r] # child[r] => r \in InFlight
      /\ TypeOK'
  <2>1. ASSUME NEW r \in Runs
        PROVE  /\ [child[r] EXCEPT !.aborted = TRUE] \in Child
               /\ [child[r] EXCEPT !.aborted = TRUE].state = child[r].state
    <3>1. child[r] \in Child
      BY DEF TypeOK
    <3> QED BY <3>1 DEF Child
  <2>2. \A r \in Runs : child'[r] # child[r] => \E t \in S : activeRuns[t] = r
    BY DEF Abort
  <2>3. \A t \in Tasks, r \in Runs : activeRuns[t] = r => r \in InFlight
    BY UnsettledInFlight DEF ControllersOK
  <2> QED BY <2>1, <2>2, <2>3 DEF Abort, TypeOK
<1>2. \A r \in Runs : child[r] = NoChild => child'[r] = NoChild
  BY <1>1 DEF NoChild, RunningIsCancellable
<1>3. RowsOK' /\ InFlightIsLast' /\ TaskFollowsLastRun' /\ InFlight' = InFlight
  BY <1>2, QuietKeeps DEF Abort
<1>4. ControllersOK' /\ SettlingOK'
  BY <1>1, ChainsKept DEF Abort
<1>5. NoLostAgent'
  BY <1>1, <1>3 DEF NoLostAgent, Abort
<1>6. RunningIsCancellable'
  BY <1>1, <1>3 DEF RunningIsCancellable, Abort, InFlight
<1>7. AbortIsFinal'
  BY <1>1 DEF AbortIsFinal, Abort, InFlight
<1> QED BY <1>1, <1>3, <1>4, <1>5, <1>6, <1>7

\* The agent names its session, or an orphan ends.
LEMMA AgentKeeps ==
  ASSUME RunsInv, NEW r \in Runs, AgentSays(r) \/ OrphanEnds(r)
  PROVE  RunsInv'
<1> USE DEF RunsInv
<1>1. /\ UNCHANGED <<hub, task, newer, run, activeRuns>>
      /\ TypeOK'
      /\ child[r].state # "none"
      /\ \A q \in Runs : child'[q].aborted = child[q].aborted
      /\ \A q \in Runs : q # r => child'[q] = child[q]
      /\ child'[r].state = child[r].state
           \/ (child[r].state = "orphan" /\ child'[r].state = "closed")
  <2>1. CASE AgentSays(r)
    <3>1. PICK s \in {r, run[r].session} \ {None} : child' = [child EXCEPT ![r].said = s]
      BY <2>1 DEF AgentSays
    <3>2. s \in Runs
      BY DEF TypeOK, Run
    <3> QED BY <2>1, <3>1, <3>2 DEF AgentSays, TypeOK, Child
  <2>2. CASE OrphanEnds(r)
    BY <2>2 DEF OrphanEnds, TypeOK, Child
  <2> QED BY <2>1, <2>2
<1>2. \A q \in Runs : child[q] = NoChild => child'[q] = NoChild
  BY <1>1 DEF NoChild
<1>3. RowsOK' /\ InFlightIsLast' /\ TaskFollowsLastRun' /\ InFlight' = InFlight
  BY <1>1, <1>2, QuietKeeps
<1>4. ControllersOK' /\ SettlingOK'
  <2>1. \A q \in Runs : child[q].state = "closed" => child'[q].state = "closed"
    BY <1>1
  <2> QED BY <1>1, <2>1, ChainsKept
<1>5. NoLostAgent'
  BY <1>1, <1>3 DEF NoLostAgent
<1>6. RunningIsCancellable'
  BY <1>1, <1>3 DEF RunningIsCancellable, InFlight
<1>7. AbortIsFinal'
  BY <1>1 DEF AbortIsFinal
<1> QED BY <1>1, <1>3, <1>4, <1>5, <1>6, <1>7

\* A task is archived or brought back.
LEMMA ArchiveKeeps ==
  ASSUME RunsInv, NEW t \in Tasks, Archive(t) \/ Unarchive(t)
  PROVE  RunsInv'
<1> USE DEF RunsInv
<1>1. /\ UNCHANGED <<hub, run, activeRuns, child>>
      /\ TypeOK'
      /\ \A u \in Tasks : task'[u].status = task[u].status
  <2>1. Touch({t}) /\ UNCHANGED <<hub, run, activeRuns, child>>
    BY DEF Archive, Unarchive
  <2>2. \/ task' = [task EXCEPT ![t].archived = TRUE]
        \/ task' = [task EXCEPT ![t].archived = FALSE]
    BY DEF Archive, Unarchive
  <2>3. task[t] \in Task
    BY DEF TypeOK
  <2>4. /\ [task[t] EXCEPT !.archived = TRUE] \in Task
        /\ [task[t] EXCEPT !.archived = TRUE].status = task[t].status
        /\ [task[t] EXCEPT !.archived = FALSE] \in Task
        /\ [task[t] EXCEPT !.archived = FALSE].status = task[t].status
    BY <2>3 DEF Task
  <2>5. \E row \in Task : task' = [task EXCEPT ![t] = row] /\ row.status = task[t].status
    BY <2>2, <2>4
  <2>6. task' \in [Tasks -> Task] /\ \A u \in Tasks : task'[u].status = task[u].status
    BY <2>5 DEF TypeOK
  <2> QED BY <2>1, <2>6, TouchTyped DEF TypeOK
<1>2. RowsOK' /\ InFlightIsLast' /\ TaskFollowsLastRun' /\ InFlight' = InFlight
  BY <1>1, QuietKeeps
<1>3. ControllersOK' /\ SettlingOK'
  BY <1>1, ChainsKept
<1>4. NoLostAgent' /\ RunningIsCancellable' /\ AbortIsFinal'
  BY <1>1, <1>2 DEF NoLostAgent, RunningIsCancellable, AbortIsFinal
<1> QED BY <1>1, <1>2, <1>3, <1>4

\* What the end of an agent's process changes: its controller and its state.
LEMMA ForgetFacts ==
  ASSUME RunsInv, NEW r \in Unsettled, Forget(r)
  PROVE  /\ child' \in [Runs -> Child] /\ activeRuns' \in [Tasks -> Runs \cup {None}]
         /\ child'[r].state = "closed"
         /\ \A q \in Runs : child'[q].aborted = child[q].aborted
         /\ \A q \in Runs \ {r} : child'[q] = child[q]
         /\ activeRuns'[run[r].task] = None
         /\ \A t \in Tasks \ {run[r].task} : activeRuns'[t] = activeRuns[t]
<1>1. r \in Runs /\ run[r].task \in Tasks
  BY UnsettledFacts
<1>2. [child[r] EXCEPT !.state = "closed"] \in Child
  BY <1>1 DEF RunsInv, TypeOK, Child
<1>3. [child[r] EXCEPT !.state = "closed"].state = "closed"
      /\ [child[r] EXCEPT !.state = "closed"].aborted = child[r].aborted
  BY <1>1 DEF RunsInv, TypeOK, Child
<1> QED BY <1>1, <1>2, <1>3 DEF RunsInv, TypeOK, Forget

\* What finishRun changes, whoever calls it: the run was the last of its task.
LEMMA StoreFacts ==
  ASSUME RunsInv, NEW r \in Unsettled, NEW status \in Finished,
         NEW session \in Runs \cup {None}, Store(r, status, session)
  PROVE  /\ run'[r].status = status /\ run'[r].task = run[r].task
         /\ run'[r].earlier = run[r].earlier
         /\ \A q \in Runs \ {r} : run'[q] = run[q]
         /\ task'[run[r].task].status = status
         /\ \A u \in Tasks \ {run[r].task} : task'[u] = task[u]
         /\ \A u \in Tasks : RunsOf(u)' = RunsOf(u)
         /\ InFlight' = InFlight \ {r}
         /\ Created' = Created
         /\ status \notin {"none", "running", "absent", "pending"}
<1>1. /\ r \in Runs /\ run[r].status # "none" /\ run[r].task \in Tasks
      /\ run[r].task \in Created
  BY UnsettledFacts
<1>2. /\ run'[r].status = status /\ run'[r].task = run[r].task
      /\ run'[r].earlier = run[r].earlier
      /\ \A q \in Runs \ {r} : run'[q] = run[q]
      /\ task'[run[r].task].status = status
      /\ \A u \in Tasks \ {run[r].task} : task'[u] = task[u]
  BY <1>1 DEF Store, RunsInv, TypeOK, Run, Task
<1>3. status \notin {"none", "running", "absent", "pending"}
  BY DEF Finished
<1> QED BY <1>1, <1>2, <1>3 DEF RunsOf, InFlight, Created

\* finishRun keeps the tables in step.
LEMMA StoreKeeps ==
  ASSUME RunsInv, NEW r \in Unsettled, NEW status \in Finished,
         NEW session \in Runs \cup {None}, Store(r, status, session),
         \A q \in Runs \ {r} : child'[q] = child[q]
  PROVE  RowsOK' /\ InFlightIsLast' /\ TaskFollowsLastRun' /\ LastRun(run[r].task, r)'
<1> DEFINE t == run[r].task
<1> USE DEF RunsInv
<1>1. /\ r \in Runs /\ t \in Created /\ t \in Tasks /\ r \in RunsOf(t)
      /\ run[r].status # "none" /\ LastRun(t, r)
  BY UnsettledFacts
<1>2. /\ run'[r].status = status /\ run'[r].task = t /\ run'[r].earlier = run[r].earlier
      /\ \A q \in Runs \ {r} : run'[q] = run[q]
      /\ task'[t].status = status
      /\ \A u \in Tasks \ {t} : task'[u] = task[u]
      /\ \A u \in Tasks : RunsOf(u)' = RunsOf(u)
      /\ InFlight' = InFlight \ {r}
      /\ Created' = Created
      /\ status \notin {"none", "running", "absent", "pending"}
  BY StoreFacts
<1>3. \A q \in InFlight \ {r} : q \in Runs /\ run[q].task \in Tasks \ {t}
  <2>1. \A q \in InFlight : q \in Unsettled
    BY DEF InFlight, Unsettled
  <2> QED BY <2>1, <1>1, UnsettledFacts, UnsettledUnique
<1>4. RowsOK'
  <2>1. \A q \in Runs : run'[q].earlier = run[q].earlier /\ run'[q].task = run[q].task
    BY <1>2
  <2> SUFFICES ASSUME NEW q \in Runs
               PROVE  IF run'[q].status = "none" THEN run'[q] = NoRun /\ child'[q] = NoChild
                      ELSE /\ run'[q].task \in Created'
                           /\ run'[q].earlier \subseteq RunsOf(run[q].task)' \ {q}
                           /\ \A p \in run'[q].earlier : q \notin run'[p].earlier
    BY <2>1 DEF RowsOK
  <2>2. CASE run[q].status = "none"
    BY <2>2, <1>1, <1>2 DEF RowsOK
  <2>3. CASE run[q].status # "none"
    <3>1. /\ run[q].task \in Created /\ run[q].task \in Tasks
          /\ run[q].earlier \subseteq RunsOf(run[q].task) \ {q}
          /\ \A p \in run[q].earlier : p \in Runs /\ q \notin run[p].earlier
      BY <2>3 DEF RowsOK, Created, RunsOf
    <3> QED BY <2>1, <2>3, <3>1, <1>2
  <2> QED BY <2>2, <2>3
<1>5. LastRun(t, r)'
  BY <1>1, <1>2 DEF LastRun
<1>6. InFlightIsLast'
  <2> SUFFICES ASSUME NEW q \in InFlight \ {r}
               PROVE  LastRun(run[q].task, q)' /\ task'[run'[q].task].status = "running"
    BY <1>2 DEF InFlightIsLast
  <2> QED BY <1>2, <1>3 DEF InFlightIsLast, LastRun
<1>7. TaskFollowsLastRun'
  <2> SUFFICES ASSUME NEW u \in Created
               PROVE  IF RunsOf(u)' = {} THEN task'[u].status = "pending"
                      ELSE \E q \in Runs : LastRun(u, q)' /\ task'[u].status = run'[q].status
    BY <1>2 DEF TaskFollowsLastRun
  <2>0. u \in Tasks
    BY DEF Created
  <2>1. CASE u = t
    BY <2>1, <1>1, <1>2, <1>5
  <2>2. CASE u # t /\ RunsOf(u) = {}
    BY <2>0, <2>2, <1>2 DEF TaskFollowsLastRun
  <2>3. CASE u # t /\ RunsOf(u) # {}
    <3>1. PICK q \in Runs : LastRun(u, q) /\ task[u].status = run[q].status
      BY <2>3 DEF TaskFollowsLastRun
    <3>2. q # r /\ LastRun(u, q)'
      BY <2>0, <2>3, <3>1, <1>2 DEF LastRun
    <3> QED BY <2>0, <2>3, <3>1, <3>2, <1>2
  <2> QED BY <2>1, <2>2, <2>3
<1> QED BY <1>4, <1>5, <1>6, <1>7

\* The agents that live on keep their controllers.
LEMMA OthersKept ==
  ASSUME RunsInv, RowsOK', NEW r \in Unsettled, hub # "down", hub' # "down",
         \A q \in Runs \ {r} : run'[q] = run[q] /\ child'[q] = child[q],
         \A u \in Tasks \ {run[r].task} : activeRuns'[u] = activeRuns[u],
         child'[r].state = "closed", run'[r].status = "running" => StoreMayFail
  PROVE  NoLostAgent' /\ RunningIsCancellable'
<1> USE DEF RunsInv
<1>1. \A q \in Runs \ {r} : q \in InFlight => run[q].task \in Tasks \ {run[r].task}
  <2>1. \A q \in InFlight : q \in Unsettled
    BY DEF InFlight, Unsettled
  <2> QED BY <2>1, UnsettledFacts, UnsettledUnique
<1>2. \A q \in Runs \ {r} : child[q].state = "alive" =>
        q \in InFlight /\ activeRuns[run[q].task] = q
  BY AliveFacts
<1>3. NoLostAgent'
  BY <1>1, <1>2 DEF NoLostAgent, InFlight
<1>4. RunningIsCancellable'
  BY <1>1 DEF RunningIsCancellable, InFlight
<1> QED BY <1>3, <1>4

\* The promise chain settles a run and lets go of it.
LEMMA SettleKeeps ==
  ASSUME RunsInv, NEW r \in Runs, Closes(r), NEW status \in Finished,
         NEW session \in Runs \cup {None}, Settle(r, status, session),
         child[r].aborted => status \notin {"completed", "attention"}
  PROVE  RunsInv'
<1> DEFINE t == run[r].task
<1> USE DEF RunsInv
<1>1. /\ r \in InFlight /\ r \in Unsettled /\ t \in Tasks /\ hub = "up" /\ hub' = "up"
      /\ Store(r, status, session) /\ Forget(r)
  BY AliveFacts DEF Closes, Settle, Unsettled, InFlight
<1>2. /\ run'[r].status = status /\ run'[r].task = t
      /\ \A q \in Runs \ {r} : run'[q] = run[q]
      /\ InFlight' = InFlight \ {r}
      /\ status \notin {"none", "running", "absent", "pending"}
  BY <1>1, StoreFacts
<1>3. /\ child' \in [Runs -> Child] /\ activeRuns' \in [Tasks -> Runs \cup {None}]
      /\ child'[r].state = "closed"
      /\ \A q \in Runs : child'[q].aborted = child[q].aborted
      /\ \A q \in Runs \ {r} : child'[q] = child[q]
      /\ activeRuns'[t] = None
      /\ \A u \in Tasks \ {t} : activeRuns'[u] = activeRuns[u]
  BY <1>1, ForgetFacts
<1>4. TypeOK'
  BY <1>1, <1>3, StoreTyped DEF TypeOK
<1>5. RowsOK' /\ InFlightIsLast' /\ TaskFollowsLastRun'
  BY <1>1, <1>3, StoreKeeps
<1>6. NoLostAgent' /\ RunningIsCancellable'
  BY <1>1, <1>2, <1>3, <1>5, OthersKept
<1>7. ControllersOK' /\ SettlingOK'
  <2>0. /\ Unsettled = InFlight /\ Unsettled' = InFlight'
        /\ \A q \in Runs : ~Settling(q)'
    BY <1>1, UnsettledInFlight
  <2> SUFFICES ASSUME NEW u \in Tasks, activeRuns'[u] # None
               PROVE  activeRuns'[u] \in InFlight' /\ run'[activeRuns'[u]].task = u
    BY <1>1, <2>0 DEF ControllersOK, SettlingOK
  <2>1. u # t /\ activeRuns'[u] = activeRuns[u]
    BY <1>3
  <2>2. activeRuns[u] \in InFlight /\ run[activeRuns[u]].task = u /\ activeRuns[u] # r
    BY <2>0, <2>1 DEF ControllersOK
  <2> QED BY <2>1, <2>2, <1>2 DEF InFlight
<1>8. AbortIsFinal'
  BY <1>2, <1>3 DEF AbortIsFinal
<1> QED BY <1>4, <1>5, <1>6, <1>7, <1>8

\* The .then stores a verdict and throws: the chain goes on to its .catch.
LEMMA ThrowsKeeps ==
  ASSUME RunsInv, NEW r \in Runs, FinishThrows(r)
  PROVE  RunsInv' /\ Unsettled' = Unsettled /\ r \in InFlight
<1> DEFINE t == run[r].task
<1> USE DEF RunsInv
<1>1. /\ r \in InFlight /\ r \in Unsettled /\ t \in Tasks /\ activeRuns[t] = r
      /\ hub = "up" /\ hub' = "settling" /\ activeRuns' = activeRuns /\ StoreMayFail
      /\ child' = [child EXCEPT ![r].state = "closed"]
  BY AliveFacts DEF FinishThrows, Closes, Unsettled, InFlight
<1>2. PICK status \in Verdicts(r) : Store(r, status, child[r].said)
  BY DEF FinishThrows
<1>3. /\ status \in Finished /\ (child[r].aborted => status \notin {"completed", "attention"})
      /\ child[r].said \in Runs \cup {None}
  BY DEF Verdicts, Finished, TypeOK, Child
<1>4. /\ run'[r].status = status /\ run'[r].task = t
      /\ \A q \in Runs \ {r} : run'[q] = run[q]
      /\ InFlight' = InFlight \ {r}
      /\ status \notin {"none", "running", "absent", "pending"}
  BY <1>1, <1>2, <1>3, StoreFacts
<1>5. /\ child' \in [Runs -> Child]
      /\ child'[r].state = "closed"
      /\ \A q \in Runs : child'[q].aborted = child[q].aborted
      /\ \A q \in Runs \ {r} : child'[q] = child[q]
  BY <1>1 DEF TypeOK, Child
<1>6. TypeOK'
  BY <1>1, <1>2, <1>3, <1>5, StoreTyped DEF TypeOK
<1>7. RowsOK' /\ InFlightIsLast' /\ TaskFollowsLastRun' /\ LastRun(t, r)'
  BY <1>1, <1>2, <1>3, <1>5, StoreKeeps
<1>8. NoLostAgent' /\ RunningIsCancellable'
  BY <1>1, <1>4, <1>5, <1>7, OthersKept
<1>9. ASSUME NEW q \in Runs PROVE Settling(q)' <=> q = r
  <2>1. Settling(r)'
    BY <1>1, <1>3, <1>4 DEF Settling
  <2>2. ASSUME Settling(q)', q # r PROVE FALSE
    <3>1. run'[q] = run[q] /\ run[q].status \in Finished /\ activeRuns[run[q].task] = q
      BY <1>1, <1>4, <2>2 DEF Settling
    <3>2. q \notin InFlight /\ run[q].task \in Tasks /\ q # None
      BY <3>1 DEF InFlight, Finished, RowsOK, Created
    <3> QED BY <1>1, <3>1, <3>2, UnsettledInFlight DEF ControllersOK
  <2> QED BY <2>1, <2>2
<1>10. Unsettled' = Unsettled
  <2>1. Unsettled = InFlight
    BY <1>1, UnsettledInFlight
  <2>2. Unsettled' = InFlight' \cup {r}
    BY <1>9, <1>1 DEF Unsettled, InFlight
  <2> QED BY <1>1, <1>4, <2>1, <2>2
<1>11. ControllersOK'
  <2>1. \A q \in Runs : run'[q].task = run[q].task
    BY <1>4
  <2>2. \A q \in Unsettled : q \in Runs
    BY UnsettledFacts
  <2> QED BY <1>1, <1>10, <2>1, <2>2 DEF ControllersOK
<1>12. SettlingOK'
  BY <1>1, <1>4, <1>5, <1>7, <1>9 DEF SettlingOK
<1>13. AbortIsFinal'
  BY <1>3, <1>4, <1>5 DEF AbortIsFinal
<1> QED BY <1>1, <1>6, <1>7, <1>8, <1>10, <1>11, <1>12, <1>13

\* The .catch settles the run once more, or leaves it, and the chain is through.
LEMMA CatchKeeps ==
  ASSUME RunsInv, NEW r \in Runs, Catch(r)
  PROVE  RunsInv' /\ Unsettled' = Unsettled \ {r} /\ r \in Unsettled
<1> DEFINE t == run[r].task
<1> USE DEF RunsInv
<1>1. /\ r \in Unsettled /\ Settling(r) /\ Forget(r) /\ StoreMayFail /\ LastRun(t, r)
      /\ hub = "settling" /\ hub' = "up" /\ run[r].status \in Finished
      /\ \A q \in Runs : Settling(q) => q = r
  <2>1. Settling(r) /\ Forget(r) /\ hub' = "up"
    BY DEF Catch
  <2>2. hub = "settling" /\ run[r].status \in Finished
    BY <2>1 DEF Settling
  <2>3. /\ StoreMayFail /\ LastRun(t, r)
        /\ \A q \in Runs : Settling(q) => q = r
    BY <2>1 DEF SettlingOK
  <2>4. r \in Unsettled
    BY <2>1 DEF Unsettled
  <2> QED BY <2>1, <2>2, <2>3, <2>4
<1>2. /\ child' \in [Runs -> Child] /\ activeRuns' \in [Tasks -> Runs \cup {None}]
      /\ child'[r].state = "closed"
      /\ \A q \in Runs : child'[q].aborted = child[q].aborted
      /\ \A q \in Runs \ {r} : child'[q] = child[q]
      /\ activeRuns'[t] = None
      /\ \A u \in Tasks \ {t} : activeRuns'[u] = activeRuns[u]
  BY <1>1, ForgetFacts
<1>3. /\ r \notin InFlight /\ t \in Tasks /\ "failed" \in Finished
      /\ Unsettled = InFlight \cup {r} /\ Unsettled' = InFlight'
      /\ \A q \in Runs : ~Settling(q)'
  BY <1>1, UnsettledFacts, UnsettledInFlight DEF InFlight, Finished, Unsettled
<1>4. /\ RowsOK' /\ InFlightIsLast' /\ TaskFollowsLastRun' /\ TypeOK'
      /\ InFlight' = InFlight
      /\ \A q \in Runs \ {r} : run'[q] = run[q]
      /\ run'[r].status \in Finished
      /\ child[r].aborted => run'[r].status \notin {"completed", "attention"}
  <2>1. CASE Store(r, "failed", None)
    <3>1. RowsOK' /\ InFlightIsLast' /\ TaskFollowsLastRun'
      BY <1>1, <1>2, <1>3, <2>1, StoreKeeps
    <3>2. TypeOK'
      BY <1>1, <1>2, <1>3, <2>1, StoreTyped DEF TypeOK
    <3>3. /\ run'[r].status = "failed" /\ InFlight' = InFlight \ {r}
          /\ \A q \in Runs \ {r} : run'[q] = run[q]
      BY <1>1, <1>3, <2>1, StoreFacts
    <3> QED BY <1>3, <3>1, <3>2, <3>3
  <2>2. CASE UNCHANGED <<task, newer, run>>
    <3>1. \A q \in Runs : child[q] = NoChild => child'[q] = NoChild
      BY <1>1, <1>2 DEF SettlingOK, NoChild
    <3>2. RowsOK' /\ InFlightIsLast' /\ TaskFollowsLastRun' /\ InFlight' = InFlight
      BY <2>2, <3>1, QuietKeeps
    <3>3. TypeOK'
      BY <1>1, <1>2, <2>2 DEF TypeOK
    <3>4. child[r].aborted => run[r].status \notin {"completed", "attention"}
      BY DEF AbortIsFinal
    <3> QED BY <1>1, <2>2, <3>2, <3>3, <3>4
  <2> QED BY <2>1, <2>2 DEF Catch
<1>5. NoLostAgent' /\ RunningIsCancellable'
  BY <1>1, <1>2, <1>4, OthersKept
<1>6. ControllersOK' /\ SettlingOK'
  <2> SUFFICES ASSUME NEW u \in Tasks, activeRuns'[u] # None
               PROVE  activeRuns'[u] \in InFlight' /\ run'[activeRuns'[u]].task = u
    BY <1>1, <1>3 DEF ControllersOK, SettlingOK
  <2>1. u # t /\ activeRuns'[u] = activeRuns[u]
    BY <1>2
  <2>2. activeRuns[u] \in Unsettled /\ run[activeRuns[u]].task = u /\ activeRuns[u] # r
    BY <2>1 DEF ControllersOK
  <2> QED BY <2>1, <2>2, <1>3, <1>4 DEF InFlight
<1>7. AbortIsFinal'
  BY <1>2, <1>4 DEF AbortIsFinal
<1>8. Unsettled' = Unsettled \ {r}
  BY <1>3, <1>4
<1> QED BY <1>1, <1>4, <1>5, <1>6, <1>7, <1>8

\* Nothing settles the run.
LEMMA LostKeeps ==
  ASSUME RunsInv, NEW r \in Runs, FinishLost(r)
  PROVE  RunsInv' /\ Unsettled' = Unsettled
<1> DEFINE t == run[r].task
<1> USE DEF RunsInv
<1>1. /\ r \in InFlight /\ r \in Unsettled /\ t \in Tasks /\ child[r].state = "alive"
      /\ hub = "up" /\ hub' = "up" /\ Forget(r) /\ StoreMayFail
      /\ UNCHANGED <<task, newer, run>>
  BY AliveFacts DEF FinishLost, Closes, Unsettled, InFlight
<1>2. /\ child' \in [Runs -> Child] /\ activeRuns' \in [Tasks -> Runs \cup {None}]
      /\ child'[r].state = "closed"
      /\ \A q \in Runs : child'[q].aborted = child[q].aborted
      /\ \A q \in Runs \ {r} : child'[q] = child[q]
      /\ activeRuns'[t] = None
      /\ \A u \in Tasks \ {t} : activeRuns'[u] = activeRuns[u]
  BY <1>1, ForgetFacts
<1>3. \A q \in Runs : child[q] = NoChild => child'[q] = NoChild
  BY <1>1, <1>2 DEF NoChild
<1>4. RowsOK' /\ InFlightIsLast' /\ TaskFollowsLastRun' /\ InFlight' = InFlight
  BY <1>1, <1>3, QuietKeeps
<1>5. TypeOK'
  BY <1>1, <1>2 DEF TypeOK
<1>6. /\ Unsettled = InFlight /\ Unsettled' = InFlight'
      /\ \A q \in Runs : ~Settling(q)'
  BY <1>1, UnsettledInFlight
<1>7. ControllersOK' /\ SettlingOK'
  BY <1>1, <1>2, <1>4, <1>6 DEF ControllersOK, SettlingOK
<1>8. NoLostAgent' /\ RunningIsCancellable'
  BY <1>1, <1>2, <1>4, OthersKept
<1>9. AbortIsFinal'
  BY <1>1, <1>2 DEF AbortIsFinal
<1> QED BY <1>4, <1>5, <1>6, <1>7, <1>8, <1>9

\* The process of the hub ends, whatever it does to the tasks.
LEMMA DieKeeps ==
  ASSUME RunsInv, Die, run' = run
  PROVE  /\ ControllersOK' /\ SettlingOK'
         /\ NoLostAgent' /\ RunningIsCancellable' /\ AbortIsFinal'
         /\ \A r \in Runs : child[r] = NoChild => child'[r] = NoChild
<1> USE DEF RunsInv
<1>1. PICK survivors \in SUBSET {r \in Runs : child[r].state = "alive"} :
        child' = [r \in Runs |->
                   IF child[r].state # "alive" THEN child[r]
                   ELSE [child[r] EXCEPT !.state =
                           IF r \in survivors THEN "orphan" ELSE "closed"]]
  BY DEF Die
<1>2. ASSUME NEW r \in Runs
      PROVE  /\ child'[r].state # "alive"
             /\ child'[r].aborted = child[r].aborted
             /\ child[r] = NoChild => child'[r] = NoChild
  <2>1. child[r] \in Child
    BY DEF TypeOK
  <2> QED BY <1>1, <2>1 DEF Child, NoChild
<1>3. hub' = "down" /\ \A t \in Tasks : activeRuns'[t] = None
  BY DEF Die
<1>4. ControllersOK' /\ SettlingOK' /\ NoLostAgent' /\ RunningIsCancellable'
  BY <1>2, <1>3 DEF ControllersOK, SettlingOK, Settling, NoLostAgent, RunningIsCancellable
<1>5. AbortIsFinal'
  BY <1>2 DEF AbortIsFinal
<1> QED BY <1>2, <1>4, <1>5

LEMMA CrashKeeps ==
  ASSUME RunsInv, Crash
  PROVE  RunsInv'
<1>1. Die /\ UNCHANGED <<task, newer, run>>
  BY DEF Crash
<1>2. TypeOK'
  BY <1>1, DieTyped DEF RunsInv, TypeOK
<1> QED BY <1>1, <1>2, DieKeeps, QuietKeeps DEF RunsInv

\* A task is inserted and no run begun.
LEMMA InsertOnlyKeeps ==
  ASSUME RunsInv, NEW t \in Tasks, task[t].status = "absent",
         NEW row \in Task, row.status = "pending", InsertOnly(t, row)
  PROVE  RunsInv'
<1> USE DEF RunsInv
<1>1. /\ run' = run
      /\ task'[t] = row
      /\ \A u \in Tasks \ {t} : task'[u] = task[u]
      /\ TypeOK'
  BY InsertOnlyTyped DEF InsertOnly, TypeOK
<1>2. /\ ControllersOK' /\ SettlingOK'
      /\ NoLostAgent' /\ RunningIsCancellable' /\ AbortIsFinal'
      /\ \A r \in Runs : child[r] = NoChild => child'[r] = NoChild
  <2>1. CASE Die
    BY <2>1, <1>1, DieKeeps
  <2>2. CASE UNCHANGED <<hub, activeRuns, child>>
    <3>1. ControllersOK' /\ SettlingOK'
      BY <2>2, <1>1, ChainsKept
    <3> QED
      BY <2>2, <3>1, <1>1 DEF NoLostAgent, RunningIsCancellable, AbortIsFinal, InFlight
  <2> QED BY <2>1, <2>2 DEF InsertOnly
<1>3. /\ Created' = Created \cup {t} /\ t \notin Created
      /\ InFlight' = InFlight
      /\ \A u \in Tasks : RunsOf(u)' = RunsOf(u)
  BY <1>1 DEF Created, InFlight, RunsOf
<1>4. RunsOf(t) = {}
  <2> SUFFICES ASSUME NEW r \in RunsOf(t) PROVE FALSE
    OBVIOUS
  <2> QED BY <1>3 DEF RunsOf, RowsOK, NoRun
<1>5. RowsOK'
  BY <1>1, <1>2, <1>3 DEF RowsOK, RunsOf
<1>6. InFlightIsLast'
  <2>1. \A r \in InFlight : run[r].task \in Tasks \ {t}
    BY <1>3 DEF RowsOK, InFlight, Created
  <2> QED BY <1>1, <1>3, <2>1 DEF InFlightIsLast, LastRun, RunsOf
<1>7. TaskFollowsLastRun'
  <2>1. ASSUME NEW u \in Created
        PROVE  IF RunsOf(u)' = {} THEN task'[u].status = "pending"
               ELSE \E r \in Runs : LastRun(u, r)' /\ task'[u].status = run'[r].status
    <3>1. u \in Tasks \ {t}
      BY <1>3 DEF Created
    <3> QED BY <3>1, <1>1, <1>3 DEF TaskFollowsLastRun, LastRun, RunsOf
  <2> QED BY <2>1, <1>1, <1>3, <1>4 DEF TaskFollowsLastRun
<1> QED BY <1>1, <1>2, <1>5, <1>6, <1>7

\* The hub starts again.
LEMMA BootKeeps ==
  ASSUME RunsInv, Boot
  PROVE  RunsInv'
<1> USE DEF RunsInv
<1>1. /\ hub = "down" /\ hub' = "up" /\ UNCHANGED <<activeRuns, child>>
      /\ Touch(SweptTasks) /\ SweptTasks \in SUBSET Tasks
  BY DEF Boot, SweptTasks
<1>2. ASSUME NEW r \in Runs
      PROVE  /\ run'[r] \in Run
             /\ run'[r].task = run[r].task /\ run'[r].earlier = run[r].earlier
             /\ run'[r].status = IF r \in InFlight THEN "interrupted" ELSE run[r].status
             /\ run[r] = NoRun => run'[r] = NoRun
  <2>1. run[r] \in Run
    BY DEF TypeOK
  <2>2. run'[r] = IF r \in InFlight THEN [run[r] EXCEPT !.status = "interrupted"] ELSE run[r]
    BY DEF Boot, SweptRuns, SweptStatus
  <2> QED BY <2>1, <2>2 DEF Run, RunStatus, Finished, NoRun, InFlight
<1>3. ASSUME NEW t \in Tasks
      PROVE  /\ task'[t] \in Task
             /\ task'[t].status = IF task[t].status = "running" THEN "interrupted"
                                  ELSE task[t].status
  <2>1. task[t] \in Task
    BY DEF TypeOK
  <2>2. task'[t] = IF task[t].status = "running" THEN [task[t] EXCEPT !.status = "interrupted"]
                   ELSE task[t]
    BY DEF Boot, SweptTasks
  <2> QED BY <2>1, <2>2 DEF Task, TaskStatus, Finished
<1>4. TypeOK'
  <2>1. run' \in [Runs -> Run] /\ task' \in [Tasks -> Task]
    BY <1>2, <1>3 DEF Boot
  <2> QED BY <1>1, <2>1, TouchTyped DEF TypeOK
<1>5. /\ InFlight' = {}
      /\ Created' = Created
      /\ \A t \in Tasks : RunsOf(t)' = RunsOf(t)
  BY <1>2, <1>3 DEF InFlight, Created, RunsOf
<1>6. RowsOK'
  <2>1. \A r \in Runs : run'[r].status = "none" <=> run[r].status = "none"
    BY <1>2 DEF InFlight
  <2> SUFFICES ASSUME NEW r \in Runs
               PROVE  IF run'[r].status = "none" THEN run'[r] = NoRun /\ child'[r] = NoChild
                      ELSE /\ run'[r].task \in Created'
                           /\ run'[r].earlier \subseteq RunsOf(run[r].task)' \ {r}
                           /\ \A q \in run'[r].earlier : r \notin run'[q].earlier
    BY <1>2 DEF RowsOK
  <2>2. CASE run[r].status = "none"
    BY <2>1, <2>2, <1>1, <1>2 DEF RowsOK
  <2>3. CASE run[r].status # "none"
    <3>1. /\ run[r].task \in Created /\ run[r].task \in Tasks
          /\ run[r].earlier \subseteq RunsOf(run[r].task) \ {r}
          /\ \A q \in run[r].earlier : q \in Runs /\ r \notin run[q].earlier
      BY <2>3 DEF RowsOK, Created, RunsOf
    <3> QED BY <2>1, <2>3, <3>1, <1>2, <1>5
  <2> QED BY <2>2, <2>3
<1>7. TaskFollowsLastRun'
  <2> SUFFICES ASSUME NEW t \in Created
               PROVE  IF RunsOf(t)' = {} THEN task'[t].status = "pending"
                      ELSE \E r \in Runs : LastRun(t, r)' /\ task'[t].status = run'[r].status
    BY <1>5 DEF TaskFollowsLastRun
  <2>0. t \in Tasks
    BY DEF Created
  <2>1. CASE RunsOf(t) = {}
    BY <2>0, <2>1, <1>3, <1>5 DEF TaskFollowsLastRun
  <2>2. CASE RunsOf(t) # {}
    <3>1. PICK r \in Runs : LastRun(t, r) /\ task[t].status = run[r].status
      BY <2>2 DEF TaskFollowsLastRun
    <3>2. LastRun(t, r)'
      BY <2>0, <3>1, <1>2, <1>5 DEF LastRun
    <3>3. task'[t].status = run'[r].status
      BY <2>0, <3>1, <1>2, <1>3 DEF InFlight
    <3> QED BY <2>0, <2>2, <3>2, <3>3, <1>5
  <2> QED BY <2>1, <2>2
<1>8. InFlightIsLast' /\ RunningIsCancellable'
  BY <1>5 DEF InFlightIsLast, RunningIsCancellable
<1>9. (\A r \in Runs : child[r].state # "alive") /\ (\A t \in Tasks : activeRuns[t] = None)
  BY <1>1 DEF NoLostAgent, ControllersOK
<1>10. ControllersOK' /\ SettlingOK' /\ NoLostAgent'
  BY <1>1, <1>9 DEF ControllersOK, SettlingOK, Settling, NoLostAgent
<1>11. AbortIsFinal'
  BY <1>1, <1>2 DEF AbortIsFinal
<1> QED BY <1>4, <1>6, <1>7, <1>8, <1>10, <1>11
-----------------------------------------------------------------------------
(* The inductive invariant *)

LEMMA InitEstablishes == Init => RunsInv
<1> SUFFICES ASSUME Init PROVE RunsInv
  OBVIOUS
<1> USE DEF Init
<1>1. TypeOK
  BY ConstantRecords DEF TypeOK
<1>2. Created = {} /\ InFlight = {}
  BY DEF Created, InFlight, NoTask, NoRun
<1>3. RowsOK /\ ControllersOK /\ SettlingOK
  BY DEF RowsOK, NoRun, ControllersOK, SettlingOK, Settling
<1>4. NoLostAgent /\ AbortIsFinal
  BY DEF NoLostAgent, AbortIsFinal, NoChild
<1> QED
  BY <1>1, <1>2, <1>3, <1>4
  DEF RunsInv, InFlightIsLast, TaskFollowsLastRun, RunningIsCancellable

\* The rows the launches insert are pending, and of tasks that were absent.
LEMMA NewRowsPending ==
  /\ \A q \in Request, port \in Blocks : NewTask(q, port).status = "pending"
  /\ \A d \in Dates, runner \in Runners, port \in Blocks :
       NewDailyTask(d, runner, port).status = "pending"
  BY DEF NewTask, NewDailyTask, NoTask

LEMMA LaunchKeeps ==
  ASSUME RunsInv, NEW t \in Tasks, NEW r \in Runs, NEW row \in Task,
         hub = "up", task[t].status = "absent", Launch(t, r, row)
  PROVE  RunsInv'
<1>1. TypeOK'
  BY LaunchTyped DEF RunsInv
<1>2. ~HasRunningRun(t)
  BY DEF RunsInv, RowsOK, HasRunningRun, RunsOf, InFlight, Created
<1>3. task'[t].status = "running" /\ \A u \in Tasks \ {t} : task'[u] = task[u]
  <2>1. [row EXCEPT !.status = "running"].status = "running"
    BY DEF Task
  <2> QED BY <2>1 DEF Launch, RunsInv, TypeOK
<1> QED
  BY <1>1, <1>2, <1>3, BeginKeeps DEF Launch

LEMMA ContinueKeeps ==
  ASSUME RunsInv, NEW t \in Tasks, NEW r \in Runs, Continue(t, r)
  PROVE  RunsInv'
<1>1. task[t] \in Task
  BY DEF RunsInv, TypeOK
<1>2. /\ [task[t] EXCEPT !.status = "running"] \in Task
      /\ [task[t] EXCEPT !.status = "running"].status = "running"
  BY <1>1 DEF Task, TaskStatus, Active
<1>3. NewRun(t, r, ContinueKind(t), ContinueSession(t, r)) \in Run
  <2>1. /\ ContinueKind(t) \in {"launch", "continue"}
        /\ ContinueSession(t, r) \in Runs \cup {None}
    BY <1>1 DEF ContinueKind, ContinueSession, PlannedSession, Task
  <2> QED BY <2>1, NewRunTyped DEF RunsInv
<1>4. task'[t].status = "running" /\ \A u \in Tasks \ {t} : task'[u] = task[u]
  BY <1>2 DEF Continue, RunsInv, TypeOK
<1>5. TypeOK'
  <2>1. PICK agent \in Agents : child' = [child EXCEPT ![r] = agent]
    BY DEF Continue
  <2>2. child' \in [Runs -> Child]
    BY <2>1, AgentFacts DEF RunsInv, TypeOK
  <2> QED BY <1>2, <1>3, <2>2, TouchTyped DEF Continue, RunsInv, TypeOK
<1> QED
  BY <1>4, <1>5, BeginKeeps DEF Continue

LEMMA NextKeeps == RunsInv /\ [Next]_vars => RunsInv'
<1> SUFFICES ASSUME RunsInv, [Next]_vars PROVE RunsInv'
  OBVIOUS
<1>1. ASSUME NEW t \in Tasks, NEW r \in Runs, Delegate(t, r)
      PROVE  RunsInv'
  <2>1. PICK q \in Request, port \in Blocks :
          Accepts(t, q, port) /\ Launch(t, r, NewTask(q, port))
    BY <1>1 DEF Delegate
  <2> QED BY <2>1, NewRowsTyped, LaunchKeeps DEF Accepts, RunsInv
<1>2. ASSUME NEW t \in Tasks, NEW r \in Runs, GenerateDaily(t, r)
      PROVE  RunsInv'
  <2>1. PICK d \in Dates, runner \in Runners, port \in Blocks :
          AcceptsDaily(t, d, port) /\ Launch(t, r, NewDailyTask(d, runner, port))
    BY <1>2 DEF GenerateDaily
  <2> QED BY <2>1, NewRowsTyped, LaunchKeeps DEF AcceptsDaily, RunsInv
<1>3. ASSUME NEW t \in Tasks, NEW r \in Runs, Continue(t, r)
      PROVE  RunsInv'
  BY <1>3, ContinueKeeps
<1>4. ASSUME NEW t \in Tasks, DelegateCut(t)
      PROVE  RunsInv'
  <2>1. CASE \E q \in Request, port \in Blocks :
               Accepts(t, q, port) /\ InsertOnly(t, NewTask(q, port))
    BY <2>1, NewRowsTyped, NewRowsPending, InsertOnlyKeeps DEF Accepts, RunsInv
  <2>2. CASE \E d \in Dates, runner \in Runners, port \in Blocks :
               AcceptsDaily(t, d, port) /\ InsertOnly(t, NewDailyTask(d, runner, port))
    BY <2>2, NewRowsTyped, NewRowsPending, InsertOnlyKeeps DEF AcceptsDaily, RunsInv
  <2> QED BY <1>4, <2>1, <2>2 DEF DelegateCut
<1>5. ASSUME NEW t \in Tasks, Cancel(t)
      PROVE  RunsInv'
  BY <1>5, AbortKeeps DEF Cancel
<1>6. ASSUME NEW t \in Tasks, Archive(t) \/ Unarchive(t)
      PROVE  RunsInv'
  BY <1>6, ArchiveKeeps
<1>7. ASSUME NEW r \in Runs, AgentSays(r) \/ OrphanEnds(r)
      PROVE  RunsInv'
  BY <1>7, AgentKeeps
<1>8. ASSUME NEW r \in Runs, Timeout(r)
      PROVE  RunsInv'
  BY <1>8, AbortKeeps DEF Timeout
<1>9. ASSUME NEW r \in Runs, Finish(r)
      PROVE  RunsInv'
  <2>1. PICK verdict \in Verdicts(r) : Settle(r, verdict, child[r].said)
    BY <1>9 DEF Finish
  <2>2. Closes(r) /\ child[r].said \in Runs \cup {None}
    BY <1>9 DEF Finish, RunsInv, TypeOK, Child
  <2>3. verdict \in Finished /\ (child[r].aborted => verdict \notin {"completed", "attention"})
    BY DEF Verdicts, Finished
  <2> QED BY <2>1, <2>2, <2>3, SettleKeeps
<1>10. ASSUME NEW r \in Runs, FinishCaught(r)
       PROVE  RunsInv'
  <2>1. Closes(r) /\ Settle(r, "failed", None) /\ "failed" \in Finished
    BY <1>10 DEF FinishCaught, Finished
  <2> QED BY <2>1, SettleKeeps
<1>11. ASSUME NEW r \in Runs, FinishLost(r) \/ FinishThrows(r) \/ Catch(r)
       PROVE  RunsInv'
  BY <1>11, LostKeeps, ThrowsKeeps, CatchKeeps
<1>12. CASE Shutdown
  BY <1>12, AbortKeeps DEF Shutdown
<1>13. CASE Crash
  BY <1>13, CrashKeeps
<1>14. CASE Boot
  BY <1>14, BootKeeps
<1>15. CASE UNCHANGED vars
  BY <1>15 DEF vars, RunsInv, TypeOK, RowsOK, InFlightIsLast, TaskFollowsLastRun, LastRun,
               RunsOf, InFlight, Created, ControllersOK, SettlingOK, Settling, Unsettled,
               NoLostAgent, RunningIsCancellable, AbortIsFinal
<1> QED
  BY <1>1, <1>2, <1>3, <1>4, <1>5, <1>6, <1>7, <1>8, <1>9, <1>10, <1>11, <1>12, <1>13,
     <1>14, <1>15 DEF Next

\* The inductive invariant holds in every reachable state.
THEOREM Inductive == Spec => []RunsInv
  BY InitEstablishes, NextKeeps, PTL DEF Spec

\* Every variable keeps its type.
THEOREM TypeCorrect == Spec => []TypeOK
<1>1. RunsInv => TypeOK
  BY DEF RunsInv
<1> QED BY <1>1, Inductive, PTL

\* beginRun's transaction does what it is for: a task never has two runs in
\* flight, for any number of tasks, runs, crashes and failing writes.
THEOREM AtMostOneRun == Spec => []OneRunInFlight
<1>1. RunsInv => OneRunInFlight
  BY InFlightUnique DEF OneRunInFlight
<1> QED BY <1>1, Inductive, PTL

\* The status of a task is that of its last run.
THEOREM StatusFollows == Spec => []TaskFollowsLastRun
<1>1. RunsInv => TaskFollowsLastRun
  BY DEF RunsInv
<1> QED BY <1>1, Inductive, PTL

\* Every agent of the hub that is alive can be aborted.
THEOREM AgentsAreHeld == Spec => []NoLostAgent
<1>1. RunsInv => NoLostAgent
  BY DEF RunsInv
<1> QED BY <1>1, Inductive, PTL

\* While the hub is up, cancel reaches the agent of every run in flight, failures
\* of the store at the spawn or at both ends of the chain excepted.
THEOREM Cancellable == Spec => []RunningIsCancellable
<1>1. RunsInv => RunningIsCancellable
  BY DEF RunsInv
<1> QED BY <1>1, Inductive, PTL

\* A run that was aborted never ends as a success.
THEOREM AbortedNeverSucceeds == Spec => []AbortIsFinal
<1>1. RunsInv => AbortIsFinal
  BY DEF RunsInv
<1> QED BY <1>1, Inductive, PTL
-----------------------------------------------------------------------------
(* What a step does to the runs *)

\* What a step does to the runs, and to the set of those without a final verdict:
\* nothing, one begins, one is settled, a verdict is stored that may yet change,
\* or all are swept.
Begins(t, r) ==
  \E kind, session :
    /\ run[r].status = "none" /\ RunsOf(t) \cap Unsettled = {}
    /\ run' = [run EXCEPT ![r] = NewRun(t, r, kind, session)]
    /\ Unsettled' = Unsettled \cup {r}

Stores(r, status) ==
  \E session \in Runs \cup {None} :
    run' = [run EXCEPT ![r].status = status, ![r].session = Coalesce(session, @)]

Ends(r, status) ==
  /\ \/ r \in InFlight /\ Stores(r, status)
     \/ /\ Settling(r) /\ hub' = "up" /\ status = "failed"
        /\ run' = [run EXCEPT ![r].status = "failed", ![r].session = Coalesce(None, @)]
     \/ Settling(r) /\ run' = run /\ status = run[r].status
  /\ Unsettled' = Unsettled \ {r}

Swept ==
  /\ run' = [r \in Runs |-> IF r \in InFlight
                            THEN [run[r] EXCEPT !.status = "interrupted"] ELSE run[r]]
  /\ Unsettled = InFlight /\ Unsettled' = {}

LEMMA DieUnsettles ==
  ASSUME RunsInv, Die, run' = run
  PROVE  Unsettled' = InFlight
  BY DEF Die, Unsettled, Settling, InFlight

LEMMA RunSteps ==
  ASSUME RunsInv, [Next]_vars
  PROVE  \/ run' = run /\ Unsettled' = Unsettled
         \/ \E t \in Tasks, r \in Runs : Begins(t, r)
         \/ \E r \in Unsettled, status \in Finished : Ends(r, status)
         \/ \E r \in InFlight, status \in Finished : Stores(r, status) /\ Unsettled' = Unsettled
         \/ Swept
<1>0. RunsInv'
  BY NextKeeps
<1>1. ASSUME NEW t \in Tasks, NEW r \in Runs, ~HasRunningRun(t), hub = "up", hub' = hub,
             run[r].status = "none", NEW kind, NEW session,
             run' = [run EXCEPT ![r] = NewRun(t, r, kind, session)]
      PROVE  Begins(t, r)
  <2>1. Unsettled = InFlight /\ Unsettled' = InFlight'
    BY <1>1, UnsettledInFlight
  <2>2. run'[r].status = "running" /\ \A q \in Runs \ {r} : run'[q] = run[q]
    BY <1>1 DEF RunsInv, TypeOK, NewRun
  <2>3. InFlight' = InFlight \cup {r}
    BY <2>2 DEF InFlight
  <2> QED BY <1>1, <2>1, <2>3 DEF Begins, HasRunningRun
<1>2. ASSUME NEW t \in Tasks, NEW r \in Runs, NEW row, Launch(t, r, row), task[t].status = "absent",
             hub = "up"
      PROVE  Begins(t, r)
  <2>1. ~HasRunningRun(t)
    BY <1>2 DEF RunsInv, RowsOK, HasRunningRun, RunsOf, InFlight, Created
  <2> QED BY <1>1, <1>2, <2>1 DEF Launch
<1>3. CASE \E t \in Tasks, r \in Runs : Delegate(t, r) \/ GenerateDaily(t, r)
  BY <1>2, <1>3 DEF Delegate, GenerateDaily, Accepts, AcceptsDaily
<1>4. CASE \E t \in Tasks, r \in Runs : Continue(t, r)
  <2>1. PICK t \in Tasks, r \in Runs : Continue(t, r)
    BY <1>4
  <2>2. /\ ~HasRunningRun(t) /\ hub = "up" /\ hub' = hub /\ run[r].status = "none"
        /\ run' = [run EXCEPT ![r] = NewRun(t, r, ContinueKind(t), ContinueSession(t, r))]
    BY <2>1, Zenon DEF Continue
  <2>3. Begins(t, r)
    BY <1>1, <2>2, Zenon
  <2> QED BY <2>3
<1>5. ASSUME Die, run' = run
      PROVE  \/ run' = run /\ Unsettled' = Unsettled
             \/ \E r \in Unsettled, status \in Finished : Ends(r, status)
  <2>1. Unsettled' = InFlight
    BY <1>5, DieUnsettles
  <2>2. CASE \E r \in Runs : Settling(r)
    <3>1. PICK r \in Runs : Settling(r)
      BY <2>2
    <3>2. Unsettled = InFlight \cup {r} /\ r \notin InFlight /\ run[r].status \in Finished
      BY <3>1 DEF RunsInv, SettlingOK, Settling, Unsettled, InFlight, Finished
    <3>3. Ends(r, run[r].status)
      BY <1>5, <2>1, <3>1, <3>2 DEF Ends
    <3> QED BY <3>2, <3>3
  <2>3. CASE \A r \in Runs : ~Settling(r)
    BY <1>5, <2>1, <2>3 DEF Unsettled, InFlight
  <2> QED BY <2>2, <2>3
<1>6. CASE \/ \E t \in Tasks : Cancel(t) \/ Archive(t) \/ Unarchive(t)
           \/ \E r \in Runs : AgentSays(r) \/ Timeout(r) \/ OrphanEnds(r)
           \/ Shutdown \/ UNCHANGED vars
  <2>1. run' = run /\ hub' = hub /\ activeRuns' = activeRuns
    BY <1>6 DEF Cancel, Archive, Unarchive, AgentSays, Timeout, OrphanEnds, Shutdown, Abort, vars
  <2> QED BY <2>1 DEF Unsettled, Settling
<1>7. CASE \E t \in Tasks : DelegateCut(t)
  <2>0. PICK t \in Tasks : DelegateCut(t)
    BY <1>7
  <2>1. PICK row : InsertOnly(t, row)
    BY <2>0 DEF DelegateCut
  <2>2. run' = run /\ (Die \/ (hub' = hub /\ activeRuns' = activeRuns))
    BY <2>1 DEF InsertOnly
  <2> QED BY <1>5, <2>2 DEF Unsettled, Settling
<1>8. CASE \E r \in Runs : Finish(r) \/ FinishCaught(r)
  <2>1. PICK r \in Runs : Finish(r) \/ FinishCaught(r)
    BY <1>8
  <2>2. PICK status \in Finished, session \in Runs \cup {None} : Settle(r, status, session)
    BY <2>1 DEF Finish, FinishCaught, Verdicts, Finished, RunsInv, TypeOK, Child
  <2>3. r \in InFlight /\ r \in Unsettled /\ hub = "up" /\ hub' = "up"
    BY <2>1, <2>2, AliveFacts DEF Finish, FinishCaught, Closes, Settle, Unsettled, InFlight
  <2>4. Unsettled = InFlight /\ Unsettled' = InFlight'
    BY <2>3, UnsettledInFlight
  <2>5. InFlight' = InFlight \ {r} /\ Stores(r, status)
    BY <2>2, <2>3, StoreFacts DEF Settle, Store, Stores
  <2> QED BY <2>3, <2>4, <2>5 DEF Ends
<1>9. CASE \E r \in Runs : FinishThrows(r)
  <2>1. PICK r \in Runs : FinishThrows(r)
    BY <1>9
  <2>2. PICK status \in Verdicts(r) : Store(r, status, child[r].said)
    BY <2>1 DEF FinishThrows
  <2>3. status \in Finished /\ Stores(r, status)
    BY <2>2 DEF Verdicts, Finished, Store, Stores, RunsInv, TypeOK, Child
  <2> QED BY <2>1, <2>3, ThrowsKeeps
<1>10. CASE \E r \in Runs : Catch(r)
  <2>1. PICK r \in Runs : Catch(r)
    BY <1>10
  <2>2. r \in Unsettled /\ Unsettled' = Unsettled \ {r}
    BY <2>1, CatchKeeps
  <2>3. /\ Settling(r) /\ hub' = "up" /\ run[r].status \in Finished /\ "failed" \in Finished
        /\ \/ run' = run
           \/ run' = [run EXCEPT ![r].status = "failed", ![r].session = Coalesce(None, @)]
    BY <2>1 DEF Catch, Settling, Store, Finished
  <2>4. Ends(r, "failed") \/ Ends(r, run[r].status)
    BY <2>2, <2>3 DEF Ends
  <2> QED BY <2>2, <2>3, <2>4
<1>11. CASE \E r \in Runs : FinishLost(r)
  <2>1. PICK r \in Runs : FinishLost(r)
    BY <1>11
  <2> QED BY <2>1, LostKeeps DEF FinishLost
<1>12. CASE Crash
  BY <1>5, <1>12 DEF Crash
<1>13. CASE Boot
  <2>1. hub = "down" /\ hub' = "up"
    BY <1>13 DEF Boot
  <2>2. Unsettled = InFlight /\ Unsettled' = InFlight'
    BY <2>1, UnsettledInFlight
  <2>3. run' = [r \in Runs |-> IF r \in InFlight
                               THEN [run[r] EXCEPT !.status = "interrupted"] ELSE run[r]]
    BY <1>13 DEF Boot, SweptRuns, SweptStatus
  <2>4. InFlight' = {}
    BY <2>3 DEF InFlight, RunsInv, TypeOK, Run
  <2> QED BY <2>2, <2>3, <2>4 DEF Swept
<1>14. \/ \E t \in Tasks, r \in Runs : Delegate(t, r) \/ GenerateDaily(t, r)
       \/ \E t \in Tasks, r \in Runs : Continue(t, r)
       \/ \/ \E t \in Tasks : Cancel(t) \/ Archive(t) \/ Unarchive(t)
          \/ \E r \in Runs : AgentSays(r) \/ Timeout(r) \/ OrphanEnds(r)
          \/ Shutdown \/ UNCHANGED vars
       \/ \E t \in Tasks : DelegateCut(t)
       \/ \E r \in Runs : Finish(r) \/ FinishCaught(r)
       \/ \E r \in Runs : FinishThrows(r)
       \/ \E r \in Runs : Catch(r)
       \/ \E r \in Runs : FinishLost(r)
       \/ Crash
       \/ Boot
  BY DEF Next
<1> QED
  BY <1>3, <1>4, <1>6, <1>7, <1>8, <1>9, <1>10, <1>11, <1>12, <1>13, <1>14, Zenon

\* Once a run has a verdict nothing changes it but the .catch of its own promise
\* chain, which may turn it into "failed" before it lets go of the run.
THEOREM VerdictsNeverChange == Spec => VerdictsStand
<1>1. RunsInv /\ [Next]_vars
        => [\A r \in Runs : run[r].status \in Finished =>
              \/ run'[r] = run[r]
              \/ /\ hub = "settling" /\ activeRuns[run[r].task] = r
                 /\ hub' = "up" /\ run'[r] = [run[r] EXCEPT !.status = "failed"]]_vars
  <2> SUFFICES ASSUME RunsInv, [Next]_vars, NEW r \in Runs, run[r].status \in Finished
               PROVE  \/ run'[r] = run[r]
                      \/ /\ hub = "settling" /\ activeRuns[run[r].task] = r
                         /\ hub' = "up" /\ run'[r] = [run[r] EXCEPT !.status = "failed"]
    OBVIOUS
  <2>1. r \notin InFlight /\ run[r].status # "none" /\ run \in [Runs -> Run]
    BY DEF InFlight, Finished, RunsInv, TypeOK
  <2>2. \A q \in InFlight : q \in Runs
    BY DEF InFlight
  <2>3. CASE \E t \in Tasks, q \in Runs : Begins(t, q)
    BY <2>1, <2>3 DEF Begins
  <2>4. CASE \E q \in InFlight, status \in Finished : Stores(q, status)
    BY <2>1, <2>2, <2>4 DEF Stores
  <2>5. CASE Swept
    BY <2>1, <2>5 DEF Swept
  <2>6. CASE \E q \in Unsettled, status \in Finished : Ends(q, status)
    <3>1. PICK q \in Unsettled, status \in Finished : Ends(q, status)
      BY <2>6
    <3>2. CASE q \in InFlight /\ Stores(q, status)
      BY <2>4, <3>2
    <3>3. CASE /\ Settling(q) /\ hub' = "up"
               /\ run' = [run EXCEPT ![q].status = "failed", ![q].session = Coalesce(None, @)]
      <4>1. CASE q # r
        BY <2>1, <3>3, <4>1
      <4>2. CASE q = r
        <5>1. run[r] \in Run
          BY <2>1
        <5>2. run'[r] = [run[r] EXCEPT !.status = "failed"]
          BY <2>1, <3>3, <4>2, <5>1 DEF Coalesce, Run
        <5> QED BY <3>3, <4>2, <5>2 DEF Settling
      <4> QED BY <4>1, <4>2
    <3>4. CASE run' = run
      BY <3>4
    <3> QED BY <3>1, <3>2, <3>3, <3>4 DEF Ends
  <2> QED BY <2>3, <2>4, <2>5, <2>6, RunSteps
<1> QED BY <1>1, Inductive, PTL DEF Spec, VerdictsStand
-----------------------------------------------------------------------------
(* Delegation implements TaskLedger *)

\* What Open says: the open run of a task is the one without a final verdict.
OpenOK ==
  \A t \in Tasks :
    /\ \A r \in Unsettled : run[r].task = t => Open(t) = r
    /\ Open(t) # None => Open(t) \in Unsettled /\ run[Open(t)].task = t
    /\ Open(t) = None <=> RunsOf(t) \cap Unsettled = {}

LEMMA OpenFacts == RunsInv => OpenOK
<1> SUFFICES ASSUME RunsInv, NEW t \in Tasks
             PROVE  /\ \A r \in Unsettled : run[r].task = t => Open(t) = r
                    /\ Open(t) # None => Open(t) \in Unsettled /\ run[Open(t)].task = t
                    /\ Open(t) = None <=> RunsOf(t) \cap Unsettled = {}
  BY DEF OpenOK
<1>0. \A r \in Unsettled : run[r].task = t => r \in RunsOf(t)
  BY UnsettledFacts
<1>1. CASE RunsOf(t) \cap Unsettled # {}
  <2>1. PICK r \in RunsOf(t) : r \in Unsettled
    BY <1>1
  <2>2. \A q \in RunsOf(t) : q \in Unsettled => q = r
    BY <2>1, UnsettledUnique DEF RunsOf
  <2>3. Open(t) = r
    BY <1>1, <2>1, <2>2 DEF Open
  <2>4. r \in Runs /\ r # None /\ run[r].task = t
    BY <2>1 DEF RunsOf
  <2> QED BY <1>0, <1>1, <2>1, <2>2, <2>3, <2>4
<1>2. CASE RunsOf(t) \cap Unsettled = {}
  BY <1>0, <1>2 DEF Open
<1> QED BY <1>1, <1>2

LEMMA OpenFactsNext == RunsInv' => OpenOK'
  BY OpenFacts, PTL

\* A step that settles no run of task u and changes no verdict of it.
LEMMA LedgerElsewhere ==
  ASSUME RunsInv, RunsInv', NEW u \in Tasks,
         RunsOf(u)' = RunsOf(u),
         \A r \in RunsOf(u) : /\ r \in Unsettled' <=> r \in Unsettled
                              /\ r \notin Unsettled => run'[r].status = run[r].status
  PROVE  Open(u)' = Open(u) /\ Verdict(u)' = Verdict(u)
<1>1. Verdict(u)' = Verdict(u)
  <2>1. RunsOf(u)' \ Unsettled' = RunsOf(u) \ Unsettled
    OBVIOUS
  <2> QED BY <2>1 DEF Verdict
<1>2. Open(u)' = Open(u)
  <2>1. CASE RunsOf(u) \cap Unsettled = {}
    BY <2>1, OpenFacts, OpenFactsNext DEF OpenOK
  <2>2. CASE RunsOf(u) \cap Unsettled # {}
    <3>1. PICK r \in RunsOf(u) : r \in Unsettled
      BY <2>2
    <3>2. r \in Unsettled' /\ run'[r].task = u /\ run[r].task = u
      BY <3>1 DEF RunsOf
    <3> QED BY <3>1, <3>2, OpenFacts, OpenFactsNext DEF OpenOK
  <2> QED BY <2>1, <2>2
<1> QED BY <1>1, <1>2

LEMMA BeginsInLedger ==
  ASSUME RunsInv, RunsInv', NEW t \in Tasks, NEW r \in Runs, NEW kind, NEW session,
         run[r].status = "none", RunsOf(t) \cap Unsettled = {},
         run' = [run EXCEPT ![r] = NewRun(t, r, kind, session)],
         Unsettled' = Unsettled \cup {r}
  PROVE  Ledger!Begin(t, r)
<1>1. /\ run'[r].task = t /\ run'[r].status = "running"
      /\ \A q \in Runs \ {r} : run'[q] = run[q]
  BY DEF RunsInv, TypeOK, NewRun
<1>2. \A u \in Tasks : r \notin RunsOf(u)
  BY DEF RunsInv, RowsOK, RunsOf, NoRun
<1>3. /\ RunsOf(t)' = RunsOf(t) \cup {r}
      /\ \A u \in Tasks \ {t} : RunsOf(u)' = RunsOf(u)
  BY <1>1, <1>2 DEF RunsOf
<1>4. Open(t) = None /\ Open(t)' = r
  BY <1>1, <1>3, OpenFacts, OpenFactsNext DEF OpenOK
<1>5. Verdict(t)' = Verdict(t)
  <2>1. RunsOf(t)' \ Unsettled' = RunsOf(t) \ Unsettled
    BY <1>2, <1>3
  <2>2. \A q \in RunsOf(t) : run'[q].status = run[q].status
    BY <1>1, <1>2 DEF RunsOf
  <2> QED BY <2>1, <2>2 DEF Verdict
<1>6. \A u \in Tasks \ {t} : Open(u)' = Open(u) /\ Verdict(u)' = Verdict(u)
  <2>1. \A u \in Tasks : \A q \in RunsOf(u) :
          run'[q].status = run[q].status /\ (q \in Unsettled' <=> q \in Unsettled)
    BY <1>1, <1>2 DEF RunsOf
  <2> QED BY <2>1, <1>3, LedgerElsewhere
<1>7. \A u \in Tasks : Open(u) # r
  BY OpenFacts, UnsettledFacts DEF OpenOK
<1>8. \A u \in Tasks, v \in Ledger!Verdicts : <<r, v>> \notin Verdict(u)
  BY <1>2 DEF Verdict
<1>9. r \notin Ledger!Used
  BY <1>7, <1>8 DEF Ledger!Used
<1> QED BY <1>4, <1>5, <1>6, <1>9 DEF Ledger!Begin

\* A run gets its final verdict.
LEMMA EndsInLedger ==
  ASSUME RunsInv, RunsInv', NEW t \in Tasks, NEW r \in Unsettled, NEW status \in Finished,
         run[r].task = t, Ends(r, status)
  PROVE  Ledger!Close({t}, status) /\ Open(t) # None
<1>1. r \in Runs /\ r \in RunsOf(t) /\ run[r] \in Run
  BY UnsettledFacts DEF RunsInv, TypeOK
<1>2. /\ run'[r].task = t /\ run'[r].status = status
      /\ \A q \in Runs \ {r} : run'[q] = run[q]
      /\ Unsettled' = Unsettled \ {r}
  <2>1. CASE run' = run /\ status = run[r].status
    BY <2>1 DEF Ends
  <2>2. CASE \E session \in Runs \cup {None} :
               run' = [run EXCEPT ![r].status = status, ![r].session = Coalesce(session, @)]
    BY <1>1, <2>2 DEF RunsInv, TypeOK, Run, Ends
  <2> QED BY <2>1, <2>2 DEF Ends, Stores
<1>3. \A u \in Tasks : RunsOf(u)' = RunsOf(u)
  BY <1>1, <1>2, ZenonT(60) DEF RunsOf
<1>4. Open(t) = r /\ r # None
  BY <1>1, OpenFacts DEF OpenOK
<1>5. Open(t)' = None
  <2>1. RunsOf(t)' \cap Unsettled' = {}
    BY <1>1, <1>2, <1>3, UnsettledUnique DEF RunsOf
  <2> QED BY <1>1, <2>1, OpenFactsNext DEF OpenOK
<1>6. Verdict(t)' = Verdict(t) \cup {<<r, status>>}
  <2>1. RunsOf(t)' \ Unsettled' = (RunsOf(t) \ Unsettled) \cup {r}
    BY <1>1, <1>2, <1>3
  <2> DEFINE R == RunsOf(t) \ Unsettled
  <2>2. \A q \in R : run'[q].status = run[q].status
    BY <1>1, <1>2 DEF RunsOf
  <2>3. {<<q, run'[q].status>> : q \in R \cup {r}}
          = {<<q, run[q].status>> : q \in R} \cup {<<r, status>>}
    <3> HIDE DEF R
    <3>1. run'[r].status = status
      BY <1>2
    <3> QED BY <2>2, <3>1
  <2>4. Verdict(t)' = {<<q, run'[q].status>> : q \in R \cup {r}}
    BY <2>1 DEF Verdict
  <2> QED BY <2>3, <2>4 DEF Verdict
<1>7. \A u \in Tasks \ {t} : Open(u)' = Open(u) /\ Verdict(u)' = Verdict(u)
  <2>1. \A u \in Tasks \ {t} : \A q \in RunsOf(u) :
          run'[q].status = run[q].status /\ (q \in Unsettled' <=> q \in Unsettled)
    BY <1>2 DEF RunsOf
  <2> QED BY <2>1, <1>3, LedgerElsewhere
<1> QED BY <1>4, <1>5, <1>6, <1>7 DEF Ledger!Close

LEMMA SweepsInLedger ==
  ASSUME RunsInv, RunsInv', Swept
  PROVE  Ledger!Close({t \in Tasks : Open(t) # None}, "interrupted")
<1>0. Unsettled = InFlight /\ Unsettled' = {}
  BY DEF Swept
<1>1. ASSUME NEW r \in Runs
      PROVE  /\ run'[r].task = run[r].task
             /\ run'[r].status = IF r \in Unsettled THEN "interrupted" ELSE run[r].status
  BY <1>0 DEF Swept, RunsInv, TypeOK, Run
<1>2. \A u \in Tasks : RunsOf(u)' = RunsOf(u)
  BY <1>1 DEF RunsOf
<1>3. ASSUME NEW t \in Tasks, Open(t) # None
      PROVE  Open(t)' = None /\ Verdict(t)' = Verdict(t) \cup {<<Open(t), "interrupted">>}
  <2>1. Open(t) \in Unsettled /\ run[Open(t)].task = t
    BY <1>3, OpenFacts DEF OpenOK
  <2>2. RunsOf(t) = (RunsOf(t) \ Unsettled) \cup {Open(t)}
    BY <2>1, UnsettledUnique, UnsettledFacts DEF RunsOf
  <2>3. Open(t)' = None
    BY <1>0, <1>2, OpenFactsNext DEF OpenOK
  <2>4. Verdict(t)' = {<<q, run'[q].status>> : q \in RunsOf(t)}
    BY <1>0, <1>2 DEF Verdict
  <2>5. \A q \in RunsOf(t) \ Unsettled : run'[q].status = run[q].status
    BY <1>1 DEF RunsOf
  <2>6. run'[Open(t)].status = "interrupted"
    BY <1>1, <2>1, UnsettledFacts
  <2> DEFINE o == Open(t)
             R == RunsOf(t) \ Unsettled
  <2>7. {<<q, run'[q].status>> : q \in R \cup {o}}
          = {<<q, run[q].status>> : q \in R} \cup {<<o, "interrupted">>}
    <3> HIDE DEF o, R
    <3>1. \A q \in R : run'[q].status = run[q].status
      BY <2>5 DEF R
    <3>2. run'[o].status = "interrupted"
      BY <2>6 DEF o
    <3> QED BY <3>1, <3>2, ZenonT(60)
  <2> QED BY <2>2, <2>3, <2>4, <2>7 DEF Verdict
<1>4. ASSUME NEW t \in Tasks, Open(t) = None
      PROVE  Open(t)' = None /\ Verdict(t)' = Verdict(t)
  <2>1. RunsOf(t) \cap Unsettled = {}
    BY <1>4, OpenFacts DEF OpenOK
  <2>2. \A r \in RunsOf(t) : /\ r \in Unsettled' <=> r \in Unsettled
                             /\ run'[r].status = run[r].status
    BY <1>0, <1>1, <2>1 DEF RunsOf
  <2> QED BY <1>4, <2>2, <1>2, LedgerElsewhere
<1> QED BY <1>3, <1>4 DEF Ledger!Close

\* Delegation implements TaskLedger: crashes, lost writes and late processes
\* included, every step begins one run of a task that has none, closes runs with
\* a verdict that stays once their chain has let go, or changes nothing of the
\* ledger.
THEOREM KeepsTheLedger == Spec => KeepsLedger
<1>1. Init => Ledger!Init
  <2> SUFFICES ASSUME Init PROVE Ledger!Init
    OBVIOUS
  <2>1. \A t \in Tasks : RunsOf(t) = {}
    BY DEF Init, RunsOf, NoRun
  <2>2. \A t \in Tasks : Open(t) = None /\ Verdict(t) = {}
    BY <2>1 DEF Open, Verdict
  <2> QED BY <2>2 DEF Ledger!Init
<1>2. RunsInv /\ RunsInv' /\ [Next]_vars => [Ledger!Next]_Ledger!ledger
  <2> SUFFICES ASSUME RunsInv, RunsInv', [Next]_vars
               PROVE  [Ledger!Next]_Ledger!ledger
    OBVIOUS
  <2>1. CASE run' = run /\ Unsettled' = Unsettled
    <3>1. \A t \in Tasks : Open(t)' = Open(t) /\ Verdict(t)' = Verdict(t)
      BY <2>1, LedgerElsewhere DEF RunsOf
    <3> QED BY <3>1 DEF Ledger!ledger
  <2>2. CASE \E t \in Tasks, r \in Runs : Begins(t, r)
    BY <2>2, BeginsInLedger DEF Begins, Ledger!Next
  <2>3. CASE \E r \in Unsettled, status \in Finished : Ends(r, status)
    <3>1. PICK t \in Tasks, status \in Finished : Ledger!Close({t}, status) /\ Open(t) # None
      BY <2>3, UnsettledFacts, EndsInLedger
    <3>2. status \in Ledger!Verdicts
      BY DEF Finished, Ledger!Verdicts
    <3> QED BY <3>1, <3>2 DEF Ledger!Next
  <2>4. CASE \E r \in InFlight, status \in Finished : Stores(r, status) /\ Unsettled' = Unsettled
    <3>1. PICK r \in InFlight, status \in Finished : Stores(r, status) /\ Unsettled' = Unsettled
      BY <2>4
    <3>2. /\ r \in Unsettled /\ r \in Runs
          /\ \A q \in Runs : run'[q].task = run[q].task
          /\ \A q \in Runs \ {r} : run'[q] = run[q]
      BY <3>1 DEF Stores, Unsettled, InFlight, RunsInv, TypeOK, Run
    <3>3. \A t \in Tasks : RunsOf(t)' = RunsOf(t)
      BY <3>2 DEF RunsOf
    <3>4. \A t \in Tasks : \A q \in RunsOf(t) :
            /\ q \in Unsettled' <=> q \in Unsettled
            /\ q \notin Unsettled => run'[q].status = run[q].status
      BY <3>1, <3>2 DEF RunsOf
    <3>5. \A t \in Tasks : Open(t)' = Open(t) /\ Verdict(t)' = Verdict(t)
      BY <3>3, <3>4, LedgerElsewhere
    <3> QED BY <3>5 DEF Ledger!ledger
  <2>5. CASE Swept
    <3>1. "interrupted" \in Ledger!Verdicts
      BY DEF Ledger!Verdicts
    <3> QED BY <2>5, <3>1, SweepsInLedger DEF Ledger!Next
  <2> QED BY <2>1, <2>2, <2>3, <2>4, <2>5, RunSteps
<1> QED
  BY <1>1, <1>2, Inductive, PTL DEF Spec, KeepsLedger, Ledger!Spec

-----------------------------------------------------------------------------
(* What a launch decides from the tasks in flight, and what a task           *)
(* remembers                                                                 *)

\* A launched task that is in flight and was never continued.
Fresh(t) == task[t].status \in Active /\ NeverContinued(t)

SharedByDefault == \A t \in Tasks : task[t].reason = "default" => task[t].isolation = "shared"

LaunchedInv ==
  /\ RunsInv /\ NewerOK /\ SharedByDefault
  /\ LaunchedPortsDistinct /\ LaunchedApart

\* The list of tasks is complete as long as the limit is not exceeded.
LEMMA ListComplete ==
  ASSUME TypeOK, NewerOK, Cardinality(Tasks) <= ListLimit
  PROVE  ActiveTasks = {t \in Tasks : task[t].status \in Active}
<1>1. ASSUME NEW t \in Tasks PROVE Cardinality(newer[t]) < ListLimit
  <2>1. newer[t] \subseteq Tasks \ {t}
    BY DEF TypeOK, NewerOK
  <2>2. IsFiniteSet(Tasks) /\ ListLimit \in Nat
    BY DelegationAssumption
  <2>3. IsFiniteSet(Tasks \ {t}) /\ Cardinality(Tasks \ {t}) = Cardinality(Tasks) - 1
    BY <2>2, FS_RemoveElement
  <2>4. Cardinality(newer[t]) <= Cardinality(Tasks \ {t})
    BY <2>1, <2>3, FS_Subset
  <2>5. Cardinality(Tasks) \in Nat /\ IsFiniteSet(newer[t])
    BY <2>1, <2>2, <2>3, FS_Subset, FS_CardinalityType
  <2>6. Cardinality(newer[t]) \in Nat
    BY <2>5, FS_CardinalityType
  <2> QED BY <2>2, <2>3, <2>4, <2>5, <2>6
<1> QED BY <1>1 DEF ActiveTasks, Created, Active

\* What a step does to a task it does not launch.
Kept(u) ==
  /\ task'[u].port = task[u].port /\ task'[u].repo = task[u].repo
  /\ task'[u].reason = task[u].reason /\ task'[u].isolation = task[u].isolation
  /\ task'[u].date = task[u].date
  /\ Fresh(u)' => Fresh(u)

\* The row of a launched task, but for its status.
Inserted(t, row) ==
  /\ task[t].status = "absent"
  /\ task'[t].port = row.port /\ task'[t].repo = row.repo
  /\ task'[t].reason = row.reason /\ task'[t].isolation = row.isolation
  /\ task'[t].date = row.date
  /\ \A u \in Tasks \ {t} : Kept(u)

LEMMA SameIsKept ==
  ASSUME NEW u \in Tasks, RunsOf(u)' = RunsOf(u), task'[u] = task[u]
  PROVE  Kept(u)
  BY DEF Kept, Fresh, NeverContinued

LEMMA QuietIsKept ==
  ASSUME NEW u \in Tasks, run' = run, task' = task
  PROVE  Kept(u)
  BY SameIsKept DEF RunsOf

LEMMA LaunchInserts ==
  ASSUME RunsInv, NEW t \in Tasks, NEW row \in Task, task[t].status = "absent",
         \/ \E r \in Runs : Launch(t, r, row)
         \/ InsertOnly(t, row)
  PROVE  Inserted(t, row) /\ Insert(t)
<1>1. CASE \E r \in Runs : Launch(t, r, row)
  <2>1. PICK r \in Runs : Launch(t, r, row)
    BY <1>1
  <2>2. /\ run[r].status = "none" /\ run[r].task = None
        /\ run' = [run EXCEPT ![r] = NewRun(t, r, "launch", PlannedSession(row.runner, r))]
        /\ task' = [task EXCEPT ![t] = [row EXCEPT !.status = "running"]] /\ Insert(t)
    BY <2>1 DEF Launch, RunsInv, RowsOK, NoRun
  <2>3. run'[r].task = t /\ \A q \in Runs \ {r} : run'[q] = run[q]
    BY <2>2 DEF RunsInv, TypeOK, NewRun
  <2>4. ASSUME NEW u \in Tasks \ {t} PROVE Kept(u)
    <3>1. RunsOf(u)' = RunsOf(u)
      BY <2>2, <2>3, DelegationAssumption DEF RunsOf
    <3>2. task'[u] = task[u]
      BY <2>2 DEF RunsInv, TypeOK
    <3> QED BY <3>1, <3>2, SameIsKept
  <2>5. task'[t] = [row EXCEPT !.status = "running"]
    BY <2>2 DEF RunsInv, TypeOK
  <2> QED BY <2>2, <2>4, <2>5 DEF Inserted, Task
<1>2. CASE InsertOnly(t, row)
  <2>1. task' = [task EXCEPT ![t] = row] /\ run' = run /\ Insert(t)
    BY <1>2 DEF InsertOnly
  <2>2. ASSUME NEW u \in Tasks \ {t} PROVE Kept(u)
    <3>1. task'[u] = task[u] /\ RunsOf(u)' = RunsOf(u)
      BY <2>1 DEF RunsInv, TypeOK, RunsOf
    <3> QED BY <3>1, SameIsKept
  <2>3. task'[t] = row
    BY <2>1 DEF RunsInv, TypeOK
  <2> QED BY <2>1, <2>2, <2>3 DEF Inserted
<1> QED BY <1>1, <1>2

\* A continued task was pending, or it has now been continued.
LEMMA ContinueIsKept ==
  ASSUME RunsInv, NEW t \in Tasks, NEW r \in Runs, Continue(t, r), NEW u \in Tasks
  PROVE  Kept(u)
<1>1. /\ run[r].status = "none" /\ run[r].task = None /\ t \in Created
      /\ run' = [run EXCEPT ![r] = NewRun(t, r, ContinueKind(t), ContinueSession(t, r))]
      /\ task' = [task EXCEPT ![t].status = "running"]
  BY DEF Continue, RunsInv, RowsOK, NoRun
<1>2. run'[r].task = t /\ \A q \in Runs \ {r} : run'[q] = run[q]
  BY <1>1 DEF RunsInv, TypeOK, NewRun
<1>3. CASE u # t
  <2>1. RunsOf(u)' = RunsOf(u)
    BY <1>1, <1>2, <1>3, DelegationAssumption DEF RunsOf
  <2>2. task'[u] = task[u]
    BY <1>1, <1>3 DEF RunsInv, TypeOK
  <2> QED BY <2>1, <2>2, SameIsKept
<1>4. CASE u = t
  <2>1. RunsOf(t)' = RunsOf(t) \cup {r} /\ r \notin RunsOf(t)
    BY <1>1, <1>2, DelegationAssumption DEF RunsOf
  <2>2. ASSUME NeverContinued(t)' PROVE Fresh(t)
    <3>1. RunsOf(t) = {}
      BY <2>1, <2>2 DEF NeverContinued
    <3>2. task[t].status = "pending"
      BY <1>1, <3>1 DEF RunsInv, TaskFollowsLastRun
    <3> QED BY <3>1, <3>2 DEF Fresh, NeverContinued, Active
  <2>3. /\ task'[t].port = task[t].port /\ task'[t].repo = task[t].repo
        /\ task'[t].reason = task[t].reason /\ task'[t].isolation = task[t].isolation
        /\ task'[t].date = task[t].date
    BY <1>1 DEF RunsInv, TypeOK, Task
  <2> QED BY <1>4, <2>2, <2>3 DEF Kept, Fresh
<1> QED BY <1>3, <1>4

LEMMA ArchiveIsKept ==
  ASSUME RunsInv, NEW t \in Tasks, Archive(t) \/ Unarchive(t), NEW u \in Tasks
  PROVE  Kept(u)
<1>1. PICK flag \in BOOLEAN : task' = [task EXCEPT ![t].archived = flag]
  BY DEF Archive, Unarchive
<1>2. run' = run
  BY DEF Archive, Unarchive
<1>3. /\ task'[u].port = task[u].port /\ task'[u].repo = task[u].repo
      /\ task'[u].reason = task[u].reason /\ task'[u].isolation = task[u].isolation
      /\ task'[u].date = task[u].date /\ task'[u].status = task[u].status
  BY <1>1 DEF RunsInv, TypeOK, Task
<1> QED BY <1>2, <1>3 DEF Kept, Fresh, NeverContinued, RunsOf

LEMMA StoreIsKept ==
  ASSUME RunsInv, NEW r \in Unsettled, NEW status \in Finished,
         NEW session \in Runs \cup {None}, Store(r, status, session), NEW u \in Tasks
  PROVE  Kept(u)
<1>1. PICK t \in Tasks : t = run[r].task
  BY UnsettledFacts
<1>2. /\ run' = [run EXCEPT ![r].status = status, ![r].session = Coalesce(session, @)]
      /\ task' = [task EXCEPT ![t].status = status, ![t].session = Coalesce(session, @)]
  BY <1>1 DEF Store
<1>3. \A q \in Runs : run'[q].task = run[q].task
  BY <1>2 DEF RunsInv, TypeOK, Run
<1>4. /\ task'[u].port = task[u].port /\ task'[u].repo = task[u].repo
      /\ task'[u].reason = task[u].reason /\ task'[u].isolation = task[u].isolation
      /\ task'[u].date = task[u].date
      /\ task'[u].status = task[u].status \/ task'[u].status \in Finished
  BY <1>2 DEF RunsInv, TypeOK, Task
<1>5. RunsOf(u)' = RunsOf(u)
  BY <1>3 DEF RunsOf
<1> QED BY <1>4, <1>5 DEF Kept, Fresh, NeverContinued, Active, Finished

\* The steps of a promise chain that write: each is one finishRun of a run that
\* has no final verdict.
Writes(r) == Finish(r) \/ FinishCaught(r) \/ FinishThrows(r)

LEMMA WritesStore ==
  ASSUME RunsInv, NEW r \in Runs, Writes(r) \/ (Catch(r) /\ Store(r, "failed", None))
  PROVE  /\ r \in Unsettled
         /\ \E status \in Finished, session \in Runs \cup {None} : Store(r, status, session)
<1>1. CASE Writes(r)
  <2>1. r \in Unsettled
    BY <1>1, AliveFacts
       DEF Writes, Finish, FinishCaught, FinishThrows, Closes, Unsettled, InFlight
  <2>2. child[r].said \in Runs \cup {None}
    BY DEF RunsInv, TypeOK, Child
  <2>3. "failed" \in Finished /\ Verdicts(r) \subseteq Finished
    BY DEF Finished, Verdicts
  <2> QED
    BY <1>1, <2>1, <2>2, <2>3 DEF Writes, Finish, FinishCaught, FinishThrows, Settle
<1>2. CASE Catch(r) /\ Store(r, "failed", None)
  BY <1>2 DEF Catch, Unsettled, Finished
<1> QED BY <1>1, <1>2

LEMMA BootIsKept ==
  ASSUME RunsInv, Boot, NEW u \in Tasks
  PROVE  Kept(u)
<1>1. \A q \in Runs : run'[q].task = run[q].task
  BY DEF Boot, RunsInv, TypeOK, Run
<1>2. /\ task'[u].port = task[u].port /\ task'[u].repo = task[u].repo
      /\ task'[u].reason = task[u].reason /\ task'[u].isolation = task[u].isolation
      /\ task'[u].date = task[u].date
      /\ task'[u].status = task[u].status \/ task'[u].status = "interrupted"
  BY DEF Boot, RunsInv, TypeOK, Task
<1>3. RunsOf(u)' = RunsOf(u)
  BY <1>1 DEF RunsOf
<1> QED BY <1>2, <1>3 DEF Kept, Fresh, NeverContinued, Active

\* A step launches one task, or none.
LEMMA StepLaunches ==
  ASSUME RunsInv, [Next]_vars
  PROVE  \/ \A u \in Tasks : Kept(u)
         \/ \E t \in Tasks, q \in Request, port \in Blocks :
              Accepts(t, q, port) /\ Inserted(t, NewTask(q, port))
         \/ \E t \in Tasks, d \in Dates, runner \in Runners, port \in Blocks :
              AcceptsDaily(t, d, port) /\ Inserted(t, NewDailyTask(d, runner, port))
<1>1. TypeOK
  BY DEF RunsInv
<1>2. ASSUME NEW t \in Tasks, DelegateCut(t) \/ \E r \in Runs : Delegate(t, r) \/ GenerateDaily(t, r)
      PROVE  \/ \E q \in Request, port \in Blocks :
                  Accepts(t, q, port) /\ Inserted(t, NewTask(q, port))
             \/ \E d \in Dates, runner \in Runners, port \in Blocks :
                  AcceptsDaily(t, d, port) /\ Inserted(t, NewDailyTask(d, runner, port))
  <2>1. CASE \E q \in Request, port \in Blocks :
               /\ Accepts(t, q, port)
               /\ \/ InsertOnly(t, NewTask(q, port))
                  \/ \E r \in Runs : Launch(t, r, NewTask(q, port))
    <3>1. PICK q \in Request, port \in Blocks :
               /\ Accepts(t, q, port)
               /\ \/ InsertOnly(t, NewTask(q, port))
                  \/ \E r \in Runs : Launch(t, r, NewTask(q, port))
      BY <2>1
    <3>2. NewTask(q, port) \in Task /\ task[t].status = "absent"
      BY <1>1, <3>1, NewRowsTyped DEF Accepts
    <3>3. Inserted(t, NewTask(q, port))
      BY <3>1, <3>2, LaunchInserts
    <3> QED BY <3>1, <3>3
  <2>2. CASE \E d \in Dates, runner \in Runners, port \in Blocks :
               /\ AcceptsDaily(t, d, port)
               /\ \/ InsertOnly(t, NewDailyTask(d, runner, port))
                  \/ \E r \in Runs : Launch(t, r, NewDailyTask(d, runner, port))
    <3>1. PICK d \in Dates, runner \in Runners, port \in Blocks :
               /\ AcceptsDaily(t, d, port)
               /\ \/ InsertOnly(t, NewDailyTask(d, runner, port))
                  \/ \E r \in Runs : Launch(t, r, NewDailyTask(d, runner, port))
      BY <2>2
    <3>2. NewDailyTask(d, runner, port) \in Task /\ task[t].status = "absent"
      BY <1>1, <3>1, NewRowsTyped DEF AcceptsDaily
    <3>3. Inserted(t, NewDailyTask(d, runner, port))
      BY <3>1, <3>2, LaunchInserts
    <3> QED BY <3>1, <3>3
  <2> QED BY <1>2, <2>1, <2>2 DEF Delegate, GenerateDaily, DelegateCut
<1>3. ASSUME NEW t \in Tasks, NEW r \in Runs, Continue(t, r)
      PROVE  \A u \in Tasks : Kept(u)
  BY <1>3, ContinueIsKept
<1>4. ASSUME NEW t \in Tasks, Archive(t) \/ Unarchive(t)
      PROVE  \A u \in Tasks : Kept(u)
  BY <1>4, ArchiveIsKept
<1>5. ASSUME NEW r \in Runs, Writes(r) \/ (Catch(r) /\ Store(r, "failed", None))
      PROVE  \A u \in Tasks : Kept(u)
  BY <1>5, WritesStore, StoreIsKept
<1>6. ASSUME NEW r \in Runs, Catch(r)
      PROVE  \A u \in Tasks : Kept(u)
  BY <1>5, <1>6, QuietIsKept DEF Catch
<1>7. CASE Boot
  BY <1>7, BootIsKept
<1>8. CASE \/ \E t \in Tasks : Cancel(t)
           \/ \E r \in Runs : AgentSays(r) \/ Timeout(r) \/ FinishLost(r) \/ OrphanEnds(r)
           \/ Shutdown \/ Crash \/ UNCHANGED vars
  <2>1. task' = task /\ run' = run
    BY <1>8 DEF Cancel, AgentSays, Timeout, FinishLost, OrphanEnds, Shutdown, Crash, Abort, vars
  <2> QED BY <2>1, QuietIsKept
<1> QED
  BY <1>2, <1>3, <1>4, <1>5, <1>6, <1>7, <1>8 DEF Next, Writes

-----------------------------------------------------------------------------
\* The order of the updates keeps a task out of its own successors.
LEMMA NewerKept ==
  ASSUME RunsInv, NewerOK, [Next]_vars
  PROVE  NewerOK'
<1>1. ASSUME NEW S \in SUBSET Tasks, Touch(S) PROVE NewerOK'
  BY <1>1 DEF Touch, NewerOK, RunsInv, TypeOK
<1>2. ASSUME NEW t \in Tasks, task[t].status = "absent", Insert(t) PROVE NewerOK'
  BY <1>2 DEF Insert, NewerOK, Created, RunsInv, TypeOK
<1>3. ASSUME newer' = newer PROVE NewerOK'
  BY <1>3 DEF NewerOK
<1>4. ASSUME NEW t \in Tasks, DelegateCut(t) \/ \E r \in Runs : Delegate(t, r) \/ GenerateDaily(t, r)
      PROVE  NewerOK'
  BY <1>2, <1>4 DEF DelegateCut, Delegate, GenerateDaily, Accepts, AcceptsDaily, Launch, InsertOnly
<1>5. ASSUME NEW t \in Tasks, Archive(t) \/ Unarchive(t) \/ \E r \in Runs : Continue(t, r)
      PROVE  NewerOK'
  <2>1. Touch({t})
    BY <1>5 DEF Archive, Unarchive, Continue
  <2> QED BY <1>1, <2>1
<1>6. ASSUME NEW r \in Runs, Writes(r) \/ Catch(r)
      PROVE  NewerOK'
  <2>1. CASE newer' = newer
    BY <1>3, <2>1
  <2>2. CASE newer' # newer
    <3>1. Writes(r) \/ (Catch(r) /\ Store(r, "failed", None))
      BY <1>6, <2>2 DEF Catch
    <3>2. Touch({run[r].task}) /\ run[r].task \in Tasks
      BY <3>1, WritesStore, UnsettledFacts DEF Store
    <3> QED BY <1>1, <3>2
  <2> QED BY <2>1, <2>2
<1>7. CASE Boot
  BY <1>1, <1>7 DEF Boot, SweptTasks
<1>8. CASE \/ \E t \in Tasks : Cancel(t)
           \/ \E r \in Runs : AgentSays(r) \/ Timeout(r) \/ FinishLost(r) \/ OrphanEnds(r)
           \/ Shutdown \/ Crash \/ UNCHANGED vars
  <2>1. newer' = newer
    BY <1>8 DEF Cancel, AgentSays, Timeout, FinishLost, OrphanEnds, Shutdown, Crash, Abort, vars
  <2> QED BY <1>3, <2>1
<1> QED
  BY <1>4, <1>5, <1>6, <1>7, <1>8 DEF Next, Writes

\* The rows that are inserted.
LEMMA NewRowFacts ==
  ASSUME NEW q \in Request, NEW port \in Blocks
  PROVE  /\ NewTask(q, port).port = port /\ NewTask(q, port).repo = q.repo
         /\ NewTask(q, port).date = None
         /\ NewTask(q, port).reason = "default" => NewTask(q, port).isolation = "shared"
         /\ q.repo \in GitRepos /\ NewTask(q, port).reason = "default" => ~RepoBusy(q.repo)
<1>1. q.repo \in GitRepos => q.git /\ q.repo # None
  BY DelegationAssumption DEF Request
<1>2. /\ NewTask(q, port).port = port /\ NewTask(q, port).repo = q.repo
      /\ NewTask(q, port).date = None
  BY DEF NewTask, NoTask
<1>3. NewTask(q, port).reason = "default" => NewTask(q, port).isolation = "shared"
  BY DEF NewTask, NoTask, Wanted, ResolveIsolation
<1>4. q.repo \in GitRepos /\ NewTask(q, port).reason = "default" => ~RepoBusy(q.repo)
  BY <1>1 DEF NewTask, NoTask, Wanted, ResolveIsolation
<1> QED BY <1>1, <1>2, <1>3, <1>4

LEMMA NewDailyFacts ==
  ASSUME NEW d \in Dates, NEW runner \in Runners, NEW port \in Blocks
  PROVE  /\ NewDailyTask(d, runner, port).port = port
         /\ NewDailyTask(d, runner, port).repo = None
         /\ NewDailyTask(d, runner, port).date = d
         /\ NewDailyTask(d, runner, port).isolation = "shared" /\ None \notin GitRepos
  BY DelegationAssumption DEF NewDailyTask, NoTask

LEMMA InitLaunched == Init => LaunchedInv
<1> SUFFICES ASSUME Init PROVE LaunchedInv
  OBVIOUS
<1>1. \A t \in Tasks : task[t].status = "absent" /\ task[t].isolation = "shared" /\ newer[t] = {}
  BY DEF Init, NoTask
<1>2. RunsInv
  BY InitEstablishes
<1> QED
  BY <1>1, <1>2 DEF LaunchedInv, NewerOK, SharedByDefault, LaunchedPortsDistinct, LaunchedApart, Active

LEMMA LaunchedKeeps ==
  ASSUME LaunchedInv, [Next]_vars, Cardinality(Tasks) <= ListLimit
  PROVE  LaunchedInv'
<1>1. /\ RunsInv /\ NewerOK /\ SharedByDefault /\ TypeOK
      /\ LaunchedPortsDistinct /\ LaunchedApart
  BY DEF LaunchedInv, RunsInv
<1>2. RunsInv' /\ NewerOK'
  BY <1>1, NextKeeps, NewerKept
<1>3. ActiveTasks = {t \in Tasks : task[t].status \in Active}
  BY <1>1, ListComplete
<1>4. CASE \A u \in Tasks : Kept(u)
  <2>1. SharedByDefault'
    BY <1>1, <1>4 DEF SharedByDefault, Kept
  <2>2. LaunchedPortsDistinct'
    BY <1>1, <1>4 DEF LaunchedPortsDistinct, Kept, Fresh
  <2>3. LaunchedApart'
    BY <1>1, <1>4 DEF LaunchedApart, Kept, Fresh
  <2> QED BY <1>2, <2>1, <2>2, <2>3 DEF LaunchedInv
<1>5. ASSUME NEW t \in Tasks, NEW row, Inserted(t, row),
             row.reason = "default" => row.isolation = "shared",
             row.port \in Blocks, row.port \notin UsedBlocks,
             row.repo \in GitRepos /\ row.reason = "default" => ~RepoBusy(row.repo)
      PROVE  LaunchedInv'
  <2>1. \A u \in Tasks \ {t} : Kept(u)
    BY <1>5 DEF Inserted
  <2>2. /\ task'[t].port = row.port /\ task'[t].repo = row.repo /\ task'[t].reason = row.reason
        /\ task'[t].isolation = row.isolation
    BY <1>5 DEF Inserted
  <2>3. SharedByDefault'
    BY <1>1, <1>5, <2>1, <2>2 DEF SharedByDefault, Kept
  <2>4. ASSUME NEW u \in Tasks \ {t}, Fresh(u)'
        PROVE  /\ u \in ActiveTasks /\ task'[u].port # row.port
               /\ row.repo \in GitRepos /\ row.reason = "default" /\ task'[u].reason = "default"
                    => task'[u].repo # row.repo
    <3>1. Kept(u) /\ Fresh(u)
      BY <2>1, <2>4 DEF Kept
    <3>2. u \in ActiveTasks /\ task[u].status \in Active
      BY <1>3, <3>1 DEF Fresh
    <3>3. task[u].port # row.port
      BY <1>5, <3>2, DelegationAssumption DEF UsedBlocks
    <3>4. row.repo \in GitRepos /\ row.reason = "default" /\ task[u].reason = "default"
            => task[u].repo # row.repo
      BY <1>1, <1>5, <3>2 DEF RepoBusy, SharedByDefault
    <3> QED BY <3>1, <3>2, <3>3, <3>4 DEF Kept
  <2>5. LaunchedPortsDistinct'
    <3>1. ASSUME NEW u \in Tasks, NEW v \in Tasks, u # v, Fresh(u)', Fresh(v)'
          PROVE  task'[u].port # task'[v].port
      <4>1. CASE u = t \/ v = t
        BY <2>2, <2>4, <3>1, <4>1
      <4>2. CASE u # t /\ v # t
        BY <1>1, <2>1, <3>1, <4>2 DEF Kept, Fresh, LaunchedPortsDistinct
      <4> QED BY <4>1, <4>2
    <3> QED BY <3>1 DEF LaunchedPortsDistinct, Fresh
  <2>6. LaunchedApart'
    <3>1. ASSUME NEW u \in Tasks, NEW v \in Tasks, u # v, Fresh(u)', Fresh(v)',
                 task'[u].repo = task'[v].repo, task'[u].repo \in GitRepos,
                 task'[u].reason = "default", task'[v].reason = "default"
          PROVE  FALSE
      <4>1. CASE u = t \/ v = t
        BY <2>2, <2>4, <3>1, <4>1
      <4>2. CASE u # t /\ v # t
        BY <1>1, <2>1, <3>1, <4>2 DEF Kept, Fresh, LaunchedApart
      <4> QED BY <4>1, <4>2
    <3> QED BY <3>1 DEF LaunchedApart, Fresh
  <2> QED BY <1>2, <2>3, <2>5, <2>6 DEF LaunchedInv
<1>6. CASE \E t \in Tasks, q \in Request, port \in Blocks :
             Accepts(t, q, port) /\ Inserted(t, NewTask(q, port))
  <2>1. PICK t \in Tasks, q \in Request, port \in Blocks :
             Accepts(t, q, port) /\ Inserted(t, NewTask(q, port))
    BY <1>6
  <2>2. port \notin UsedBlocks
    BY <2>1 DEF Accepts, IsPortBase, FreeBlocks
  <2> QED BY <1>5, <2>1, <2>2, NewRowFacts
<1>7. CASE \E t \in Tasks, d \in Dates, runner \in Runners, port \in Blocks :
             AcceptsDaily(t, d, port) /\ Inserted(t, NewDailyTask(d, runner, port))
  <2>1. PICK t \in Tasks, d \in Dates, runner \in Runners, port \in Blocks :
             AcceptsDaily(t, d, port) /\ Inserted(t, NewDailyTask(d, runner, port))
    BY <1>7
  <2>2. port \notin UsedBlocks
    BY <2>1 DEF AcceptsDaily, IsPortBase, FreeBlocks
  <2> DEFINE row == NewDailyTask(d, runner, port)
  <2>3. /\ row.port = port /\ row.repo = None /\ row.isolation = "shared"
        /\ None \notin GitRepos
    <3> HIDE DelegationAssumption
    <3> QED BY NewDailyFacts
  <2>4. row.port \notin UsedBlocks /\ row.repo \notin GitRepos
    BY <2>2, <2>3, Zenon
  <2>5. Inserted(t, row)
    BY <2>1
  <2> HIDE DEF row
  <2> QED BY <1>5, <2>3, <2>4, <2>5
<1> QED BY <1>1, <1>4, <1>6, <1>7, StepLaunches

LEMMA Launched == Cardinality(Tasks) <= ListLimit => (Spec => []LaunchedInv)
<1> SUFFICES ASSUME Cardinality(Tasks) <= ListLimit PROVE Spec => []LaunchedInv
  OBVIOUS
<1>1. LaunchedInv /\ [Next]_vars => LaunchedInv'
  BY LaunchedKeeps
<1> QED BY <1>1, InitLaunched, PTL DEF Spec

\* Two tasks that were launched and never continued have different ports, as
\* long as listTasks returns every task (delegateTask, allocatePortBase).
THEOREM LaunchesHaveTheirPorts ==
  Cardinality(Tasks) <= ListLimit => (Spec => []LaunchedPortsDistinct)
<1>1. LaunchedInv => LaunchedPortsDistinct
  BY DEF LaunchedInv
<1> SUFFICES ASSUME Cardinality(Tasks) <= ListLimit PROVE Spec => []LaunchedPortsDistinct
  OBVIOUS
<1>2. Spec => []LaunchedInv
  BY Launched
<1> QED BY <1>1, <1>2, PTL

\* The hub does not by itself launch two tasks into the same shared checkout of
\* a git repository, as long as listTasks returns every task (prepareWorktree).
THEOREM LaunchesAreApart ==
  Cardinality(Tasks) <= ListLimit => (Spec => []LaunchedApart)
<1>1. LaunchedInv => LaunchedApart
  BY DEF LaunchedInv
<1> SUFFICES ASSUME Cardinality(Tasks) <= ListLimit PROVE Spec => []LaunchedApart
  OBVIOUS
<1>2. Spec => []LaunchedInv
  BY Launched
<1> QED BY <1>1, <1>2, PTL

-----------------------------------------------------------------------------
(* A day's note is generated once at a time, whatever the limit of the list *)

DailyInv == RunsInv /\ OneDailyGeneration

LEMMA DailyKeeps ==
  ASSUME DailyInv, [Next]_vars
  PROVE  DailyInv'
<1>1. RunsInv /\ RunsInv' /\ OneDailyGeneration
  BY NextKeeps DEF DailyInv
<1>2. CASE \A u \in Tasks : Kept(u)
  BY <1>1, <1>2 DEF DailyInv, OneDailyGeneration, Kept, Fresh
<1>3. ASSUME NEW t \in Tasks, NEW row, Inserted(t, row), row.date = None \/ ~DailyBusy(row.date)
      PROVE  OneDailyGeneration'
  <2>1. task'[t].date = row.date /\ \A u \in Tasks \ {t} : Kept(u)
    BY <1>3 DEF Inserted
  <2>2. ASSUME NEW u \in Tasks \ {t}, Fresh(u)' PROVE row.date = None \/ task'[u].date # row.date
    BY <1>3, <2>1, <2>2 DEF Kept, Fresh, DailyBusy
  <2>3. ASSUME NEW u \in Tasks, NEW v \in Tasks, u # v, Fresh(u)', Fresh(v)'
        PROVE  task'[u].date = None \/ task'[u].date # task'[v].date
    <3>1. CASE u = t \/ v = t
      BY <2>1, <2>2, <2>3, <3>1
    <3>2. CASE u # t /\ v # t
      BY <1>1, <2>1, <2>3, <3>2 DEF Kept, Fresh, OneDailyGeneration
    <3> QED BY <3>1, <3>2
  <2> QED BY <2>3 DEF OneDailyGeneration, Fresh
<1>4. CASE \E t \in Tasks, q \in Request, port \in Blocks :
             Accepts(t, q, port) /\ Inserted(t, NewTask(q, port))
  <2>1. PICK t \in Tasks, q \in Request, port \in Blocks :
             Accepts(t, q, port) /\ Inserted(t, NewTask(q, port))
    BY <1>4
  <2> DEFINE row == NewTask(q, port)
  <2>2. row.date = None
    BY NewRowFacts
  <2>3. Inserted(t, row)
    BY <2>1
  <2> HIDE DEF row
  <2>4. OneDailyGeneration'
    BY <1>3, <2>2, <2>3
  <2> QED BY <1>1, <2>4 DEF DailyInv
<1>5. CASE \E t \in Tasks, d \in Dates, runner \in Runners, port \in Blocks :
             AcceptsDaily(t, d, port) /\ Inserted(t, NewDailyTask(d, runner, port))
  <2>1. PICK t \in Tasks, d \in Dates, runner \in Runners, port \in Blocks :
             AcceptsDaily(t, d, port) /\ Inserted(t, NewDailyTask(d, runner, port))
    BY <1>5
  <2>2. NewDailyTask(d, runner, port).date = d
    BY NewDailyFacts
  <2>3. ~DailyBusy(d)
    BY <2>1 DEF AcceptsDaily
  <2> DEFINE row == NewDailyTask(d, runner, port)
  <2>4. Inserted(t, row) /\ ~DailyBusy(row.date)
    BY <2>1, <2>2, <2>3
  <2> HIDE DEF row
  <2>5. OneDailyGeneration'
    BY <1>3, <2>4
  <2> QED BY <1>1, <2>5 DEF DailyInv
<1> QED BY <1>1, <1>2, <1>4, <1>5, StepLaunches

\* At most one generation of a day's note is in flight, continuations aside,
\* however long the list of tasks is (generateDaily, activeDailyTask).
THEOREM OneGeneration == Spec => []OneDailyGeneration
<1>1. Init => DailyInv
  BY InitEstablishes DEF DailyInv, OneDailyGeneration, Init, NoTask, Active
<1>2. DailyInv /\ [Next]_vars => DailyInv'
  BY DailyKeeps
<1>3. DailyInv => OneDailyGeneration
  BY DEF DailyInv
<1> QED BY <1>1, <1>2, <1>3, PTL DEF Spec

-----------------------------------------------------------------------------
(* The session of a task *)

\* The last run of r's task to name a session, of the runs that were settled.
Named(r) ==
  /\ run[r].status \in Finished \ {"interrupted"}
  /\ child[r].said # None
  /\ \A q \in Runs : r \in run[q].earlier =>
       child[q].said = None \/ run[q].status \in {"running", "interrupted"}

MemoryInv == RunsInv /\ RemembersSession

\* A step that settles no run and takes no session away keeps what is known.
LEMMA MemoryQuiet ==
  ASSUME MemoryInv,
         \A r \in Runs : Named(r)' =>
           Named(r) /\ run'[r].task = run[r].task /\ child'[r].said = child[r].said,
         \A r \in Runs : Named(r)' => task'[run[r].task].session = task[run[r].task].session
  PROVE  RemembersSession'
<1>1. \A r \in Runs : Named(r) => task[run[r].task].session = child[r].said
  BY DEF MemoryInv, RemembersSession, Named
<1>2. \A r \in Runs : Named(r)' => task'[run'[r].task].session = child'[r].said
  BY <1>1
<1> QED BY <1>2 DEF RemembersSession, Named

\* A run that begins is the last of its task and has said nothing yet.
LEMMA MemoryBegins ==
  ASSUME MemoryInv, NEW t \in Tasks, NEW r \in Runs, NEW kind, NEW session, run[r].status = "none",
         run' = [run EXCEPT ![r] = NewRun(t, r, kind, session)],
         child' = [child EXCEPT ![r] = Spawned],
         \A u \in Tasks : RunsOf(u) # {} => task'[u].session = task[u].session
  PROVE  RemembersSession'
<1>1. /\ run'[r].status = "running" /\ child'[r].said = None
      /\ \A q \in Runs \ {r} : run'[q] = run[q] /\ child'[q] = child[q]
      /\ run[r].earlier = {}
  BY DEF MemoryInv, RunsInv, TypeOK, RowsOK, NewRun, Spawned, NoRun
<1>2. ASSUME NEW q \in Runs, Named(q)'
      PROVE  q # r /\ Named(q) /\ run[q].task \in Tasks /\ RunsOf(run[q].task) # {}
  <2>1. q # r
    BY <1>1, <1>2 DEF Named, Finished
  <2>2. Named(q)
    BY <1>1, <1>2, <2>1 DEF Named
  <2>3. run[q].status # "none"
    BY <2>2 DEF Named, Finished
  <2> QED BY <2>1, <2>2, <2>3 DEF MemoryInv, RunsInv, RowsOK, Created, RunsOf
<1> QED BY <1>1, <1>2, MemoryQuiet

LEMMA MemorySettles ==
  ASSUME MemoryInv, NEW r \in Runs, Closes(r), NEW status \in Finished \ {"interrupted"},
         Settle(r, status, child[r].said)
  PROVE  RemembersSession'
<1>1. PICK t \in Tasks : t = run[r].task
  BY AliveFacts DEF Closes, MemoryInv
<1>2. /\ r \in InFlight /\ LastRun(t, r) /\ TypeOK /\ RowsOK
  BY <1>1, AliveFacts DEF Closes, MemoryInv, RunsInv, InFlightIsLast
<1>3. /\ run' = [run EXCEPT ![r].status = status, ![r].session = Coalesce(child[r].said, @)]
      /\ task' = [task EXCEPT ![t].status = status, ![t].session = Coalesce(child[r].said, @)]
      /\ child' = [child EXCEPT ![r].state = "closed"]
  BY <1>1 DEF Settle, Store, Forget
<1>4. /\ \A q \in Runs : /\ run'[q].task = run[q].task /\ run'[q].earlier = run[q].earlier
                         /\ child'[q].said = child[q].said
      /\ \A q \in Runs \ {r} : run'[q] = run[q]
      /\ run'[r].status = status
  BY <1>2, <1>3 DEF TypeOK, Run, Child
<1>5. /\ task'[t].session = Coalesce(child[r].said, task[t].session)
      /\ \A u \in Tasks \ {t} : task'[u] = task[u]
  BY <1>2, <1>3 DEF TypeOK, Task
<1>6. ASSUME NEW q \in Runs, Named(q)' PROVE task'[run'[q].task].session = child'[q].said
  <2>1. CASE q = r
    <3>1. child[r].said # None
      BY <1>4, <1>6, <2>1 DEF Named
    <3> QED BY <1>1, <1>4, <1>5, <2>1, <3>1 DEF Coalesce
  <2>2. CASE q # r
    <3>1. Named(q)
      BY <1>2, <1>4, <1>6, <2>2 DEF Named, InFlight
    <3>2. task[run[q].task].session = child[q].said /\ run[q].task \in Tasks
      <4>1. run[q].status # "none"
        BY <3>1 DEF Named, Finished
      <4> QED BY <1>2, <3>1, <4>1 DEF MemoryInv, RemembersSession, Named, RowsOK, Created
    <3>3. CASE run[q].task # t
      BY <1>4, <1>5, <3>2, <3>3
    <3>4. CASE run[q].task = t
      <4>1. q \in run[r].earlier
        BY <1>2, <2>2, <3>4 DEF LastRun, RunsOf
      <4>2. child[r].said = None
        BY <1>4, <1>6, <4>1 DEF Named, Finished
      <4> QED BY <1>4, <1>5, <3>2, <3>4, <4>2 DEF Coalesce
    <3> QED BY <3>3, <3>4
  <2> QED BY <2>1, <2>2
<1> QED BY <1>6 DEF RemembersSession, Named

LEMMA MemoryKeeps ==
  ASSUME MemoryInv, [Next]_vars, ~StoreMayFail
  PROVE  MemoryInv'
<1>1. RunsInv /\ RunsInv' /\ TypeOK /\ RowsOK
  BY NextKeeps DEF MemoryInv, RunsInv
<1>2. ASSUME NEW t \in Tasks, NEW r \in Runs, NEW row \in Task, task[t].status = "absent",
             Launch(t, r, row)
      PROVE  RemembersSession'
  <2>1. /\ run[r].status = "none"
        /\ run' = [run EXCEPT ![r] = NewRun(t, r, "launch", PlannedSession(row.runner, r))]
        /\ child' = [child EXCEPT ![r] = Spawned]
        /\ task' = [task EXCEPT ![t] = [row EXCEPT !.status = "running"]]
    BY <1>2, AgentFacts DEF Launch
  <2>2. RunsOf(t) = {}
    BY <1>1, <1>2, DelegationAssumption DEF RunsOf, RowsOK, Created, NoRun
  <2>3. \A u \in Tasks : RunsOf(u) # {} => task'[u].session = task[u].session
    BY <1>1, <2>1, <2>2 DEF TypeOK
  <2> QED BY <2>1, <2>3, MemoryBegins
<1>3. ASSUME NEW t \in Tasks, NEW r \in Runs, Continue(t, r)
      PROVE  RemembersSession'
  <2>1. /\ run[r].status = "none"
        /\ run' = [run EXCEPT ![r] = NewRun(t, r, ContinueKind(t), ContinueSession(t, r))]
        /\ child' = [child EXCEPT ![r] = Spawned]
        /\ task' = [task EXCEPT ![t].status = "running"]
    BY <1>3, AgentFacts DEF Continue
  <2>2. \A u \in Tasks : task'[u].session = task[u].session
    BY <1>1, <2>1 DEF TypeOK, Task
  <2> QED BY <2>1, <2>2, MemoryBegins
<1>4. ASSUME NEW r \in Runs, Finish(r)
      PROVE  RemembersSession'
  <2>1. PICK verdict \in Verdicts(r) : Settle(r, verdict, child[r].said)
    BY <1>4 DEF Finish
  <2>2. verdict \in Finished \ {"interrupted"}
    BY DEF Verdicts, Finished
  <2> QED BY <1>4, <2>1, <2>2, MemorySettles DEF Finish
<1>5. ASSUME Boot PROVE RemembersSession'
  <2>1. ASSUME NEW q \in Runs
        PROVE  /\ run'[q].task = run[q].task /\ run'[q].earlier = run[q].earlier
               /\ run'[q].status = IF q \in InFlight THEN "interrupted" ELSE run[q].status
               /\ child'[q] = child[q]
    BY <1>1, <1>5 DEF Boot, SweptRuns, SweptStatus, TypeOK, Run
  <2>2. \A q \in Runs : Named(q)' => Named(q)
    BY <2>1 DEF Named, InFlight, Finished
  <2>3. \A u \in Tasks : task'[u].session = task[u].session
    BY <1>1, <1>5 DEF Boot, TypeOK, Task
  <2>4. \A q \in Runs : Named(q) => run[q].task \in Tasks
    BY <1>1 DEF Named, RowsOK, Created, Finished
  <2>5. \A q \in Runs : Named(q)' =>
          Named(q) /\ run'[q].task = run[q].task /\ child'[q].said = child[q].said
    BY <2>1, <2>2
  <2>6. \A q \in Runs : Named(q)' => task'[run[q].task].session = task[run[q].task].session
    BY <2>2, <2>3, <2>4
  <2> HIDE DEF Named
  <2> QED BY <2>5, <2>6, MemoryQuiet
<1>6. ASSUME run' = run, NEW S \in SUBSET InFlight,
             \A q \in Runs \ S : child'[q].said = child[q].said,
             \A u \in Tasks : RunsOf(u) # {} => task'[u].session = task[u].session
      PROVE  RemembersSession'
  <2>1. \A q \in Runs : Named(q)' => q \notin S
    BY <1>6 DEF Named, InFlight, Finished
  <2>2. \A q \in Runs : Named(q)' => Named(q)
    BY <1>6, <2>1 DEF Named, InFlight
  <2>3. \A q \in Runs : Named(q) => run[q].task \in Tasks /\ RunsOf(run[q].task) # {}
    BY <1>1 DEF Named, RowsOK, Created, Finished, RunsOf
  <2> QED BY <1>6, <2>1, <2>2, <2>3, MemoryQuiet
<1>7. ASSUME NEW r \in Runs, AgentSays(r)
      PROVE  RemembersSession'
  <2>1. run' = run /\ task' = task /\ {r} \in SUBSET InFlight
    BY <1>1, <1>7, AliveFacts DEF AgentSays
  <2>2. \A q \in Runs \ {r} : child'[q].said = child[q].said
    BY <1>1, <1>7 DEF AgentSays, TypeOK
  <2> QED BY <1>6, <2>1, <2>2
<1>8. ASSUME Die PROVE \A q \in Runs : child'[q].said = child[q].said
  BY <1>1, <1>8 DEF Die, TypeOK, Child
<1>9. ASSUME NEW t \in Tasks, DelegateCut(t)
      PROVE  RemembersSession'
  <2>1. PICK row : InsertOnly(t, row) /\ task[t].status = "absent"
    BY <1>9 DEF DelegateCut, Accepts, AcceptsDaily
  <2>2. /\ run' = run /\ \A q \in Runs : child'[q].said = child[q].said
        /\ task' = [task EXCEPT ![t] = row]
    BY <1>8, <2>1 DEF InsertOnly
  <2>3. RunsOf(t) = {}
    BY <1>1, <2>1, DelegationAssumption DEF RunsOf, RowsOK, Created, NoRun
  <2>4. \A u \in Tasks : RunsOf(u) # {} => task'[u].session = task[u].session
    BY <1>1, <2>2, <2>3 DEF TypeOK
  <2>5. {} \in SUBSET InFlight
    OBVIOUS
  <2> QED BY <1>6, <2>2, <2>4, <2>5
<1>10. ASSUME run' = run, \A q \in Runs : child'[q].said = child[q].said,
              \A u \in Tasks : task'[u].session = task[u].session
       PROVE  RemembersSession'
  <2>1. {} \in SUBSET InFlight /\ Runs \ {} = Runs
    OBVIOUS
  <2>2. \A u \in Tasks : RunsOf(u) # {} => task'[u].session = task[u].session
    BY <1>10
  <2> QED BY <1>6, <1>10, <2>1, <2>2
<1>11. ASSUME NEW S, Abort(S)
       PROVE  RemembersSession'
  <2>1. run' = run /\ task' = task /\ \A q \in Runs : child'[q].said = child[q].said
    BY <1>1, <1>11 DEF Abort, TypeOK, Child
  <2> QED BY <1>10, <2>1
<1>12. ASSUME NEW t \in Tasks, Archive(t) \/ Unarchive(t)
       PROVE  RemembersSession'
  <2>1. run' = run /\ child' = child /\ \E flag \in BOOLEAN : task' = [task EXCEPT ![t].archived = flag]
    BY <1>12 DEF Archive, Unarchive
  <2>2. \A u \in Tasks : task'[u].session = task[u].session
    BY <1>1, <2>1 DEF TypeOK, Task
  <2> QED BY <1>10, <2>1, <2>2
<1>13. ASSUME NEW r \in Runs, OrphanEnds(r)
       PROVE  RemembersSession'
  <2>1. run' = run /\ task' = task /\ \A q \in Runs : child'[q].said = child[q].said
    BY <1>1, <1>13 DEF OrphanEnds, TypeOK, Child
  <2> QED BY <1>10, <2>1
<1>14. ASSUME Crash PROVE RemembersSession'
  <2>1. run' = run /\ task' = task /\ \A q \in Runs : child'[q].said = child[q].said
    BY <1>8, <1>14 DEF Crash
  <2> QED BY <1>10, <2>1
<1>15. ASSUME UNCHANGED vars PROVE RemembersSession'
  BY <1>10, <1>15 DEF vars
<1>16. ASSUME NEW t \in Tasks, NEW r \in Runs, Delegate(t, r) \/ GenerateDaily(t, r)
       PROVE  RemembersSession'
  <2>1. CASE \E q \in Request, port \in Blocks : Accepts(t, q, port) /\ Launch(t, r, NewTask(q, port))
    BY <1>1, <1>2, <2>1, NewRowsTyped DEF Accepts
  <2>2. CASE \E d \in Dates, runner \in Runners, port \in Blocks :
               AcceptsDaily(t, d, port) /\ Launch(t, r, NewDailyTask(d, runner, port))
    BY <1>1, <1>2, <2>2, NewRowsTyped DEF AcceptsDaily
  <2> QED BY <1>16, <2>1, <2>2 DEF Delegate, GenerateDaily
<1>17. ASSUME Shutdown \/ (\E t \in Tasks : Cancel(t)) \/ \E r \in Runs : Timeout(r)
       PROVE  RemembersSession'
  BY <1>11, <1>17 DEF Shutdown, Cancel, Timeout
<1>18. \A r \in Runs : ~Catch(r)
  BY <1>1 DEF Catch, MemoryInv, RunsInv, SettlingOK
<1>19. RemembersSession'
  BY <1>3, <1>4, <1>5, <1>7, <1>9, <1>12, <1>13, <1>14, <1>15, <1>16, <1>17, <1>18
     DEF Next, FinishCaught, FinishThrows, FinishLost
<1> QED BY <1>1, <1>19 DEF MemoryInv

\* Unless the store fails, a task resumes the session that the last of its
\* settled runs has named, whatever was continued, aborted or swept in between
\* (finishRun, COALESCE).
THEOREM SessionsAreRemembered == ~StoreMayFail => (Spec => []RemembersSession)
<1>1. Init => MemoryInv
  BY InitEstablishes DEF MemoryInv, RemembersSession, Init, NoRun, Finished
<1> SUFFICES ASSUME ~StoreMayFail PROVE Spec => []RemembersSession
  OBVIOUS
<1>2. MemoryInv /\ [Next]_vars => MemoryInv'
  BY MemoryKeeps
<1>3. MemoryInv => RemembersSession
  BY DEF MemoryInv
<1> QED BY <1>1, <1>2, <1>3, PTL DEF Spec
=============================================================================
