----------------------------- MODULE Delegation -----------------------------
(***************************************************************************)
(* Delegated tasks and their runs (delegation-launch.ts, delegation-store  *)
(* .ts, executor.ts, task-ports.ts and the task routes).                   *)
(*                                                                         *)
(* A task is a row of hub_tasks, a run a row of hub_runs: both survive a   *)
(* crash.  The controllers of activeRuns and the promise chain of startRun *)
(* live in the hub process and die with it; the agent processes it spawned *)
(* may outlive it.  The hub is one Node process, so a handler runs without *)
(* interruption up to its first await: every action below is one such      *)
(* stretch, and a crash may fall between two of its store transactions.    *)
(* Where a promise chain goes on after one of them the hub is "settling":  *)
(* the handlers wait for it, a crash and the agents do not.                *)
(***************************************************************************)
EXTENDS Naturals, FiniteSets

CONSTANTS
  Tasks,        \* task ids (randomUUID), finitely many
  Runs,         \* run ids (randomUUID)
  Repos,        \* repositories of the workspaces
  GitRepos,     \* the repositories in which "git worktree add" succeeds
  Dates,        \* days a daily note can be generated for
  Asked,        \* the values of "isolation" clients send: {"shared", "worktree", None}
  Runners,      \* the runners in use: a subset of {"claude", "codex"}
  Blocks,       \* the port blocks, numbered upwards from PORT_RANGE_START
  ListLimit,    \* rows listTasks returns at most (500)
  Archivable,   \* the tasks somebody may archive: a bound for TLC
  StoreMayFail, \* may a store call of the promise chain throw?
  None          \* null

ASSUME DelegationAssumption ==
  /\ IsFiniteSet(Tasks)
  /\ GitRepos \subseteq Repos
  /\ Asked \subseteq {"shared", "worktree", None}
  /\ Runners \subseteq {"claude", "codex"}
  /\ Blocks \subseteq Nat
  /\ ListLimit \in Nat
  /\ Archivable \subseteq Tasks
  /\ StoreMayFail \in BOOLEAN
  /\ None \notin Tasks \cup Runs \cup Repos \cup Dates \cup Blocks

VARIABLES
  hub,        \* "up", "settling" or "down": the server process
  task,       \* hub_tasks: a record for every task id
  newer,      \* updated_at: the tasks updated more recently than this one
  run,        \* hub_runs: a record for every run id
  activeRuns, \* the map from a task to the run whose AbortController it has
  child       \* the agent process of every run

vars == <<hub, task, newer, run, activeRuns, child>>

-----------------------------------------------------------------------------
(* Types *)

Active   == {"pending", "running"}
Finished == {"completed", "attention", "failed", "interrupted", "cancelled"}
TaskStatus == {"absent"} \cup Active \cup Finished
RunStatus  == {"none", "running"} \cup Finished

Isolation == {"shared", "worktree"}
Reason    == {"requested", "busy-repo", "default"}

Task == [status    : TaskStatus,
         runner    : {"claude", "codex"},
         repo      : Repos \cup {None},
         isolation : Isolation,
         reason    : Reason \cup {None},
         port      : Blocks \cup {None},
         session   : Runs \cup {None},  \* a session is named by the run that opened it
         date      : Dates \cup {None},
         archived  : BOOLEAN]

\* The column seq is MAX(seq) + 1 over the runs of the task.  All that matters
\* is which runs it exceeds, so "earlier" holds those runs.
Run == [status  : RunStatus,
        task    : Tasks \cup {None},
        earlier : SUBSET Runs,
        kind    : {"launch", "continue"},
        session : Runs \cup {None}]

\* said: the session id the agent has reported on its stream, as far as the hub
\* has read it; aborted: the AbortController of the run has fired.
Child == [state : {"none", "alive", "orphan", "closed"},
          said : Runs \cup {None},
          aborted : BOOLEAN]

NoTask  == [status |-> "absent", runner |-> "claude", repo |-> None,
            isolation |-> "shared", reason |-> None, port |-> None,
            session |-> None, date |-> None, archived |-> FALSE]
NoRun   == [status |-> "none", task |-> None, earlier |-> {},
            kind |-> "launch", session |-> None]
NoChild == [state |-> "none", said |-> None, aborted |-> FALSE]

TypeOK ==
  /\ hub \in {"up", "settling", "down"}
  /\ task \in [Tasks -> Task]
  /\ newer \in [Tasks -> SUBSET Tasks]
  /\ run \in [Runs -> Run]
  /\ activeRuns \in [Tasks -> Runs \cup {None}]
  /\ child \in [Runs -> Child]

Init ==
  /\ hub = "up"
  /\ task = [t \in Tasks |-> NoTask]
  /\ newer = [t \in Tasks |-> {}]
  /\ run = [r \in Runs |-> NoRun]
  /\ activeRuns = [t \in Tasks |-> None]
  /\ child = [r \in Runs |-> NoChild]

-----------------------------------------------------------------------------
(* The store *)

Created == {t \in Tasks : task[t].status # "absent"}
RunsOf(t) == {r \in Runs : run[r].task = t}
InFlight == {r \in Runs : run[r].status = "running"}

\* Mutant of ActiveTasks: the filter forgets the tasks not begun yet.
ActiveRunningOnly ==
  {t \in Created : task[t].status = "running" /\ Cardinality(newer[t]) < ListLimit}

\* listTasks({ limit: 500, includeArchived: true }) is ordered by updated_at,
\* the most recent first, and cut at the limit; then the active ones are kept.
ActiveTasks ==
  {t \in Created : task[t].status \in Active /\ Cardinality(newer[t]) < ListLimit}

\* Every UPDATE of a task sets updated_at: the tasks of S become the newest.
Touch(S) ==
  newer' = [t \in Tasks |->
              IF t \in S THEN newer[t] \cap S
              ELSE IF t \in Created THEN newer[t] \cup S
              ELSE newer[t]]

\* INSERT of a new task.
Insert(t) ==
  newer' = [u \in Tasks |-> IF u \in Created THEN newer[u] \cup {t} ELSE {}]

\* Mutant of HasRunningRun: beginRun without its busy check.
HasRunningRunUnchecked(t) == FALSE

\* The SELECT of beginRun's transaction, behind TaskBusyError.
HasRunningRun(t) == RunsOf(t) \cap InFlight # {}

\* The row beginRun inserts.
NewRun(t, r, kind, session) ==
  [status |-> "running", task |-> t, earlier |-> RunsOf(t),
   kind |-> kind, session |-> session]

-----------------------------------------------------------------------------
(* Launching *)

\* resolveIsolation
ResolveIsolation(requested, busy, hasRepo) ==
  IF requested # None THEN [isolation |-> requested, reason |-> "requested"]
  ELSE IF busy /\ hasRepo THEN [isolation |-> "worktree", reason |-> "busy-repo"]
  ELSE [isolation |-> "shared", reason |-> "default"]

\* Mutant of RepoBusy: only the tasks already isolated count.
RepoBusyInverted(repo) ==
  \E u \in ActiveTasks : task[u].isolation = "worktree" /\ task[u].repo = repo

\* Does a task in flight work in the shared checkout of this repository?
RepoBusy(repo) ==
  \E u \in ActiveTasks : task[u].isolation = "shared" /\ task[u].repo = repo

UsedBlocks == {task[u].port : u \in ActiveTasks} \ {None}

FreeBlocks == Blocks \ UsedBlocks

\* allocatePortBase: the lowest free block; it throws when there is none.
IsPortBase(b) == b \in FreeBlocks /\ \A c \in FreeBlocks : b <= c

\* The session id startRun plans for a run that resumes none.
PlannedSession(runner, r) == IF runner = "claude" THEN r ELSE None

\* startRun: beginRun, the controller, the spawn.  Between the last two it reads
\* the timeout and the claims of the repository: when that throws, the run and
\* the controller stay behind without an agent.
Spawned   == [state |-> "alive", said |-> None, aborted |-> FALSE]
Unspawned == [state |-> "closed", said |-> None, aborted |-> FALSE]
Agents    == IF StoreMayFail THEN {Spawned, Unspawned} ELSE {Spawned}

\* A request to delegate; git tells whether "git worktree add" would succeed.
Request == {q \in [repo : Repos \cup {None}, isolation : Asked,
                   runner : Runners, git : BOOLEAN] : q.repo \in GitRepos => q.git}

Wanted(q) == ResolveIsolation(q.isolation, RepoBusy(q.repo), q.repo # None)

\* The request gets past prepareWorktree (which throws without a repository,
\* and when git fails unless the isolation was the hub's own choice) and past
\* allocatePortBase.
Accepts(t, q, port) ==
  /\ hub = "up"
  /\ task[t].status = "absent"
  /\ Wanted(q).isolation = "worktree" =>
       q.repo # None /\ (q.git \/ Wanted(q).reason = "busy-repo")
  /\ IsPortBase(port)

\* The row delegateTask inserts.
NewTask(q, port) ==
  LET refused == Wanted(q).isolation = "worktree" /\ ~q.git
  IN [NoTask EXCEPT !.status = "pending",
                    !.runner = q.runner,
                    !.repo = q.repo,
                    !.isolation = IF refused THEN "shared" ELSE Wanted(q).isolation,
                    !.reason = IF refused THEN "default" ELSE Wanted(q).reason,
                    !.port = port]

\* Mutant of DailyBusy: a daily task waiting for its run does not count.
DailyBusyRunningOnly(d) == \E u \in Tasks : task[u].date = d /\ task[u].status = "running"

\* activeDailyTask(date): unlike listTasks this query has no limit.
DailyBusy(d) == \E u \in Tasks : task[u].date = d /\ task[u].status \in Active

\* generateDaily up to the insert, and the row createInternalTask inserts.
AcceptsDaily(t, d, port) ==
  /\ hub = "up"
  /\ task[t].status = "absent"
  /\ ~DailyBusy(d)
  /\ IsPortBase(port)

NewDailyTask(d, runner, port) ==
  [NoTask EXCEPT !.status = "pending", !.runner = runner, !.port = port, !.date = d]

\* Everything after the insert: beginRun commits the run and the status of the
\* task, the controller is registered, the agent is spawned.
Launch(t, r, row) ==
  /\ run[r].status = "none"
  /\ run' = [run EXCEPT ![r] =
               NewRun(t, r, "launch", PlannedSession(row.runner, r))]
  /\ task' = [task EXCEPT ![t] = [row EXCEPT !.status = "running"]]
  /\ activeRuns' = [activeRuns EXCEPT ![t] = r]
  /\ \E agent \in Agents : child' = [child EXCEPT ![r] = agent]
  /\ Insert(t)
  /\ UNCHANGED hub

\* POST /tasks, and the delegations of the board and of the shares.
Delegate(t, r) ==
  \E q \in Request, port \in Blocks : Accepts(t, q, port) /\ Launch(t, r, NewTask(q, port))

\* POST /daily/:date/generate
GenerateDaily(t, r) ==
  \E d \in Dates, runner \in Runners, port \in Blocks :
    AcceptsDaily(t, d, port) /\ Launch(t, r, NewDailyTask(d, runner, port))

-----------------------------------------------------------------------------
(* Crash and restart *)

\* The process ends: its controllers are gone, and of the agents it spawned
\* some end with it and some do not.
Die ==
  /\ hub' = "down"
  /\ activeRuns' = [t \in Tasks |-> None]
  /\ \E survivors \in SUBSET {r \in Runs : child[r].state = "alive"} :
       child' = [r \in Runs |->
                   IF child[r].state # "alive" THEN child[r]
                   ELSE [child[r] EXCEPT !.state =
                           IF r \in survivors THEN "orphan" ELSE "closed"]]

Crash ==
  /\ hub # "down"
  /\ Die
  /\ UNCHANGED <<task, newer, run>>

\* createTask and beginRun are two transactions: the hub dies between them, or
\* the second one throws, and the task stays pending.
InsertOnly(t, row) ==
  /\ task' = [task EXCEPT ![t] = row]
  /\ Insert(t)
  /\ UNCHANGED run
  /\ \/ Die
     \/ StoreMayFail /\ UNCHANGED <<hub, activeRuns, child>>

DelegateCut(t) ==
  \/ \E q \in Request, port \in Blocks : Accepts(t, q, port) /\ InsertOnly(t, NewTask(q, port))
  \/ \E d \in Dates, runner \in Runners, port \in Blocks :
       AcceptsDaily(t, d, port) /\ InsertOnly(t, NewDailyTask(d, runner, port))

\* Mutants of SweptTasks, SweptRuns and SweptStatus: the sweep leaves the tasks
\* or the runs alone, catches settled runs, or queues the runs again.
SweptTasksNone == {}
SweptRunsNone == {}
SweptRunsUncompleted == {r \in Runs : run[r].status \notin {"none", "completed"}}
SweptStatusRequeued == "pending"

\* What the two UPDATEs of markRunningAsInterrupted select, and what they set.
SweptTasks == {t \in Tasks : task[t].status = "running"}
SweptRuns == InFlight
SweptStatus == "interrupted"

\* The hub starts: markRunningAsInterrupted, in one transaction.
Boot ==
  /\ hub = "down"
  /\ hub' = "up"
  /\ run' = [r \in Runs |-> IF r \in SweptRuns
                            THEN [run[r] EXCEPT !.status = SweptStatus] ELSE run[r]]
  /\ task' = [t \in Tasks |-> IF t \in SweptTasks
                              THEN [task[t] EXCEPT !.status = "interrupted"] ELSE task[t]]
  /\ Touch(SweptTasks)
  /\ UNCHANGED <<activeRuns, child>>

-----------------------------------------------------------------------------
(* Steering a task *)

\* POST /tasks/:id/continue launches again a task without a session.
ContinueKind(t) == IF task[t].session = None THEN "launch" ELSE "continue"

ContinueSession(t, r) ==
  IF ContinueKind(t) = "continue" THEN task[t].session
  ELSE PlannedSession(task[t].runner, r)

\* POST /tasks/:id/continue: 409 when beginRun finds a run in flight.  Neither
\* the ports nor the repository are looked at again, nor is archived_at.
Continue(t, r) ==
  /\ hub = "up"
  /\ t \in Created
  /\ ~HasRunningRun(t)
  /\ run[r].status = "none"
  /\ run' = [run EXCEPT ![r] = NewRun(t, r, ContinueKind(t), ContinueSession(t, r))]
  /\ task' = [task EXCEPT ![t].status = "running"]
  /\ activeRuns' = [activeRuns EXCEPT ![t] = r]
  /\ \E agent \in Agents : child' = [child EXCEPT ![r] = agent]
  /\ Touch({t})
  /\ UNCHANGED hub

\* Mutant of Abort: abortRun drops the controller it has fired.
AbortForgets(S) ==
  /\ child' = [r \in Runs |-> IF \E t \in S : activeRuns[t] = r
                              THEN [child[r] EXCEPT !.aborted = TRUE] ELSE child[r]]
  /\ activeRuns' = [t \in Tasks |-> IF t \in S THEN None ELSE activeRuns[t]]
  /\ UNCHANGED <<hub, task, newer, run>>

\* AbortController.abort on the controllers of the tasks in S.
Abort(S) ==
  /\ child' = [r \in Runs |-> IF \E t \in S : activeRuns[t] = r
                              THEN [child[r] EXCEPT !.aborted = TRUE] ELSE child[r]]
  /\ UNCHANGED <<hub, task, newer, run, activeRuns>>

\* POST /tasks/:id/cancel: 409 without a controller.
Cancel(t) == hub = "up" /\ activeRuns[t] # None /\ Abort({t})

\* The timer of startRun.
Timeout(r) ==
  /\ hub = "up"
  /\ \E t \in Tasks : activeRuns[t] = r /\ Abort({t})
  /\ ~child[r].aborted

\* SIGTERM: every run is aborted; the hub serves on until it exits (Crash).
Shutdown == hub = "up" /\ Abort(Tasks)

\* POST /tasks/:id/archive: 409 for a task in flight.
Archive(t) ==
  /\ hub = "up"
  /\ t \in Archivable
  /\ task[t].status \in Finished
  /\ task' = [task EXCEPT ![t].archived = TRUE]
  /\ Touch({t})
  /\ UNCHANGED <<hub, run, activeRuns, child>>

\* POST /tasks/:id/unarchive
Unarchive(t) ==
  /\ hub = "up"
  /\ t \in Created
  /\ task' = [task EXCEPT ![t].archived = FALSE]
  /\ Touch({t})
  /\ UNCHANGED <<hub, run, activeRuns, child>>

-----------------------------------------------------------------------------
(* The agent and the end of a run *)

\* A line of the agent's stream names its session: the one it was told to
\* resume or open, or one of its own.
AgentSays(r) ==
  /\ hub = "up"
  /\ child[r].state = "alive"
  /\ child[r].said = None
  /\ \E s \in {r, run[r].session} \ {None} : child' = [child EXCEPT ![r].said = s]
  /\ UNCHANGED <<hub, task, newer, run, activeRuns>>

\* Mutant of Verdicts: a result seen before the abort counts.
VerdictsIgnoringAbort(r) ==
  {"failed"} \cup (IF child[r].said = None THEN {} ELSE {"completed", "attention"})

\* The status settle() gives a run when its process closes: an aborted run is
\* cancelled whatever it printed; a result names the session, so a run that
\* never named one has failed; only the claude stream lists denied tools.
Verdicts(r) ==
  IF child[r].aborted THEN {"cancelled"}
  ELSE {"failed"} \cup
       (IF child[r].said = None THEN {}
        ELSE IF task[run[r].task].runner = "claude" THEN {"completed", "attention"}
        ELSE {"completed"})

\* Mutant of Coalesce: COALESCE(session_id, @sessionId), the arguments swapped.
CoalesceSwapped(new, old) == IF old = None THEN new ELSE old

\* COALESCE(@sessionId, session_id) of finishRunStmt and touchTaskStmt.
Coalesce(new, old) == IF new = None THEN old ELSE new

\* The .finally of the chain, and the process that is no more.
Forget(r) ==
  /\ activeRuns' = [activeRuns EXCEPT ![run[r].task] = None]
  /\ child' = [child EXCEPT ![r].state = "closed"]

Closes(r) ==
  /\ hub = "up"
  /\ child[r].state = "alive"

\* finishRun: the run and its task in one transaction, both sessions COALESCEd.
Store(r, status, session) ==
  /\ run' = [run EXCEPT ![r].status = status,
                        ![r].session = Coalesce(session, @)]
  /\ task' = [task EXCEPT ![run[r].task].status = status,
                          ![run[r].task].session = Coalesce(session, @)]
  /\ Touch({run[r].task})

\* One finishRun, and the chain is through.
Settle(r, status, session) ==
  /\ Store(r, status, session)
  /\ Forget(r)
  /\ UNCHANGED hub

\* The process closes and the .then of the chain settles the run.
Finish(r) ==
  /\ Closes(r)
  /\ \E verdict \in Verdicts(r) : Settle(r, verdict, child[r].said)

\* The .then throws before its finishRun has committed, and the .catch settles
\* the run as failed.
FinishCaught(r) ==
  /\ StoreMayFail
  /\ Closes(r)
  /\ Settle(r, "failed", None)

\* The .then stores its verdict; then the transaction that ends the session, or
\* the one that settles the share request, throws.
FinishThrows(r) ==
  /\ StoreMayFail
  /\ Closes(r)
  /\ \E verdict \in Verdicts(r) : Store(r, verdict, child[r].said)
  /\ child' = [child EXCEPT ![r].state = "closed"]
  /\ hub' = "settling"
  /\ UNCHANGED activeRuns

\* The run whose chain is at its .catch with a verdict already stored.
Settling(r) ==
  /\ hub = "settling"
  /\ run[r].status \in Finished
  /\ activeRuns[run[r].task] = r

\* The .catch settles that run once more, as failed, unless its own finishRun
\* throws and the stored verdict stays; then the .finally lets go.
Catch(r) ==
  /\ Settling(r)
  /\ Store(r, "failed", None) \/ UNCHANGED <<task, newer, run>>
  /\ Forget(r)
  /\ hub' = "up"

\* finishRun throws in the .then and in the .catch: the run stays "running" in the store.
FinishLost(r) ==
  /\ StoreMayFail
  /\ Closes(r)
  /\ Forget(r)
  /\ UNCHANGED <<hub, task, newer, run>>

\* An agent that outlived its hub ends; nobody listens.
OrphanEnds(r) ==
  /\ child[r].state = "orphan"
  /\ child' = [child EXCEPT ![r].state = "closed"]
  /\ UNCHANGED <<hub, task, newer, run, activeRuns>>

-----------------------------------------------------------------------------
Next ==
  \/ \E t \in Tasks, r \in Runs :
       \/ Delegate(t, r)
       \/ GenerateDaily(t, r)
       \/ Continue(t, r)
  \/ \E t \in Tasks :
       \/ DelegateCut(t)
       \/ Cancel(t)
       \/ Archive(t)
       \/ Unarchive(t)
  \/ \E r \in Runs :
       \/ AgentSays(r)
       \/ Timeout(r)
       \/ Finish(r)
       \/ FinishCaught(r)
       \/ FinishThrows(r)
       \/ Catch(r)
       \/ FinishLost(r)
       \/ OrphanEnds(r)
  \/ Shutdown
  \/ Crash
  \/ Boot

Spec == Init /\ [][Next]_vars

\* What the code's own scheduling ensures: the timer of a run fires, a process
\* that was sent a SIGTERM closes, its close settles the run, a promise chain
\* goes on to its end, and somebody starts the hub again.  An agent that is not
\* aborted need never end.
Fairness ==
  /\ \A r \in Runs : WF_vars(Timeout(r)) /\ WF_vars(child[r].aborted /\ Finish(r))
  /\ WF_vars(\E r \in Runs : Catch(r))
  /\ WF_vars(Boot)

FairSpec == Spec /\ Fairness
-----------------------------------------------------------------------------
(* Properties *)

\* A task never has two runs in flight, whatever the interleaving of launches,
\* continuations, crashes and failing writes: what beginRun's transaction is for
\* ("task ... already has a run in flight").
OneRunInFlight ==
  \A q, r \in InFlight : run[q].task = run[r].task => q = r

LastRun(t, r) == run[r].task = t /\ \A q \in RunsOf(t) : q # r => q \in run[r].earlier

\* The status of a task is the status of its last run, and a task without runs
\* is pending: beginRun, finishRun and the sweep of the restart change both
\* tables together.
TaskFollowsLastRun ==
  \A t \in Created :
    IF RunsOf(t) = {} THEN task[t].status = "pending"
    ELSE \E r \in Runs : LastRun(t, r) /\ task[t].status = run[r].status

\* Every agent this hub process started can be aborted: its controller is the
\* one activeRuns holds for its task, and its run is the task's run in flight.
NoLostAgent ==
  \A r \in Runs : child[r].state = "alive" =>
    hub # "down" /\ run[r].status = "running" /\ activeRuns[run[r].task] = r

\* While the hub is up, a run in flight has an agent that cancel reaches.  Only a
\* store that fails leaves a run "running" whose agent is gone: when it fails as
\* the agent is about to be spawned, or twice as the run is settled.
RunningIsCancellable ==
  hub # "down" =>
    \A r \in InFlight :
      \/ child[r].state = "alive" /\ activeRuns[run[r].task] = r
      \/ child[r].state = "closed" /\ StoreMayFail

\* A cancelled, timed out or shut down run never ends as a success, also when
\* its result arrived before the abort or its process outlives the hub.
AbortIsFinal ==
  \A r \in Runs : child[r].aborted => run[r].status \notin {"completed", "attention"}

\* Once a run has a verdict nothing changes it: neither the close of a process
\* that outlived a restart, nor the sweep, nor a later run of the same task.  The
\* one exception is its own promise chain, which has not let go of it yet: its
\* .catch may turn the verdict into "failed", and changes nothing else of the run.
VerdictsStand ==
  [][\A r \in Runs : run[r].status \in Finished =>
       \/ run'[r] = run[r]
       \/ /\ hub = "settling" /\ activeRuns[run[r].task] = r
          /\ hub' = "up" /\ run'[r] = [run[r] EXCEPT !.status = "failed"]]_vars

NeverContinued(t) == \A q, r \in RunsOf(t) : q = r

\* Two tasks in flight that were launched and never continued have different
\* ports, as long as listTasks returns every task.
LaunchedPortsDistinct ==
  \A t, u \in Tasks :
    /\ t # u /\ task[t].status \in Active /\ task[u].status \in Active
    /\ NeverContinued(t) /\ NeverContinued(u)
    => task[t].port # task[u].port

\* The hub does not by itself launch two tasks into the same shared checkout of
\* a git repository.
LaunchedApart ==
  \A t, u \in Tasks :
    /\ t # u /\ task[t].status \in Active /\ task[u].status \in Active
    /\ NeverContinued(t) /\ NeverContinued(u)
    /\ task[t].repo = task[u].repo /\ task[t].repo \in GitRepos
    => ~(task[t].reason = "default" /\ task[u].reason = "default")

\* At most one generation of a day's note is in flight, continuations aside.
OneDailyGeneration ==
  \A t, u \in Tasks :
    /\ t # u /\ task[t].status \in Active /\ task[u].status \in Active
    /\ NeverContinued(t) /\ NeverContinued(u)
    => task[t].date = None \/ task[t].date # task[u].date

\* A task remembers the session its last settled run named: when a run was
\* settled by the executor and named a session, and no later run of the task
\* was, the task resumes that session.
RemembersSession ==
  \A r \in Runs :
    /\ run[r].status \in Finished \ {"interrupted"}
    /\ child[r].said # None
    /\ \A q \in Runs : r \in run[q].earlier =>
         child[q].said = None \/ run[q].status \in {"running", "interrupted"}
    => task[run[r].task].session = child[r].said

\* With a timeout set, no run stays in flight for ever, however often the hub
\* crashes.
EveryRunEnds ==
  \A r \in Runs : run[r].status = "running" ~> run[r].status # "running"

\* An aborted agent is settled as cancelled, or interrupted by a crash.
AbortTakesEffect ==
  \A r \in Runs : child[r].aborted /\ run[r].status = "running"
                    ~> run[r].status \in {"cancelled", "interrupted"}

-----------------------------------------------------------------------------
(* The inductive invariant *)

\* A run row that exists belongs to a task that exists, and its seq exceeds
\* those of runs of the same task only.
RowsOK ==
  \A r \in Runs :
    IF run[r].status = "none" THEN run[r] = NoRun /\ child[r] = NoChild
    ELSE /\ run[r].task \in Created
         /\ run[r].earlier \subseteq RunsOf(run[r].task) \ {r}
         /\ \A q \in run[r].earlier : r \notin run[q].earlier

\* The runs without a final verdict: those in flight, and the one whose chain has
\* stored a verdict and has not let go.
Unsettled == {r \in Runs : run[r].status = "running" \/ Settling(r)}

\* The run in flight is the last of its task, and the task says so.
InFlightIsLast ==
  \A r \in InFlight : LastRun(run[r].task, r) /\ task[run[r].task].status = "running"

\* A controller belongs to a run in flight whose agent is alive or could not be
\* spawned, or to the run whose chain is at its .catch.
ControllersOK ==
  \A t \in Tasks : activeRuns[t] # None =>
    /\ hub # "down"
    /\ activeRuns[t] \in Unsettled
    /\ run[activeRuns[t]].task = t

\* One chain at a time is between its transactions, and its run is the last of
\* its task.
SettlingOK ==
  \A r \in Runs : Settling(r) =>
    /\ LastRun(run[r].task, r)
    /\ child[r].state = "closed" /\ StoreMayFail
    /\ \A q \in Runs : Settling(q) => q = r

NewerOK == \A t \in Tasks : t \notin newer[t]

RunsInv ==
  /\ TypeOK
  /\ RowsOK
  /\ InFlightIsLast
  /\ TaskFollowsLastRun
  /\ ControllersOK
  /\ SettlingOK
  /\ NoLostAgent
  /\ RunningIsCancellable
  /\ AbortIsFinal

-----------------------------------------------------------------------------
(* The abstract specification: every task is a ledger of verdicts *)

Open(t) == IF RunsOf(t) \cap Unsettled = {} THEN None
           ELSE CHOOSE r \in RunsOf(t) : r \in Unsettled

Verdict(t) == {<<r, run[r].status>> : r \in RunsOf(t) \ Unsettled}

Ledger == INSTANCE TaskLedger WITH
  open <- [t \in Tasks |-> Open(t)], closed <- [t \in Tasks |-> Verdict(t)]

\* Crashes, lost writes and late processes included, the runs of a task are
\* opened one at a time and closed once each, when their promise chain or a
\* restart lets go of them, with one verdict that stays.
KeepsLedger == Ledger!Spec

-----------------------------------------------------------------------------
(* What the documentation says and the code does not do *)

\* DELEGATION.md, "Port reservation": every delegated task gets a reserved block
\* "so parallel tasks never collide", and every continue run receives it.
ParallelTasksNeverCollide ==
  \A t, u \in Tasks :
    t # u /\ task[t].status = "running" /\ task[u].status = "running"
      => task[t].port # task[u].port

\* DELEGATION.md: continue resumes "the same session"; only "a task whose launch
\* never produced a session is relaunched with a fresh one".
ContinueResumes ==
  [][\A r, q \in Runs :
       /\ run[r].status = "none" /\ run'[r].status = "running"
       /\ q \in run'[r].earlier /\ child[q].said # None
       => run'[r].kind = "continue"]_vars
=============================================================================
