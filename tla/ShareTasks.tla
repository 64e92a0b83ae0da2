----------------------------- MODULE ShareTasks -----------------------------
(***************************************************************************)
(* Implementations delegated through a share (implementShare,              *)
(* remoteTaskView): the row of the request follows a delegated task, whose *)
(* run is settled by delegation-launch.ts in two transactions, and which   *)
(* the owner may continue.  A row that a restart has left behind is only   *)
(* settled when an asker polls the task.                                   *)
(*                                                                         *)
(* One share; the run of a task is known by the row of the task and by its *)
(* entry in activeRuns.  Delegation and Worktrees model what a run does.   *)
(***************************************************************************)
EXTENDS Naturals, FiniteSets

CONSTANTS
  Tasks,
  MaxContinues, \* bound: continuations by the owner, of all tasks
  MaxFaults     \* bound: failed transactions and restarts

ShareTasksAssumption == MaxContinues \in Nat /\ MaxFaults \in Nat

VARIABLES
  share,
  knocking, \* a POST /implement is authorised, its body not yet read
  task,
  request,  \* hub_share_requests: the status of the row of each task
  continues,
  faults

vars == <<share, knocking, task, request, continues, faults>>

\* active: in activeRuns; late: accepted after the share was closed; again:
\* continued by the owner; bare: begun without a row in hub_share_requests.
Task == [status : {"none", "running", "completed", "failed"}, active : BOOLEAN,
         aborted : BOOLEAN, late : BOOLEAN, again : BOOLEAN, bare : BOOLEAN]

NoTask == [status |-> "none", active |-> FALSE, aborted |-> FALSE,
           late |-> FALSE, again |-> FALSE, bare |-> FALSE]

TypeOK ==
  /\ share \in {"active", "paused", "revoked", "deleted"}
  /\ knocking \in BOOLEAN
  /\ task \in [Tasks -> Task]
  /\ request \in [Tasks -> {"none", "running", "completed", "failed"}]
  /\ continues \in 0..MaxContinues /\ faults \in 0..MaxFaults

Init ==
  /\ share = "active" /\ knocking = FALSE
  /\ task = [t \in Tasks |-> NoTask]
  /\ request = [t \in Tasks |-> "none"]
  /\ continues = 0 /\ faults = 0

Fault == faults < MaxFaults /\ faults' = faults + 1

-----------------------------------------------------------------------------
(* Requests to the share endpoint *)

Knock ==
  /\ share = "active" /\ ~knocking /\ knocking' = TRUE
  /\ UNCHANGED <<share, task, request, continues, faults>>

HasRunningImplement == \E t \in Tasks : request[t] = "running"

ImplementRefused ==
  /\ knocking /\ HasRunningImplement /\ knocking' = FALSE
  /\ UNCHANGED <<share, task, request, continues, faults>>

\* delegateTask begins a run.  The share is the one that was authorised,
\* whatever became of it since.
Delegate(t, active, bare) ==
  /\ knocking /\ knocking' = FALSE
  /\ ~HasRunningImplement /\ task[t].status = "none"
  /\ task' = [task EXCEPT ![t] = [NoTask EXCEPT !.status = "running", !.active = active,
                                     !.late = share # "active", !.bare = bare]]
  /\ UNCHANGED <<share, continues>>

\* Mutant of Implement: the row is written when the run ends.
Implement_NoRow(t) == Delegate(t, TRUE, FALSE) /\ UNCHANGED <<request, faults>>

Implement(t) ==
  /\ Delegate(t, TRUE, FALSE)
  /\ request' = [request EXCEPT ![t] = "running"]
  /\ UNCHANGED faults

\* delegateTask or createShareRequest throws once the run is begun: the row is
\* not written, and the agent works on if it was launched.
ImplementThrows(t) ==
  /\ Fault
  /\ \E active \in BOOLEAN : Delegate(t, active, TRUE)
  /\ UNCHANGED request

Follow(t, status) == [request EXCEPT ![t] = IF @ = "running" THEN status ELSE @]

\* Mutant of Poll: asking for the task changes nothing.
Poll_ReadsOnly(t) ==
  /\ share = "active" /\ task[t].status \in {"completed", "failed"}
  /\ UNCHANGED vars

\* remoteTaskView: GET /tasks/:id, and GET /tasks for each task.
Poll(t) ==
  /\ share = "active" /\ task[t].status \in {"completed", "failed"}
  /\ request' = Follow(t, task[t].status)
  /\ UNCHANGED <<share, knocking, task, continues, faults>>

-----------------------------------------------------------------------------
(* The run *)

Settled(t, status) == [task EXCEPT ![t].status = status, ![t].active = FALSE]

\* finishRun and finishShareRequestByTask, as the run ends.
Ends(t, ok) ==
  LET status == IF ok /\ ~task[t].aborted THEN "completed" ELSE "failed" IN
  /\ task[t].active
  /\ task' = Settled(t, status) /\ request' = Follow(t, status)
  /\ UNCHANGED <<share, knocking, continues, faults>>

\* One of the two throws: the run is settled again, as failed, with its
\* request.  When finishRun throws once more it stays on record as it was, that
\* is as running or with the verdict of the agent.
EndsBadly(t) ==
  /\ task[t].active /\ Fault
  /\ \E status \in {"failed", "running", "completed"} :
       /\ status = "completed" => ~task[t].aborted
       /\ task' = Settled(t, status)
  /\ request' = Follow(t, "failed")
  /\ UNCHANGED <<share, knocking, continues>>

\* The owner continues the task; a run that is on record as running refuses.
Continue(t) ==
  /\ task[t].status \in {"completed", "failed"}
  /\ continues < MaxContinues /\ continues' = continues + 1
  /\ task' = [task EXCEPT ![t].status = "running", ![t].active = TRUE,
                          ![t].aborted = FALSE, ![t].again = TRUE]
  /\ UNCHANGED <<share, knocking, request, faults>>

\* markRunningAsInterrupted
Interrupted(tasks) ==
  [t \in Tasks |-> IF tasks[t].status = "running"
                   THEN [tasks[t] EXCEPT !.status = "failed", !.active = FALSE] ELSE tasks[t]]

\* The hub dies and boots; the requests of implementations are left as they
\* are.  It may die between two transactions: the run and its request are not
\* settled together, and the task is there before the row of its request.
Crash ==
  /\ Fault
  /\ knocking' = FALSE
  /\ \/ task' = Interrupted(task)
     \/ \E t \in Tasks : task[t].active /\ task' = Interrupted(Settled(t, "completed"))
     \/ \E t \in Tasks :
          /\ knocking /\ ~HasRunningImplement /\ task[t].status = "none"
          /\ task' = Interrupted([task EXCEPT ![t].status = "running"])
  /\ UNCHANGED <<share, request, continues>>

-----------------------------------------------------------------------------
(* The owner *)

AbortShareTasks == task' = [t \in Tasks |-> [task[t] EXCEPT !.aborted = @ \/ task[t].active]]

Close(state) ==
  /\ share \in {"active", "paused"} /\ share # state /\ share' = state
  /\ AbortShareTasks
  /\ UNCHANGED <<knocking, request, continues, faults>>

Reopen ==
  /\ share = "paused" /\ share' = "active"
  /\ UNCHANGED <<knocking, task, request, continues, faults>>

Delete ==
  /\ share # "deleted" /\ share' = "deleted"
  /\ AbortShareTasks
  /\ request' = [t \in Tasks |-> "none"]
  /\ UNCHANGED <<knocking, continues, faults>>

-----------------------------------------------------------------------------
Next ==
  \/ Knock
  \/ ImplementRefused
  \/ \E t \in Tasks : Implement(t) \/ ImplementThrows(t)
  \/ \E t \in Tasks : Poll(t)
  \/ \E t \in Tasks, ok \in BOOLEAN : Ends(t, ok)
  \/ \E t \in Tasks : EndsBadly(t)
  \/ \E t \in Tasks : Continue(t)
  \/ Crash
  \/ \E state \in {"paused", "revoked"} : Close(state)
  \/ Reopen
  \/ Delete

Spec == Init /\ [][Next]_vars

\* A run ends, at the latest by its timeout.  An asker follows its task until
\* it is completed or failed, as the document of the share says.
FairSpec ==
  /\ Spec
  /\ \A t \in Tasks : WF_vars(\E ok \in BOOLEAN : Ends(t, ok))
  /\ \A t \in Tasks : WF_vars(Poll(t))

-----------------------------------------------------------------------------
(* Properties *)

\* One implementation at a time (DELEGATION.md:110): of the runs that askers
\* have started and nobody has aborted or continued, one is in flight at
\* most, also after crashes and failed settlements, apart from those whose row
\* could not be written; and none of all is once the share is closed, unless it
\* had been authorised before.
OneImplementation ==
  LET working == {t \in Tasks : task[t].active /\ ~task[t].aborted /\ ~task[t].again} IN
  /\ Cardinality({t \in working : ~task[t].bare}) <= 1
  /\ share # "active" => \A t \in working : task[t].late

\* The share does not refuse every further implementation: a request that is on
\* record as running is settled, also when the hub died before its verdict, as
\* long as the asker follows the task and the share stays open.
RequestSettles ==
  \A t \in Tasks : request[t] = "running" ~> (request[t] # "running" \/ share # "active")
=============================================================================
