----------------------------- MODULE Worktrees -----------------------------
(***************************************************************************)
(* Merging and discarding the worktrees of delegated tasks (worktrees.ts,  *)
(* the merge and discard routes).                                          *)
(*                                                                         *)
(* The tasks are those of one repository that were launched in a worktree  *)
(* of their own, on a branch hub/<task8> off one base branch.  A request   *)
(* is a handler: it runs without interruption up to its next await, and    *)
(* every await is one git command.  A step below is a git command together *)
(* with the stretch of the handler that follows it, so between the check   *)
(* of a handler and the command that relies on it anything may happen.     *)
(* When the hub dies, its git commands may still run to their end.         *)
(***************************************************************************)
EXTENDS Naturals, FiniteSets

CONSTANTS
  Tasks,        \* the tasks with a worktree of this repository
  Requests,     \* the merge and discard requests in flight at a time
  Conflicting,  \* the tasks whose branch conflicts with the base branch
  Discardable,  \* the tasks somebody may discard
  MaxCommits,   \* bound: commits an agent makes on a branch
  MaxRestarts,  \* bound: restarts of the hub
  None

ASSUME WorktreesAssumption ==
  /\ Conflicting \subseteq Tasks /\ Discardable \subseteq Tasks
  /\ MaxCommits \in Nat /\ MaxRestarts \in Nat
  /\ None \notin Tasks /\ Requests \cap Tasks = {} /\ Tasks \cap {"main", "other", "nowhere"} = {}

VARIABLES
  task,     \* hub_tasks: the columns the two handlers read and write
  orphans,  \* the tasks with an agent that outlived a restart of the hub
  tree,     \* git: the worktree and the branch of every task
  baseAt,   \* where the base branch is checked out: a branch is in one place at most
  midMerge, \* that checkout has a merge begun and not concluded
  lock,     \* mergeLocks has the repository
  req,      \* the requests
  restarts, \* how often the hub was restarted
  touched   \* history: the tasks whose agent wrote since the merge that last
            \* succeeded was accepted, and the requests it wrote under

vars == <<task, orphans, tree, baseAt, midMerge, lock, req, restarts, touched>>

-----------------------------------------------------------------------------
Task == [status : {"running", "done"},
         path   : BOOLEAN,             \* worktreePath is set
         merged : BOOLEAN]             \* mergedAt is set

\* head and landed: of the commits made on the branch, in order, how many
\* there are, and how many the base branch has.
Tree == [folder : BOOLEAN, branch : BOOLEAN, dirty : BOOLEAN,
         head : 0..MaxCommits, landed : 0..MaxCommits]

\* base: the original checkout, a worktree of the user's, or _merge-<task8>.
Places == {"main", "other"} \cup Tasks

MergeSteps   == {"status", "log", "head", "find", "add", "merge", "abort", "remove"}
DiscardSteps == {"rm", "branch"}

\* into: the checkout chosen to merge into; tmp: the worktree added for it;
\* failed: the merge has thrown; live: the hub that spawned the command still
\* waits for it.
Request == [step : {"idle"} \cup MergeSteps \cup DiscardSteps,
            task : Tasks \cup {None}, into : Places \cup {None}, tmp : Tasks \cup {None},
            failed : BOOLEAN, live : BOOLEAN]

Idle == [step |-> "idle", task |-> None, into |-> None, tmp |-> None,
         failed |-> FALSE, live |-> TRUE]

TypeOK ==
  /\ task \in [Tasks -> Task]
  /\ orphans \subseteq Tasks
  /\ tree \in [Tasks -> Tree]
  /\ baseAt \in Places \cup {"nowhere"}
  /\ midMerge \in BOOLEAN
  /\ lock \in BOOLEAN
  /\ req \in [Requests -> Request]
  /\ restarts \in 0..MaxRestarts
  /\ touched \subseteq Tasks \cup Requests

\* The tasks have just been launched, and nothing is merged yet.
Init ==
  /\ task = [t \in Tasks |-> [status |-> "running", path |-> TRUE, merged |-> FALSE]]
  /\ orphans = {}
  /\ tree = [t \in Tasks |-> [folder |-> TRUE, branch |-> TRUE, dirty |-> FALSE,
                              head |-> 0, landed |-> 0]]
  /\ baseAt \in {"main", "other", "nowhere"}
  /\ midMerge = FALSE
  /\ lock = FALSE
  /\ req = [q \in Requests |-> Idle]
  /\ restarts = 0
  /\ touched = {}

-----------------------------------------------------------------------------
(* Agents, clients and the user *)

\* The agent of a run is alive as long as its run is in flight.
Works(t) == (task[t].status = "running" \/ t \in orphans) /\ tree[t].folder

Touches(t) == touched' = touched \cup {t} \cup {q \in Requests : req[q].task = t}

\* The agent edits a file of its worktree, or commits what it edited.
AgentEdits(t) ==
  /\ Works(t)
  /\ tree' = [tree EXCEPT ![t].dirty = TRUE]
  /\ Touches(t)
  /\ UNCHANGED <<task, orphans, baseAt, midMerge, lock, req, restarts>>

AgentCommits(t) ==
  /\ Works(t) /\ tree[t].branch
  /\ tree[t].dirty /\ tree[t].head < MaxCommits
  /\ tree' = [tree EXCEPT ![t].dirty = FALSE, ![t].head = @ + 1]
  /\ Touches(t)
  /\ UNCHANGED <<task, orphans, baseAt, midMerge, lock, req, restarts>>

\* The agent ends and its run is settled; an orphan just ends.
AgentEnds(t) ==
  /\ \/ /\ task[t].status = "running"
        /\ task' = [task EXCEPT ![t].status = "done"]
        /\ UNCHANGED orphans
     \/ t \in orphans /\ orphans' = orphans \ {t} /\ UNCHANGED task
  /\ UNCHANGED <<tree, baseAt, midMerge, lock, req, restarts, touched>>

\* POST /tasks/:id/continue: only a run in flight refuses it, not a merge.
Continue(t) ==
  /\ task[t].status = "done"
  /\ task' = [task EXCEPT ![t].status = "running"]
  /\ UNCHANGED <<orphans, tree, baseAt, midMerge, lock, req, restarts, touched>>

\* The user checks the base branch out, or leaves it, between two merges.
UserSwitches ==
  /\ ~lock /\ ~midMerge
  /\ \/ baseAt = "nowhere" /\ baseAt' \in {"main", "other"}
     \/ baseAt \in {"main", "other"} /\ baseAt' = "nowhere"
  /\ UNCHANGED <<task, orphans, tree, midMerge, lock, req, restarts, touched>>

-----------------------------------------------------------------------------
(* POST /tasks/:id/merge *)

Goto(q, step) == req' = [req EXCEPT ![q].step = step]

\* Mutant of LockFree: the lock is not looked at.
LockNotChecked == TRUE

LockFree == ~lock

\* Both handlers refuse a task in flight, by the row they have read.
Refused(t) == task[t].status = "running"

\* Everything before the first await, up to the first git command.
MergeAccepted(q, t) ==
  /\ req[q].step = "idle"
  /\ ~Refused(t) /\ task[t].path /\ tree[t].folder
  /\ LockFree
  /\ lock' = TRUE
  /\ req' = [req EXCEPT ![q] = [Idle EXCEPT !.step = "status", !.task = t]]
  /\ touched' = touched \ {q}
  /\ UNCHANGED <<task, orphans, tree, baseAt, midMerge, restarts>>

\* The handler answers: the finally gives the lock back, and mergedAt is set if
\* nothing was thrown.  A command whose hub is gone changes neither.
Answer(q, ok) ==
  /\ req' = [req EXCEPT ![q] = Idle]
  /\ lock' = IF req[q].live THEN FALSE ELSE lock
  /\ IF req[q].live /\ ok
     THEN /\ task' = [task EXCEPT ![req[q].task].merged = TRUE]
          /\ touched' = IF q \in touched THEN touched ELSE touched \ {req[q].task}
     ELSE UNCHANGED <<task, touched>>

\* Mutant of IsDirty: git status is not asked.
IsDirtyIgnored(t) == FALSE

\* git status --porcelain has output, or fails for want of a folder.
IsDirty(t) == tree[t].dirty \/ ~tree[t].folder

\* git status, git log, git rev-parse and git worktree list read; a dead hub's
\* command of this kind has no effect.
MergeStatus(q) ==
  LET t == req[q].task
  IN /\ req[q].step = "status"
     /\ IF ~req[q].live \/ IsDirty(t) THEN Answer(q, FALSE)
        ELSE Goto(q, "log") /\ UNCHANGED <<lock, task, touched>>
     /\ UNCHANGED <<orphans, tree, baseAt, midMerge, restarts>>

MergeLog(q) ==
  LET t == req[q].task
      pending == tree[t].folder /\ tree[t].branch /\ tree[t].landed < tree[t].head
  IN /\ req[q].step = "log"
     /\ IF ~req[q].live \/ ~pending THEN Answer(q, FALSE)
        ELSE Goto(q, "head") /\ UNCHANGED <<lock, task, touched>>
     /\ UNCHANGED <<orphans, tree, baseAt, midMerge, restarts>>

\* Is the base branch checked out in the original checkout, or elsewhere?  That
\* may be the temporary worktree of a merge that a hub died under.
MergeFindsBase(q) ==
  LET place == IF req[q].step = "head" THEN {"main"} ELSE Places
      onward == IF req[q].step = "head" THEN "find" ELSE "add"
  IN /\ req[q].step \in {"head", "find"}
     /\ IF ~req[q].live THEN Answer(q, FALSE)
        ELSE /\ IF baseAt \in place
                THEN req' = [req EXCEPT ![q].step = "merge", ![q].into = baseAt]
                ELSE Goto(q, onward)
             /\ UNCHANGED <<lock, task, touched>>
     /\ UNCHANGED <<orphans, tree, baseAt, midMerge, restarts>>

\* git worktree add <tmp> <base>: refused where the branch is checked out.
MergeAdds(q) ==
  LET t == req[q].task
  IN /\ req[q].step = "add"
     /\ IF baseAt # "nowhere"
        THEN Answer(q, FALSE) /\ UNCHANGED baseAt
        ELSE /\ baseAt' = t
             /\ IF req[q].live
                THEN /\ req' = [req EXCEPT ![q].step = "merge", ![q].into = t, ![q].tmp = t]
                     /\ UNCHANGED <<lock, task, touched>>
                ELSE Answer(q, FALSE)
     /\ UNCHANGED <<orphans, tree, midMerge, restarts>>

\* After git merge: the worktree that was added for it is removed, whatever
\* happened; one that was found stays.
AfterMerge(q, ok) ==
  IF req[q].live /\ req[q].tmp # None
  THEN /\ req' = [req EXCEPT ![q].step = "remove", ![q].failed = ~ok]
       /\ UNCHANGED <<lock, task, touched>>
  ELSE Answer(q, ok)

\* Mutant of AfterConflict: the error of git merge is swallowed.
AfterConflictSwallowed(q) == AfterMerge(q, TRUE)

\* The catch of runMerge: git merge --abort comes next.
AfterConflict(q) ==
  IF req[q].live THEN Goto(q, "abort") /\ UNCHANGED <<lock, task, touched>> ELSE Answer(q, FALSE)

\* git merge --no-ff: it needs the branch, and a checkout that is on the base
\* branch and not in the middle of another merge.
Mergeable(q) == tree[req[q].task].branch /\ baseAt = req[q].into /\ ~midMerge

MergeMerges(q) ==
  LET t == req[q].task
  IN /\ req[q].step = "merge"
     /\ IF Mergeable(q) /\ t \notin Conflicting
        THEN /\ tree' = [tree EXCEPT ![t].landed = tree[t].head]
             /\ AfterMerge(q, TRUE)
             /\ UNCHANGED midMerge
        ELSE /\ midMerge' = (midMerge \/ Mergeable(q))
             /\ AfterConflict(q)
             /\ UNCHANGED tree
     /\ UNCHANGED <<orphans, baseAt, restarts>>

\* Mutant of MergeAborts: the checkout is left as the conflict left it.
MergeAbortsNothing(q) ==
  /\ req[q].step = "abort"
  /\ AfterMerge(q, FALSE)
  /\ UNCHANGED <<orphans, tree, baseAt, midMerge, restarts>>

\* git merge --abort ends whatever merge the checkout is in the middle of.
MergeAborts(q) ==
  /\ req[q].step = "abort"
  /\ midMerge' = (midMerge /\ baseAt # req[q].into)
  /\ AfterMerge(q, FALSE)
  /\ UNCHANGED <<orphans, tree, baseAt, restarts>>

\* git worktree remove --force <tmp>
MergeRemoves(q) ==
  /\ req[q].step = "remove"
  /\ baseAt' = IF baseAt = req[q].into THEN "nowhere" ELSE baseAt
  /\ midMerge' = (midMerge /\ baseAt # req[q].into)
  /\ Answer(q, ~req[q].failed)
  /\ UNCHANGED <<orphans, tree, restarts>>

-----------------------------------------------------------------------------
(* POST /tasks/:id/worktree/discard *)

DiscardAccepted(q, t) ==
  /\ req[q].step = "idle"
  /\ t \in Discardable
  /\ ~Refused(t) /\ task[t].path
  /\ req' = [req EXCEPT ![q] = [Idle EXCEPT !.step = "rm", !.task = t]]
  /\ UNCHANGED <<task, orphans, tree, baseAt, midMerge, lock, restarts, touched>>

\* git worktree remove --force, or git worktree prune where it fails because
\* the folder is gone already; what was not committed goes with the folder.
DiscardRemoves(q) ==
  /\ req[q].step = "rm"
  /\ tree' = [tree EXCEPT ![req[q].task].folder = FALSE, ![req[q].task].dirty = FALSE]
  /\ req' = IF req[q].live THEN [req EXCEPT ![q].step = "branch"] ELSE [req EXCEPT ![q] = Idle]
  /\ UNCHANGED <<task, orphans, baseAt, midMerge, lock, restarts, touched>>

\* git branch -D; whether it succeeds or not, worktreePath is cleared.
DiscardDeletes(q) ==
  LET t == req[q].task
  IN /\ req[q].step = "branch"
     /\ tree' = [tree EXCEPT ![t].branch = FALSE]
     /\ task' = IF req[q].live THEN [task EXCEPT ![t].path = FALSE] ELSE task
     /\ req' = [req EXCEPT ![q] = Idle]
     /\ UNCHANGED <<orphans, baseAt, midMerge, lock, restarts, touched>>

-----------------------------------------------------------------------------
\* The hub dies and starts again: the lock and the handlers are gone, the runs
\* are swept, agents and git commands may outlive it or die with it.
Restart ==
  /\ restarts < MaxRestarts
  /\ restarts' = restarts + 1
  /\ lock' = FALSE
  /\ task' = [t \in Tasks |-> [task[t] EXCEPT !.status = "done"]]
  /\ orphans' \in SUBSET (orphans \cup {t \in Tasks : task[t].status = "running"})
  /\ \E loose \in SUBSET {q \in Requests : req[q].step # "idle"} :
       req' = [q \in Requests |-> IF q \in loose THEN [req[q] EXCEPT !.live = FALSE] ELSE Idle]
  /\ UNCHANGED <<tree, baseAt, midMerge, touched>>

Answers(q) ==
  \/ MergeStatus(q) \/ MergeLog(q) \/ MergeFindsBase(q) \/ MergeAdds(q)
  \/ MergeMerges(q) \/ MergeAborts(q) \/ MergeRemoves(q)
  \/ DiscardRemoves(q) \/ DiscardDeletes(q)

Next ==
  \/ \E t \in Tasks : AgentEdits(t) \/ AgentCommits(t) \/ AgentEnds(t) \/ Continue(t)
  \/ \E q \in Requests, t \in Tasks : MergeAccepted(q, t) \/ DiscardAccepted(q, t)
  \/ \E q \in Requests : Answers(q)
  \/ UserSwitches
  \/ Restart

Spec == Init /\ [][Next]_vars

\* git commands end, agents commit what they edit and end, and a client that was
\* refused asks again; nobody need continue, discard or switch.
Fairness ==
  /\ \A q \in Requests : WF_vars(Answers(q))
  /\ \A t \in Tasks : /\ WF_vars(AgentEnds(t))
                      /\ SF_vars(\E q \in Requests : MergeAccepted(q, t))

FairSpec == Spec /\ Fairness
-----------------------------------------------------------------------------
(* Properties *)

Merging == {q \in Requests : req[q].step \in MergeSteps /\ req[q].live}

\* The per-repo lock serialises the merges: at most one handler is between two
\* of the git commands of a merge, and the lock is held exactly as long.
MergesAlone == Cardinality(Merging) = IF lock THEN 1 ELSE 0

\* A task marked as merged can be discarded without losing work: everything its
\* agent wrote is on the base branch, unless the agent wrote on after the merge
\* was accepted.
MergedIsSafe ==
  \A t \in Tasks : task[t].merged /\ t \notin touched =>
    tree[t].landed = tree[t].head /\ ~tree[t].dirty

\* A merge leaves every checkout clean and no worktree behind, conflict or not,
\* unless the hub died under it.
NothingLeftBehind ==
  restarts = 0 /\ ~lock => ~midMerge /\ baseAt \notin Tasks

\* A merge that cannot conflict succeeds in the end for a client that insists,
\* also when the hub died in the middle of an earlier one and left a checkout in
\* the middle of a merge or a temporary worktree behind.
NeverWedged ==
  \A t \in Tasks \ (Conflicting \cup Discardable) :
    []<>(tree[t].landed = tree[t].head \/ Works(t) \/ tree[t].dirty)

\* "cannot discard a running or pending task": the worktree of a running task is
\* never taken away from its agent.
WorktreeOutlivesRun ==
  \A t \in Tasks : task[t].status = "running" /\ task[t].path => tree[t].folder
=============================================================================
