-------------------------- MODULE WorktreesProofs --------------------------
(***************************************************************************)
(* Merges for any number of tasks, requests, commits and restarts          *)
(***************************************************************************)
EXTENDS Worktrees, TLAPS, FiniteSetTheorems

USE WorktreesAssumption

-----------------------------------------------------------------------------
(* Types *)

LEMMA IdleTyped == Idle \in Request
<1>1. FALSE \in BOOLEAN /\ TRUE \in BOOLEAN
  BY Zenon
<1> QED BY <1>1, Zenon DEF Idle, Request

LEMMA RequestTyped ==
  ASSUME NEW r \in Request, NEW step \in MergeSteps \cup DiscardSteps
  PROVE  /\ [r EXCEPT !.step = step] \in Request
         /\ \A into \in Places : [r EXCEPT !.step = step, !.into = into] \in Request
         /\ \A t \in Tasks : [r EXCEPT !.step = step, !.into = t, !.tmp = t] \in Request
         /\ \A b \in BOOLEAN : [r EXCEPT !.step = step, !.failed = b] \in Request
<1>1. [r EXCEPT !.step = step] \in Request
  BY Zenon DEF Request
<1>2. \A into \in Places : [r EXCEPT !.step = step, !.into = into] \in Request
  BY Zenon DEF Request
<1>3. \A b \in BOOLEAN : [r EXCEPT !.step = step, !.failed = b] \in Request
  BY Zenon DEF Request
<1>4. \A t \in Tasks : [r EXCEPT !.step = step, !.into = t, !.tmp = t] \in Request
  BY Zenon DEF Request, Places
<1> QED BY <1>1, <1>2, <1>3, <1>4

LEMMA NewRequestTyped ==
  ASSUME NEW step \in MergeSteps \cup DiscardSteps, NEW t \in Tasks
  PROVE  [Idle EXCEPT !.step = step, !.task = t] \in Request
  BY IdleTyped, Zenon DEF Request

LEMMA LooseTyped ==
  ASSUME NEW r \in Request
  PROVE  [r EXCEPT !.live = FALSE] \in Request
<1>1. FALSE \in BOOLEAN
  BY Zenon
<1> QED BY <1>1, Zenon DEF Request

LEMMA TreeTyped ==
  ASSUME NEW b \in Tree
  PROVE  /\ [b EXCEPT !.dirty = TRUE] \in Tree
         /\ [b EXCEPT !.landed = b.head] \in Tree
         /\ [b EXCEPT !.folder = FALSE, !.dirty = FALSE] \in Tree
         /\ [b EXCEPT !.branch = FALSE] \in Tree
         /\ \A n \in 0..MaxCommits : [b EXCEPT !.dirty = FALSE, !.head = n] \in Tree
<1>0. FALSE \in BOOLEAN /\ TRUE \in BOOLEAN
  BY Zenon
<1>1. [b EXCEPT !.dirty = TRUE] \in Tree
  BY <1>0, Zenon DEF Tree
<1>2. [b EXCEPT !.landed = b.head] \in Tree
  BY Zenon DEF Tree
<1>3. [b EXCEPT !.folder = FALSE, !.dirty = FALSE] \in Tree
  BY <1>0, Zenon DEF Tree
<1>4. [b EXCEPT !.branch = FALSE] \in Tree
  BY <1>0, Zenon DEF Tree
<1>5. \A n \in 0..MaxCommits : [b EXCEPT !.dirty = FALSE, !.head = n] \in Tree
  BY <1>0, Zenon DEF Tree
<1> QED BY <1>1, <1>2, <1>3, <1>4, <1>5

LEMMA TaskTyped ==
  ASSUME NEW r \in Task
  PROVE  /\ [r EXCEPT !.status = "done"] \in Task /\ [r EXCEPT !.status = "running"] \in Task
         /\ [r EXCEPT !.merged = TRUE] \in Task /\ [r EXCEPT !.path = FALSE] \in Task
<1>0. FALSE \in BOOLEAN /\ TRUE \in BOOLEAN
  BY Zenon
<1>1. [r EXCEPT !.status = "done"] \in Task /\ [r EXCEPT !.status = "running"] \in Task
  BY Zenon DEF Task
<1>2. [r EXCEPT !.merged = TRUE] \in Task
  BY <1>0, Zenon DEF Task
<1>3. [r EXCEPT !.path = FALSE] \in Task
  BY <1>0, Zenon DEF Task
<1> QED BY <1>1, <1>2, <1>3

\* A request at work is about a task.
Asked == \A q \in Requests : req[q].step # "idle" => req[q].task \in Tasks

\* A checkout was chosen before the merge.
Chosen == \A q \in Requests : req[q].step \in {"merge", "abort", "remove"} => req[q].into \in Places

Typed == TypeOK /\ Asked /\ Chosen

\* What a step does to the request it serves, and to nothing else of req.
LEMMA AnswerTyped ==
  ASSUME Typed, NEW q \in Requests, NEW ok \in BOOLEAN, req[q].step # "idle", Answer(q, ok)
  PROVE  /\ req' = [req EXCEPT ![q] = Idle] /\ req' \in [Requests -> Request] /\ Asked' /\ Chosen'
         /\ lock' \in BOOLEAN /\ task' \in [Tasks -> Task] /\ touched' \subseteq Tasks \cup Requests
<1>1. req[q].task \in Tasks /\ task[req[q].task] \in Task /\ [task[req[q].task] EXCEPT !.merged = TRUE] \in Task
  BY TaskTyped DEF Typed, Asked, TypeOK
<1>2. req' = [req EXCEPT ![q] = Idle] /\ req' \in [Requests -> Request]
  BY IdleTyped DEF Answer, Typed, TypeOK
<1>3. Asked' /\ Chosen'
  BY <1>2 DEF Typed, TypeOK, Asked, Chosen, Idle
<1>4. lock' \in BOOLEAN
  <2>1. FALSE \in BOOLEAN /\ lock \in BOOLEAN
    BY Zenon DEF Typed, TypeOK
  <2> QED BY <2>1, Zenon DEF Answer
<1>5. task' = [task EXCEPT ![req[q].task] = [task[req[q].task] EXCEPT !.merged = TRUE]] \/ task' = task
  BY DEF Answer
<1>6. task' \in [Tasks -> Task]
  BY <1>1, <1>5 DEF Typed, TypeOK
<1>7. touched' \subseteq Tasks \cup Requests
  BY DEF Answer, Typed, TypeOK
<1> QED BY <1>2, <1>3, <1>4, <1>6, <1>7

LEMMA GotoTyped ==
  ASSUME Typed, NEW q \in Requests, NEW step \in MergeSteps \cup DiscardSteps,
         req[q].step # "idle", Goto(q, step),
         step \in {"merge", "abort", "remove"} => req[q].step \in {"merge", "abort", "remove"}
  PROVE  /\ req' = [req EXCEPT ![q] = [req[q] EXCEPT !.step = step]]
         /\ req' \in [Requests -> Request] /\ Asked' /\ Chosen'
<1>1. req[q] \in Request /\ [req[q] EXCEPT !.step = step] \in Request
  BY RequestTyped DEF Typed, TypeOK
<1>2. req' = [req EXCEPT ![q] = [req[q] EXCEPT !.step = step]]
  BY DEF Goto
<1>3. req'[q].step = step /\ req'[q].task = req[q].task /\ req'[q].into = req[q].into
  BY <1>1, <1>2 DEF Typed, TypeOK, Request
<1> QED BY <1>1, <1>2, <1>3 DEF Typed, TypeOK, Asked, Chosen

LEMMA AfterMergeTyped ==
  ASSUME Typed, NEW q \in Requests, NEW ok \in BOOLEAN, req[q].step \in {"merge", "abort"}, AfterMerge(q, ok)
  PROVE  /\ req' \in [Requests -> Request] /\ Asked' /\ Chosen'
         /\ lock' \in BOOLEAN /\ task' \in [Tasks -> Task] /\ touched' \subseteq Tasks \cup Requests
<1>1. CASE req[q].live /\ req[q].tmp # None
  <2>1. req' = [req EXCEPT ![q].step = "remove", ![q].failed = ~ok] /\ UNCHANGED <<lock, task, touched>>
    BY <1>1 DEF AfterMerge
  <2>2. req[q] \in Request /\ (~ok) \in BOOLEAN
    BY DEF Typed, TypeOK
  <2>3. [req[q] EXCEPT !.step = "remove", !.failed = ~ok] \in Request
    BY <2>2, RequestTyped DEF MergeSteps
  <2>4. req' = [req EXCEPT ![q] = [req[q] EXCEPT !.step = "remove", !.failed = ~ok]]
    BY <2>1 DEF Typed, TypeOK
  <2>5. req'[q].task = req[q].task /\ req'[q].into = req[q].into
    BY <2>2, <2>4 DEF Typed, TypeOK, Request
  <2> QED BY <2>1, <2>3, <2>4, <2>5 DEF Typed, TypeOK, Asked, Chosen
<1>2. CASE ~(req[q].live /\ req[q].tmp # None)
  <2>1. Answer(q, ok)
    BY <1>2 DEF AfterMerge
  <2> QED BY <2>1, AnswerTyped
<1> QED BY <1>1, <1>2

LEMMA InitTyped == Init => Typed
<1> SUFFICES ASSUME Init PROVE Typed
  OBVIOUS
<1>0. FALSE \in BOOLEAN /\ TRUE \in BOOLEAN
  BY Zenon
<1>1. [status |-> "running", path |-> TRUE, merged |-> FALSE] \in Task
  BY <1>0, Zenon DEF Task
<1>2. 0 \in 0..MaxCommits /\ 0 \in 0..MaxRestarts
  OBVIOUS
<1>3. [folder |-> TRUE, branch |-> TRUE, dirty |-> FALSE, head |-> 0, landed |-> 0] \in Tree
  BY <1>0, <1>2, Zenon DEF Tree
<1>4. midMerge \in BOOLEAN /\ lock \in BOOLEAN
  BY <1>0, Zenon DEF Init
<1>5. TypeOK
  BY <1>1, <1>2, <1>3, <1>4, IdleTyped DEF Init, TypeOK, Places
<1>6. Asked /\ Chosen
  BY DEF Init, Asked, Chosen, Idle
<1> QED BY <1>5, <1>6 DEF Typed

LEMMA StepTyped == Typed /\ [Next]_vars => Typed'
<1> SUFFICES ASSUME Typed, [Next]_vars PROVE Typed'
  OBVIOUS
<1>0. TypeOK /\ Asked /\ Chosen /\ FALSE \in BOOLEAN /\ TRUE \in BOOLEAN
  BY Zenon DEF Typed
<1>1. ASSUME NEW t \in Tasks, AgentEdits(t) PROVE Typed'
  <2>1. tree' = [tree EXCEPT ![t] = [tree[t] EXCEPT !.dirty = TRUE]]
    BY <1>0, <1>1 DEF AgentEdits, TypeOK
  <2>2. tree' \in [Tasks -> Tree]
    BY <1>0, <2>1, TreeTyped DEF TypeOK
  <2> QED BY <1>0, <1>1, <2>2 DEF AgentEdits, Touches, Typed, TypeOK, Asked, Chosen
<1>2. ASSUME NEW t \in Tasks, AgentCommits(t) PROVE Typed'
  <2>1. tree' = [tree EXCEPT ![t] = [tree[t] EXCEPT !.dirty = FALSE, !.head = tree[t].head + 1]]
    BY <1>0, <1>2 DEF AgentCommits, TypeOK, Tree
  <2>2. tree[t].head + 1 \in 0..MaxCommits
    BY <1>0, <1>2 DEF AgentCommits, TypeOK, Tree
  <2>3. tree' \in [Tasks -> Tree]
    BY <1>0, <2>1, <2>2, TreeTyped DEF TypeOK
  <2> QED BY <1>0, <1>2, <2>3 DEF AgentCommits, Touches, Typed, TypeOK, Asked, Chosen
<1>3. ASSUME NEW t \in Tasks, AgentEnds(t) PROVE Typed'
  <2>1. task' = [task EXCEPT ![t] = [task[t] EXCEPT !.status = "done"]] \/ task' = task
    BY <1>3 DEF AgentEnds
  <2>a. [task[t] EXCEPT !.status = "done"] \in Task
    BY <1>0, TaskTyped DEF TypeOK
  <2>2. task' \in [Tasks -> Task]
    BY <1>0, <2>1, <2>a DEF TypeOK
  <2> QED BY <1>0, <1>3, <2>2 DEF AgentEnds, Typed, TypeOK, Asked, Chosen
<1>4. ASSUME NEW t \in Tasks, Continue(t) PROVE Typed'
  <2>1. task' = [task EXCEPT ![t] = [task[t] EXCEPT !.status = "running"]]
    BY <1>4 DEF Continue
  <2>2. task' \in [Tasks -> Task]
    BY <1>0, <2>1, TaskTyped DEF TypeOK
  <2> QED BY <1>0, <1>4, <2>2 DEF Continue, Typed, TypeOK, Asked, Chosen
<1>5. CASE UserSwitches
  BY <1>0, <1>5 DEF UserSwitches, Typed, TypeOK, Asked, Chosen, Places
<1>6. ASSUME NEW q \in Requests, NEW t \in Tasks, MergeAccepted(q, t) PROVE Typed'
  <2> DEFINE new == [Idle EXCEPT !.step = "status", !.task = t]
  <2>1. new \in Request
    BY NewRequestTyped DEF MergeSteps
  <2>2. new.step = "status" /\ new.task = t
    BY DEF Idle
  <2>3. req' = [req EXCEPT ![q] = new]
    BY <1>6 DEF MergeAccepted
  <2>4. req' \in [Requests -> Request] /\ Asked' /\ Chosen'
    BY <1>0, <2>1, <2>2, <2>3 DEF TypeOK, Asked, Chosen
  <2> QED BY <1>0, <1>6, <2>4 DEF MergeAccepted, Typed, TypeOK
<1>7. ASSUME NEW q \in Requests, NEW t \in Tasks, DiscardAccepted(q, t) PROVE Typed'
  <2> DEFINE new == [Idle EXCEPT !.step = "rm", !.task = t]
  <2>1. new \in Request
    BY NewRequestTyped DEF DiscardSteps
  <2>2. new.step = "rm" /\ new.task = t
    BY DEF Idle
  <2>3. req' = [req EXCEPT ![q] = new]
    BY <1>7 DEF DiscardAccepted
  <2>4. req' \in [Requests -> Request] /\ Asked' /\ Chosen'
    BY <1>0, <2>1, <2>2, <2>3 DEF TypeOK, Asked, Chosen
  <2> QED BY <1>0, <1>7, <2>4 DEF DiscardAccepted, Typed, TypeOK
<1>8. ASSUME NEW q \in Requests, MergeStatus(q) PROVE Typed'
  <2>1. req[q].step # "idle" /\ (Answer(q, FALSE) \/ (Goto(q, "log") /\ UNCHANGED <<lock, task, touched>>))
    BY <1>8 DEF MergeStatus
  <2>2. "log" \in MergeSteps
    BY DEF MergeSteps
  <2>3. /\ req' \in [Requests -> Request] /\ Asked' /\ Chosen'
        /\ lock' \in BOOLEAN /\ task' \in [Tasks -> Task] /\ touched' \subseteq Tasks \cup Requests
    BY <1>0, <2>1, <2>2, AnswerTyped, GotoTyped DEF TypeOK
  <2> QED BY <1>0, <1>8, <2>3 DEF MergeStatus, Typed, TypeOK
<1>9. ASSUME NEW q \in Requests, MergeLog(q) PROVE Typed'
  <2>1. req[q].step # "idle" /\ (Answer(q, FALSE) \/ (Goto(q, "head") /\ UNCHANGED <<lock, task, touched>>))
    BY <1>9 DEF MergeLog
  <2>2. "head" \in MergeSteps
    BY DEF MergeSteps
  <2>3. /\ req' \in [Requests -> Request] /\ Asked' /\ Chosen'
        /\ lock' \in BOOLEAN /\ task' \in [Tasks -> Task] /\ touched' \subseteq Tasks \cup Requests
    BY <1>0, <2>1, <2>2, AnswerTyped, GotoTyped DEF TypeOK
  <2> QED BY <1>0, <1>9, <2>3 DEF MergeLog, Typed, TypeOK
<1>10. ASSUME NEW q \in Requests, MergeFindsBase(q) PROVE Typed'
  <2>1. req[q].step \in {"head", "find"} /\ UNCHANGED <<orphans, tree, baseAt, midMerge, restarts>>
    BY <1>10, Zenon DEF MergeFindsBase
  <2>2. \/ Answer(q, FALSE)
        \/ /\ \/ baseAt \in Places /\ req' = [req EXCEPT ![q].step = "merge", ![q].into = baseAt]
              \/ \E step \in {"find", "add"} : Goto(q, step)
           /\ UNCHANGED <<lock, task, touched>>
    <3>1. {"main"} \subseteq Places
      BY DEF Places
    <3> QED BY <1>10, <2>1, <3>1 DEF MergeFindsBase
  <2>3. CASE Answer(q, FALSE)
    BY <1>0, <2>1, <2>3, AnswerTyped DEF Typed, TypeOK
  <2>4. CASE baseAt \in Places /\ req' = [req EXCEPT ![q].step = "merge", ![q].into = baseAt]
             /\ UNCHANGED <<lock, task, touched>>
    <3> DEFINE new == [req[q] EXCEPT !.step = "merge", !.into = baseAt]
    <3>1. req[q] \in Request /\ "merge" \in MergeSteps
      BY <1>0 DEF TypeOK, MergeSteps
    <3>2. new \in Request
      BY <2>4, <3>1, RequestTyped
    <3>3. req' = [req EXCEPT ![q] = new]
      BY <1>0, <2>4 DEF TypeOK
    <3>4. new.into \in Places /\ new.task = req[q].task
      BY <2>4, <3>1 DEF Request
    <3>5. req' \in [Requests -> Request] /\ Asked' /\ Chosen'
      BY <1>0, <2>1, <3>2, <3>3, <3>4 DEF TypeOK, Asked, Chosen
    <3> QED BY <1>0, <2>1, <2>4, <3>5 DEF Typed, TypeOK
  <2>5. ASSUME NEW step \in {"find", "add"}, Goto(q, step), UNCHANGED <<lock, task, touched>> PROVE Typed'
    <3>1. step \in MergeSteps
      BY DEF MergeSteps
    <3>2. req' \in [Requests -> Request] /\ Asked' /\ Chosen'
      BY <2>1, <2>5, <3>1, GotoTyped
    <3> QED BY <1>0, <2>1, <2>5, <3>2 DEF Typed, TypeOK
  <2> QED BY <2>2, <2>3, <2>4, <2>5
<1>11. ASSUME NEW q \in Requests, MergeAdds(q) PROVE Typed'
  <2> DEFINE t == req[q].task
  <2>1. req[q].step = "add" /\ UNCHANGED <<orphans, tree, midMerge, restarts>> /\ t \in Tasks /\ t \in Places
    BY <1>0, <1>11, Zenon DEF MergeAdds, Asked, Places
  <2>2. baseAt' \in Places \cup {"nowhere"}
    BY <1>0, <1>11, <2>1 DEF MergeAdds, TypeOK
  <2>3. \/ Answer(q, FALSE)
        \/ req' = [req EXCEPT ![q].step = "merge", ![q].into = t, ![q].tmp = t] /\ UNCHANGED <<lock, task, touched>>
    BY <1>11 DEF MergeAdds
  <2>4. CASE Answer(q, FALSE)
    BY <1>0, <2>1, <2>2, <2>4, AnswerTyped DEF Typed, TypeOK
  <2>5. CASE req' = [req EXCEPT ![q].step = "merge", ![q].into = t, ![q].tmp = t] /\ UNCHANGED <<lock, task, touched>>
    <3> DEFINE new == [req[q] EXCEPT !.step = "merge", !.into = t, !.tmp = t]
    <3>1. req[q] \in Request /\ "merge" \in MergeSteps
      BY <1>0 DEF TypeOK, MergeSteps
    <3>2. new \in Request
      BY <2>1, <3>1, RequestTyped
    <3>3. req' = [req EXCEPT ![q] = new]
      BY <1>0, <2>5 DEF TypeOK
    <3>4. new.into \in Places /\ new.task = req[q].task
      BY <2>1, <3>1 DEF Request
    <3>5. req' \in [Requests -> Request] /\ Asked' /\ Chosen'
      BY <1>0, <2>1, <3>2, <3>3, <3>4 DEF TypeOK, Asked, Chosen
    <3> QED BY <1>0, <2>1, <2>2, <2>5, <3>5 DEF Typed, TypeOK
  <2> QED BY <2>3, <2>4, <2>5
<1>12. ASSUME NEW q \in Requests, MergeMerges(q) PROVE Typed'
  <2> DEFINE t == req[q].task
  <2>1. req[q].step = "merge" /\ UNCHANGED <<orphans, baseAt, restarts>> /\ t \in Tasks
    BY <1>0, <1>12, Zenon DEF MergeMerges, Asked
  <2>2. \/ tree' = [tree EXCEPT ![t].landed = tree[t].head] /\ AfterMerge(q, TRUE) /\ UNCHANGED midMerge
        \/ midMerge' = (midMerge \/ Mergeable(q)) /\ AfterConflict(q) /\ UNCHANGED tree
    BY <1>12 DEF MergeMerges
  <2>3. tree' \in [Tasks -> Tree] /\ midMerge' \in BOOLEAN
    <3>1. CASE tree' = [tree EXCEPT ![t].landed = tree[t].head] /\ UNCHANGED midMerge
      <4>1. tree' = [tree EXCEPT ![t] = [tree[t] EXCEPT !.landed = tree[t].head]]
        BY <3>1
      <4>2. [tree[t] EXCEPT !.landed = tree[t].head] \in Tree
        BY <1>0, <2>1, TreeTyped DEF TypeOK
      <4>3. tree' \in [Tasks -> Tree]
        BY <1>0, <4>1, <4>2 DEF TypeOK
      <4> QED BY <1>0, <3>1, <4>3, Zenon DEF TypeOK
    <3>2. CASE midMerge' = (midMerge \/ Mergeable(q)) /\ UNCHANGED tree
      <4>1. (midMerge \/ Mergeable(q)) \in BOOLEAN
        BY Zenon
      <4> QED BY <1>0, <3>2, <4>1 DEF TypeOK
    <3> QED BY <2>2, <3>1, <3>2
  <2>4. \/ AfterMerge(q, TRUE)
        \/ Goto(q, "abort") /\ UNCHANGED <<lock, task, touched>>
        \/ Answer(q, FALSE)
    BY <2>2 DEF AfterConflict
  <2>5. /\ req' \in [Requests -> Request] /\ Asked' /\ Chosen'
        /\ lock' \in BOOLEAN /\ task' \in [Tasks -> Task] /\ touched' \subseteq Tasks \cup Requests
    <3>1. CASE AfterMerge(q, TRUE)
      BY <1>0, <2>1, <3>1, AfterMergeTyped
    <3>2. CASE Goto(q, "abort") /\ UNCHANGED <<lock, task, touched>>
      <4>1. "abort" \in MergeSteps
        BY DEF MergeSteps
      <4> QED BY <1>0, <2>1, <3>2, <4>1, GotoTyped DEF TypeOK
    <3>3. CASE Answer(q, FALSE)
      BY <1>0, <2>1, <3>3, AnswerTyped
    <3> QED BY <2>4, <3>1, <3>2, <3>3
  <2> QED BY <1>0, <2>1, <2>3, <2>5 DEF Typed, TypeOK
<1>13. ASSUME NEW q \in Requests, MergeAborts(q) PROVE Typed'
  <2>1. req[q].step = "abort" /\ AfterMerge(q, FALSE) /\ UNCHANGED <<orphans, tree, baseAt, restarts>>
        /\ midMerge' = (midMerge /\ baseAt # req[q].into)
    BY <1>13 DEF MergeAborts
  <2>2. midMerge' \in BOOLEAN
    BY <2>1, Zenon
  <2>3. /\ req' \in [Requests -> Request] /\ Asked' /\ Chosen'
        /\ lock' \in BOOLEAN /\ task' \in [Tasks -> Task] /\ touched' \subseteq Tasks \cup Requests
    BY <1>0, <2>1, AfterMergeTyped
  <2> QED BY <1>0, <2>1, <2>2, <2>3 DEF Typed, TypeOK
<1>14. ASSUME NEW q \in Requests, MergeRemoves(q) PROVE Typed'
  <2>1. req[q].step = "remove" /\ Answer(q, ~req[q].failed) /\ UNCHANGED <<orphans, tree, restarts>>
        /\ midMerge' = (midMerge /\ baseAt # req[q].into)
        /\ baseAt' = IF baseAt = req[q].into THEN "nowhere" ELSE baseAt
    BY <1>14 DEF MergeRemoves
  <2>2. midMerge' \in BOOLEAN /\ (~req[q].failed) \in BOOLEAN
    BY <2>1, Zenon
  <2>3. /\ req' \in [Requests -> Request] /\ Asked' /\ Chosen'
        /\ lock' \in BOOLEAN /\ task' \in [Tasks -> Task] /\ touched' \subseteq Tasks \cup Requests
    BY <1>0, <2>1, <2>2, AnswerTyped
  <2> QED BY <1>0, <2>1, <2>2, <2>3 DEF Typed, TypeOK
<1>15. ASSUME NEW q \in Requests, DiscardRemoves(q) PROVE Typed'
  <2> DEFINE t == req[q].task
  <2>1. t \in Tasks /\ tree' = [tree EXCEPT ![t] = [tree[t] EXCEPT !.folder = FALSE, !.dirty = FALSE]]
    BY <1>0, <1>15 DEF DiscardRemoves, Asked, TypeOK, Tree
  <2>2. tree' \in [Tasks -> Tree]
    BY <1>0, <2>1, TreeTyped DEF TypeOK
  <2>3. req' \in [Requests -> Request] /\ Asked' /\ Chosen'
    <3>1. CASE req' = [req EXCEPT ![q] = Idle]
      BY <1>0, <3>1, IdleTyped DEF TypeOK, Asked, Chosen, Idle
    <3>2. CASE req' = [req EXCEPT ![q].step = "branch"]
      <4>1. Goto(q, "branch") /\ "branch" \in DiscardSteps /\ req[q].step # "idle"
        BY <1>15, <3>2 DEF Goto, DiscardSteps, DiscardRemoves
      <4> QED BY <4>1, GotoTyped
    <3> QED BY <1>15, <3>1, <3>2 DEF DiscardRemoves
  <2> QED BY <1>0, <1>15, <2>2, <2>3 DEF DiscardRemoves, Typed, TypeOK
<1>16. ASSUME NEW q \in Requests, DiscardDeletes(q) PROVE Typed'
  <2> DEFINE t == req[q].task
  <2>1. t \in Tasks /\ tree' = [tree EXCEPT ![t] = [tree[t] EXCEPT !.branch = FALSE]]
    BY <1>0, <1>16 DEF DiscardDeletes, Asked, TypeOK, Tree
  <2>2. tree' \in [Tasks -> Tree]
    BY <1>0, <2>1, TreeTyped DEF TypeOK
  <2>3. task' = [task EXCEPT ![t] = [task[t] EXCEPT !.path = FALSE]] \/ task' = task
    BY <1>16 DEF DiscardDeletes
  <2>a. [task[t] EXCEPT !.path = FALSE] \in Task
    BY <1>0, <2>1, TaskTyped DEF TypeOK
  <2>4. task' \in [Tasks -> Task]
    BY <1>0, <2>3, <2>a DEF TypeOK
  <2>5. req' = [req EXCEPT ![q] = Idle] /\ UNCHANGED <<orphans, baseAt, midMerge, lock, restarts, touched>>
    BY <1>16 DEF DiscardDeletes
  <2>6. req' \in [Requests -> Request] /\ Asked' /\ Chosen'
    BY <1>0, <2>5, IdleTyped DEF TypeOK, Asked, Chosen, Idle
  <2> QED BY <1>0, <2>2, <2>4, <2>5, <2>6 DEF Typed, TypeOK
<1>17. CASE Restart
  <2>1. task' \in [Tasks -> Task]
    BY <1>0, <1>17, TaskTyped DEF Restart, TypeOK
  <2>2. PICK loose \in SUBSET {q \in Requests : req[q].step # "idle"} :
          req' = [q \in Requests |-> IF q \in loose THEN [req[q] EXCEPT !.live = FALSE] ELSE Idle]
    BY <1>17 DEF Restart
  <2>3. req' \in [Requests -> Request]
    BY <1>0, <2>2, IdleTyped, LooseTyped DEF TypeOK
  <2>4. \A q \in Requests : req'[q] = Idle \/ (/\ req'[q].step = req[q].step /\ req'[q].task = req[q].task
                                               /\ req'[q].into = req[q].into)
    <3> SUFFICES ASSUME NEW q \in Requests, q \in loose
        PROVE  req'[q].step = req[q].step /\ req'[q].task = req[q].task /\ req'[q].into = req[q].into
      <4>1. \A q \in Requests : q \notin loose => req'[q] = Idle
        BY <2>2
      <4> QED BY <4>1
    <3>1. req[q] \in Request /\ req'[q] = [req[q] EXCEPT !.live = FALSE]
      BY <1>0, <2>2 DEF TypeOK
    <3> QED BY <3>1 DEF Request
  <2>5. Asked' /\ Chosen'
    BY <1>0, <2>4 DEF Asked, Chosen, Idle
  <2>6. /\ restarts' \in 0..MaxRestarts /\ lock' \in BOOLEAN /\ orphans' \subseteq Tasks
        /\ UNCHANGED <<tree, baseAt, midMerge, touched>>
    <3>1. /\ restarts' = restarts + 1 /\ restarts < MaxRestarts /\ lock' = FALSE
          /\ orphans' \in SUBSET (orphans \cup {t \in Tasks : task[t].status = "running"})
          /\ UNCHANGED <<tree, baseAt, midMerge, touched>>
      BY <1>17, Zenon DEF Restart
    <3>2. lock' \in BOOLEAN
      BY <1>0, <3>1, Zenon
    <3> QED BY <1>0, <3>1, <3>2 DEF TypeOK
  <2> QED BY <1>0, <2>1, <2>3, <2>5, <2>6 DEF Typed, TypeOK
<1>18. CASE UNCHANGED vars
  BY <1>0, <1>18 DEF vars, Typed, TypeOK, Asked, Chosen
<1> QED
  BY <1>1, <1>2, <1>3, <1>4, <1>5, <1>6, <1>7, <1>8, <1>9, <1>10, <1>11, <1>12, <1>13, <1>14,
     <1>15, <1>16, <1>17, <1>18 DEF Next, Answers

\* Every variable keeps its type.
THEOREM TypeCorrect == Spec => []TypeOK
<1>1. Spec => []Typed
  BY InitTyped, StepTyped, PTL DEF Spec
<1>2. Typed => TypeOK
  BY DEF Typed
<1> QED BY <1>1, <1>2, PTL

-----------------------------------------------------------------------------
(* Merges *)

\* A handler is between two of the commands of a merge.
Busy(q) == req[q].step \in MergeSteps /\ req[q].live

Alone ==
  /\ \A q, r \in Requests : Busy(q) /\ Busy(r) => q = r
  /\ lock <=> \E q \in Requests : Busy(q)

\* What is merged is safe, and what a merge has found out still holds, unless
\* the agent wrote meanwhile; what an agent writes under a merge is noticed.
Safe ==
  /\ \A t \in Tasks : task[t].merged /\ t \notin touched =>
       tree[t].landed = tree[t].head /\ ~tree[t].dirty
  /\ \A q \in Requests : Busy(q) /\ q \notin touched =>
       /\ req[q].step # "status" => ~tree[req[q].task].dirty
       /\ req[q].step = "remove" /\ ~req[q].failed => tree[req[q].task].landed = tree[req[q].task].head
  /\ \A q \in Requests : Busy(q) /\ q \in touched => req[q].task \in touched

\* Before a first restart every handler lives, a merge that is begun is about
\* to be aborted, and a temporary worktree belongs to the merge that added it.
Clean ==
  restarts = 0 =>
    /\ \A q \in Requests : req[q].live
    /\ midMerge => \E q \in Requests : req[q].step = "abort" /\ baseAt = req[q].into
    /\ baseAt \in Tasks => \E q \in Requests : /\ req[q].step \in {"merge", "abort", "remove"}
                                             /\ req[q].into = baseAt /\ req[q].task = baseAt
                                             /\ req[q].tmp = baseAt

WInv == Typed /\ Alone /\ Safe /\ Clean

LEMMA InitW == Init => WInv
<1> SUFFICES ASSUME Init PROVE WInv
  OBVIOUS
<1>1. \A q \in Requests : req[q].step = "idle" /\ req[q].live /\ ~Busy(q)
  BY DEF Init, Idle, Busy, MergeSteps
<1>2. Alone
  BY <1>1 DEF Alone, Init
<1>3. Safe
  BY <1>1 DEF Safe, Init
<1>4. Clean
  BY <1>1 DEF Clean, Init
<1> QED BY <1>2, <1>3, <1>4, InitTyped DEF WInv

\* A step that leaves the requests and the lock alone.
LEMMA QuietAlone ==
  ASSUME Alone, UNCHANGED <<req, lock>>
  PROVE  Alone'
  BY DEF Alone, Busy

LEMMA QuietClean ==
  ASSUME Clean, UNCHANGED <<req, restarts, midMerge, baseAt>>
  PROVE  Clean'
  BY DEF Clean

\* Before a first restart, what a merge at work says of the checkouts.
LEMMA CleanUnder ==
  ASSUME WInv, restarts = 0, NEW q \in Requests, req[q].step \in MergeSteps
  PROVE  /\ Busy(q)
         /\ midMerge => req[q].step = "abort" /\ baseAt = req[q].into
         /\ baseAt \in Tasks => /\ req[q].step \in {"merge", "abort", "remove"}
                               /\ req[q].into = baseAt /\ req[q].task = baseAt
                               /\ req[q].tmp = baseAt
<1>1. Busy(q) /\ \A r \in Requests : req[r].step \in MergeSteps => r = q
  BY DEF WInv, Clean, Alone, Busy
<1>2. {"merge", "abort", "remove"} \subseteq MergeSteps
  BY DEF MergeSteps
<1> QED BY <1>1, <1>2 DEF WInv, Clean

\* The answer of a handler: it is no longer at work, and it marks its task as
\* merged when all is landed.
LEMMA AnswerKeeps ==
  ASSUME WInv, NEW q \in Requests, NEW ok \in BOOLEAN, req[q].step \in MergeSteps, Answer(q, ok),
         UNCHANGED restarts,
         \A t \in Tasks : tree'[t] = tree[t] \/ (/\ tree'[t].landed = tree'[t].head
                                               /\ tree'[t].dirty = tree[t].dirty),
         req[q].live /\ ok /\ q \notin touched =>
           tree'[req[q].task].landed = tree'[req[q].task].head /\ ~tree'[req[q].task].dirty,
         restarts = 0 => ~midMerge' /\ baseAt' \notin Tasks
  PROVE  Alone' /\ Safe' /\ Clean'
<1> DEFINE t == req[q].task
<1>1. TypeOK /\ Alone /\ Safe /\ Clean /\ t \in Tasks
  BY DEF WInv, Typed, Asked, MergeSteps
<1>2. req'[q] = Idle /\ \A r \in Requests : r # q => req'[r] = req[r]
  BY <1>1 DEF Answer, TypeOK
<1>3. \A r \in Requests : Busy(r)' <=> Busy(r) /\ r # q
  BY <1>2 DEF Busy, Idle, MergeSteps
<1>4. Alone'
  BY <1>1, <1>3 DEF Alone, Answer, Busy
<1>5. Safe'
  <2>1. CASE req[q].live /\ ok
    <3>1. task' = [task EXCEPT ![t].merged = TRUE] /\ touched' = IF q \in touched THEN touched ELSE touched \ {t}
      BY <2>1 DEF Answer
    <3>2. \A r \in Requests : ~Busy(r)'
      BY <1>1, <1>3, <2>1 DEF Alone, Busy
    <3>3. ASSUME NEW u \in Tasks, task'[u].merged, u \notin touched'
          PROVE  tree'[u].landed = tree'[u].head /\ ~tree'[u].dirty
      <4>1. CASE u # t
        <5>1. task[u].merged /\ u \notin touched
          BY <1>1, <3>1, <3>3, <4>1 DEF TypeOK
        <5> QED BY <1>1, <5>1 DEF Safe
      <4>2. CASE u = t
        <5>1. q \in touched => t \in touched
          BY <1>1, <2>1 DEF Safe, Busy
        <5> QED BY <2>1, <3>1, <3>3, <4>2, <5>1
      <4> QED BY <4>1, <4>2
    <3> QED BY <3>2, <3>3 DEF Safe
  <2>2. CASE ~(req[q].live /\ ok)
    <3>1. UNCHANGED <<task, touched>>
      BY <2>2 DEF Answer
    <3>2. \A u \in Tasks : task'[u].merged /\ u \notin touched' => tree'[u].landed = tree'[u].head /\ ~tree'[u].dirty
      BY <1>1, <3>1 DEF Safe
    <3>3. ASSUME NEW r \in Requests, Busy(r)'
          PROVE  /\ r \notin touched' =>
                      /\ req'[r].step # "status" => ~tree'[req'[r].task].dirty
                      /\ req'[r].step = "remove" /\ ~req'[r].failed =>
                           tree'[req'[r].task].landed = tree'[req'[r].task].head
                 /\ r \in touched' => req'[r].task \in touched'
      <4>1. Busy(r) /\ req'[r] = req[r] /\ req[r].task \in Tasks
        BY <1>2, <1>3, <3>3 DEF Busy, MergeSteps, WInv, Typed, Asked
      <4> QED BY <1>1, <3>1, <4>1 DEF Safe
    <3> QED BY <3>2, <3>3 DEF Safe
  <2> QED BY <2>1, <2>2
<1>6. Clean'
  <2>1. restarts = 0 => \A r \in Requests : req'[r].live
    BY <1>1, <1>2 DEF Clean, Idle
  <2> QED BY <2>1 DEF Clean
<1> QED BY <1>4, <1>5, <1>6

\* A handler goes on to another command of the merge.
LEMMA OnwardKeeps ==
  ASSUME WInv, TypeOK', NEW q \in Requests, req[q].step \in MergeSteps, UNCHANGED <<lock, task, touched, restarts>>,
         req'[q].step \in MergeSteps, req'[q].live = req[q].live, req'[q].task = req[q].task,
         \A r \in Requests : r # q => req'[r] = req[r],
         \A t \in Tasks : tree'[t] = tree[t] \/ (/\ tree'[t].landed = tree'[t].head
                                               /\ tree'[t].dirty = tree[t].dirty),
         Busy(q) /\ q \notin touched =>
           /\ req'[q].step # "status" => ~tree'[req[q].task].dirty
           /\ req'[q].step = "remove" /\ ~req'[q].failed => tree'[req[q].task].landed = tree'[req[q].task].head,
         restarts = 0 =>
           /\ midMerge' => req'[q].step = "abort" /\ baseAt' = req'[q].into
           /\ baseAt' \in Tasks => /\ req'[q].step \in {"merge", "abort", "remove"}
                                  /\ req'[q].into = baseAt' /\ req[q].task = baseAt'
                                  /\ req'[q].tmp = baseAt'
  PROVE  Alone' /\ Safe' /\ Clean'
<1>1. TypeOK /\ Alone /\ Safe /\ Clean
  BY DEF WInv, Typed
<1>2. \A r \in Requests : Busy(r)' <=> Busy(r)
  BY DEF Busy
<1>3. Alone'
  BY <1>1, <1>2 DEF Alone
<1>4. \A u \in Tasks : task'[u].merged /\ u \notin touched' => tree'[u].landed = tree'[u].head /\ ~tree'[u].dirty
  BY <1>1 DEF Safe
<1>5. ASSUME NEW r \in Requests, Busy(r)'
      PROVE  /\ r \notin touched' =>
                  /\ req'[r].step # "status" => ~tree'[req'[r].task].dirty
                  /\ req'[r].step = "remove" /\ ~req'[r].failed =>
                       tree'[req'[r].task].landed = tree'[req'[r].task].head
             /\ r \in touched' => req'[r].task \in touched'
  <2>1. Busy(r) /\ req[r].task \in Tasks /\ req'[r].task = req[r].task
    BY <1>2, <1>5 DEF Busy, MergeSteps, WInv, Typed, Asked
  <2>2. CASE r = q
    BY <1>1, <2>1, <2>2 DEF Safe
  <2>3. CASE r # q
    BY <1>1, <2>1, <2>3 DEF Safe
  <2> QED BY <2>2, <2>3
<1>6. Safe'
  BY <1>4, <1>5 DEF Safe
<1>7. Clean'
  BY <1>1 DEF Clean
<1> QED BY <1>3, <1>6, <1>7

-----------------------------------------------------------------------------
(* The commands of a merge *)

LEMMA StatusKeeps ==
  ASSUME WInv, TypeOK', NEW q \in Requests, MergeStatus(q)
  PROVE  Alone' /\ Safe' /\ Clean'
<1> DEFINE t == req[q].task
<1>1. req[q].step = "status" /\ "status" \in MergeSteps /\ "log" \in MergeSteps /\ FALSE \in BOOLEAN
      /\ UNCHANGED <<orphans, tree, baseAt, midMerge, restarts>>
  BY Zenon DEF MergeStatus, MergeSteps
<1>2. restarts = 0 => ~midMerge /\ baseAt \notin Tasks
  BY <1>1, CleanUnder
<1>3. CASE Answer(q, FALSE)
  BY <1>1, <1>2, <1>3, AnswerKeeps
<1>4. CASE Goto(q, "log") /\ UNCHANGED <<lock, task, touched>> /\ ~IsDirty(t)
  <2>1. req[q] \in Request /\ req'[q] = [req[q] EXCEPT !.step = "log"] /\ \A r \in Requests : r # q => req'[r] = req[r]
    BY <1>4 DEF Goto, WInv, Typed, TypeOK
  <2>2. req'[q].step = "log" /\ req'[q].live = req[q].live /\ req'[q].task = req[q].task
    BY <2>1 DEF Request
  <2> QED BY <1>1, <1>2, <1>4, <2>1, <2>2, OnwardKeeps DEF IsDirty
<1> QED BY <1>3, <1>4 DEF MergeStatus

LEMMA LogKeeps ==
  ASSUME WInv, TypeOK', NEW q \in Requests, MergeLog(q)
  PROVE  Alone' /\ Safe' /\ Clean'
<1>1. req[q].step = "log" /\ "log" \in MergeSteps /\ "head" \in MergeSteps /\ FALSE \in BOOLEAN
      /\ UNCHANGED <<orphans, tree, baseAt, midMerge, restarts>>
  BY Zenon DEF MergeLog, MergeSteps
<1>2. restarts = 0 => ~midMerge /\ baseAt \notin Tasks
  BY <1>1, CleanUnder
<1>3. CASE Answer(q, FALSE)
  BY <1>1, <1>2, <1>3, AnswerKeeps
<1>4. CASE Goto(q, "head") /\ UNCHANGED <<lock, task, touched>>
  <2>1. req[q] \in Request /\ req'[q] = [req[q] EXCEPT !.step = "head"] /\ \A r \in Requests : r # q => req'[r] = req[r]
    BY <1>4 DEF Goto, WInv, Typed, TypeOK
  <2>2. req'[q].step = "head" /\ req'[q].live = req[q].live /\ req'[q].task = req[q].task
    BY <2>1 DEF Request
  <2>3. Busy(q) /\ q \notin touched => ~tree[req[q].task].dirty
    BY <1>1 DEF WInv, Safe
  <2> QED BY <1>1, <1>2, <1>4, <2>1, <2>2, <2>3, OnwardKeeps
<1> QED BY <1>3, <1>4 DEF MergeLog

LEMMA FindsBaseKeeps ==
  ASSUME WInv, TypeOK', NEW q \in Requests, MergeFindsBase(q)
  PROVE  Alone' /\ Safe' /\ Clean'
<1>1. req[q].step \in {"head", "find"} /\ UNCHANGED <<orphans, tree, baseAt, midMerge, restarts>> /\ FALSE \in BOOLEAN
  BY Zenon DEF MergeFindsBase
<1>2. {"head", "find", "add", "merge"} \subseteq MergeSteps
  BY DEF MergeSteps
<1>3. restarts = 0 => ~midMerge /\ baseAt \notin Tasks
  BY <1>1, <1>2, CleanUnder
<1>4. Busy(q) /\ q \notin touched => ~tree[req[q].task].dirty
  BY <1>1 DEF WInv, Safe
<1>5. CASE Answer(q, FALSE)
  BY <1>1, <1>2, <1>3, <1>5, AnswerKeeps
<1>6. ASSUME NEW step \in {"find", "add"}, Goto(q, step), UNCHANGED <<lock, task, touched>>
      PROVE  Alone' /\ Safe' /\ Clean'
  <2>1. req[q] \in Request /\ req'[q] = [req[q] EXCEPT !.step = step] /\ \A r \in Requests : r # q => req'[r] = req[r]
    BY <1>6 DEF Goto, WInv, Typed, TypeOK
  <2>2. req'[q].step = step /\ req'[q].live = req[q].live /\ req'[q].task = req[q].task
    BY <2>1 DEF Request
  <2> QED BY <1>1, <1>2, <1>3, <1>4, <1>6, <2>1, <2>2, OnwardKeeps, ZenonT(60)
<1>7. CASE req' = [req EXCEPT ![q].step = "merge", ![q].into = baseAt] /\ UNCHANGED <<lock, task, touched>>
  <2>1. /\ req[q] \in Request /\ req'[q] = [req[q] EXCEPT !.step = "merge", !.into = baseAt]
        /\ \A r \in Requests : r # q => req'[r] = req[r]
    BY <1>7 DEF WInv, Typed, TypeOK
  <2>2. req'[q].step = "merge" /\ req'[q].live = req[q].live /\ req'[q].task = req[q].task
    BY <2>1 DEF Request
  <2> QED BY <1>1, <1>2, <1>3, <1>4, <1>7, <2>1, <2>2, OnwardKeeps
<1> QED BY <1>1, <1>5, <1>6, <1>7 DEF MergeFindsBase

LEMMA AddsKeeps ==
  ASSUME WInv, TypeOK', NEW q \in Requests, MergeAdds(q)
  PROVE  Alone' /\ Safe' /\ Clean'
<1> DEFINE t == req[q].task
<1>1. req[q].step = "add" /\ UNCHANGED <<orphans, tree, midMerge, restarts>> /\ FALSE \in BOOLEAN
  BY Zenon DEF MergeAdds
<1>2. {"add", "merge"} \subseteq MergeSteps
  BY DEF MergeSteps
<1>3. restarts = 0 => ~midMerge /\ baseAt \notin Tasks /\ req[q].live
  BY <1>1, <1>2, CleanUnder DEF Busy
<1>4. CASE baseAt # "nowhere"
  <2>1. Answer(q, FALSE) /\ UNCHANGED baseAt
    BY <1>4 DEF MergeAdds
  <2> QED BY <1>1, <1>2, <1>3, <2>1, AnswerKeeps
<1>5. CASE baseAt = "nowhere" /\ ~req[q].live
  <2>1. Answer(q, FALSE)
    BY <1>5 DEF MergeAdds
  <2> QED BY <1>1, <1>2, <1>3, <1>5, <2>1, AnswerKeeps
<1>6. CASE baseAt = "nowhere" /\ req[q].live
  <2>0. baseAt' = t /\ req' = [req EXCEPT ![q].step = "merge", ![q].into = t, ![q].tmp = t] /\ UNCHANGED <<lock, task, touched>>
    BY <1>6 DEF MergeAdds
  <2>1. /\ req[q] \in Request /\ req'[q] = [req[q] EXCEPT !.step = "merge", !.into = t, !.tmp = t]
        /\ \A r \in Requests : r # q => req'[r] = req[r]
    BY <2>0 DEF WInv, Typed, TypeOK
  <2>2. /\ req'[q].step = "merge" /\ req'[q].live = req[q].live /\ req'[q].task = req[q].task
        /\ req'[q].into = t /\ req'[q].tmp = t
    BY <2>1 DEF Request
  <2>3. Busy(q) /\ q \notin touched => ~tree[req[q].task].dirty
    BY <1>1 DEF WInv, Safe
  <2> QED BY <1>1, <1>2, <1>3, <2>0, <2>1, <2>2, <2>3, OnwardKeeps
<1> QED BY <1>4, <1>5, <1>6

\* git merge, or its abort, has ended: the temporary worktree is removed next.
LEMMA AfterMergeKeeps ==
  ASSUME WInv, TypeOK', NEW q \in Requests, NEW ok \in BOOLEAN, req[q].step \in {"merge", "abort"},
         AfterMerge(q, ok), UNCHANGED <<baseAt, restarts>>,
         \A t \in Tasks : tree'[t] = tree[t] \/ (/\ tree'[t].landed = tree'[t].head
                                               /\ tree'[t].dirty = tree[t].dirty),
         ok => tree'[req[q].task].landed = tree'[req[q].task].head,
         restarts = 0 => ~midMerge'
  PROVE  Alone' /\ Safe' /\ Clean'
<1> DEFINE t == req[q].task
<1>1. {"merge", "abort", "remove"} \subseteq MergeSteps /\ TypeOK /\ req[q] \in Request /\ t \in Tasks
  BY DEF MergeSteps, WInv, Typed, TypeOK, Asked
<1>2. Busy(q) /\ q \notin touched => ~tree'[t].dirty
  BY <1>1 DEF WInv, Safe
<1>3. restarts = 0 => /\ req[q].live
                      /\ baseAt \in Tasks => req[q].into = baseAt /\ t = baseAt /\ req[q].tmp = baseAt
  BY <1>1, CleanUnder DEF Busy
<1>4. CASE req[q].live /\ req[q].tmp # None
  <2>1. req' = [req EXCEPT ![q].step = "remove", ![q].failed = ~ok] /\ UNCHANGED <<lock, task, touched>>
    BY <1>4 DEF AfterMerge
  <2>2. req'[q] = [req[q] EXCEPT !.step = "remove", !.failed = ~ok] /\ \A r \in Requests : r # q => req'[r] = req[r]
    BY <1>1, <2>1 DEF TypeOK
  <2>3. /\ req'[q].step = "remove" /\ req'[q].live = req[q].live /\ req'[q].task = t
        /\ req'[q].into = req[q].into /\ req'[q].tmp = req[q].tmp /\ (req'[q].failed <=> ~ok)
    BY <1>1, <2>2 DEF Request
  <2>4. ~req'[q].failed => tree'[t].landed = tree'[t].head
    BY <2>3
  <2>5. restarts = 0 => /\ ~midMerge'
                        /\ baseAt' \in Tasks => /\ req'[q].into = baseAt' /\ t = baseAt'
                                               /\ req'[q].tmp = baseAt'
    BY <1>3, <2>3
  <2>6. UNCHANGED restarts /\ req[q].step \in MergeSteps /\ req'[q].step \in MergeSteps
    BY <1>1, <2>3
  <2>7. Busy(q) /\ q \notin touched =>
           /\ req'[q].step # "status" => ~tree'[t].dirty
           /\ req'[q].step = "remove" /\ ~req'[q].failed => tree'[t].landed = tree'[t].head
    BY <1>2, <2>4
  <2>8. restarts = 0 =>
           /\ midMerge' => req'[q].step = "abort" /\ baseAt' = req'[q].into
           /\ baseAt' \in Tasks => /\ req'[q].step \in {"merge", "abort", "remove"}
                                  /\ req'[q].into = baseAt' /\ t = baseAt'
                                  /\ req'[q].tmp = baseAt'
    BY <2>3, <2>5
  <2>9. req'[q].live = req[q].live /\ req'[q].task = req[q].task
    BY <2>3
  <2> HIDE DEF t
  <2> QED BY <2>1, <2>2, <2>6, <2>7, <2>8, <2>9, OnwardKeeps DEF t
<1>5. CASE ~(req[q].live /\ req[q].tmp # None)
  <2>1. Answer(q, ok)
    BY <1>5 DEF AfterMerge
  <2>2. restarts = 0 => baseAt' \notin Tasks
    BY <1>3, <1>5
  <2>3. req[q].live /\ ok /\ q \notin touched => tree'[t].landed = tree'[t].head /\ ~tree'[t].dirty
    BY <1>1, <1>2 DEF Busy
  <2> QED BY <1>1, <2>1, <2>2, <2>3, AnswerKeeps
<1> QED BY <1>4, <1>5

LEMMA MergesKeeps ==
  ASSUME WInv, TypeOK', NEW q \in Requests, MergeMerges(q)
  PROVE  Alone' /\ Safe' /\ Clean'
<1> DEFINE t == req[q].task
<1>1. req[q].step = "merge" /\ UNCHANGED <<orphans, baseAt, restarts>> /\ TRUE \in BOOLEAN /\ FALSE \in BOOLEAN
  BY Zenon DEF MergeMerges
<1>2. {"merge", "abort"} \subseteq MergeSteps /\ TypeOK /\ req[q] \in Request /\ t \in Tasks
  BY <1>1 DEF MergeSteps, WInv, Typed, TypeOK, Asked
<1>3. restarts = 0 => /\ req[q].live /\ ~midMerge
                      /\ baseAt \in Tasks => req[q].into = baseAt /\ t = baseAt /\ req[q].tmp = baseAt
  BY <1>1, <1>2, CleanUnder DEF Busy
<1>4. CASE tree' = [tree EXCEPT ![t].landed = tree[t].head] /\ AfterMerge(q, TRUE) /\ UNCHANGED midMerge
  <2>1. /\ \A u \in Tasks : u # t => tree'[u] = tree[u]
        /\ tree'[t].landed = tree'[t].head /\ tree'[t].dirty = tree[t].dirty
    BY <1>2, <1>4 DEF TypeOK, Tree
  <2> QED BY <1>1, <1>3, <1>4, <2>1, AfterMergeKeeps
<1>5. CASE midMerge' = (midMerge \/ Mergeable(q)) /\ AfterConflict(q) /\ UNCHANGED tree
  <2>1. CASE req[q].live
    <3>1. Goto(q, "abort") /\ UNCHANGED <<lock, task, touched>>
      BY <1>5, <2>1 DEF AfterConflict
    <3>2. /\ req'[q] = [req[q] EXCEPT !.step = "abort"] /\ \A r \in Requests : r # q => req'[r] = req[r]
      BY <1>2, <3>1 DEF Goto, TypeOK
    <3>3. /\ req'[q].step = "abort" /\ req'[q].live = req[q].live /\ req'[q].task = t
          /\ req'[q].into = req[q].into /\ req'[q].tmp = req[q].tmp
      BY <1>2, <3>2 DEF Request
    <3>4. Busy(q) /\ q \notin touched => ~tree'[t].dirty
      BY <1>1, <1>5 DEF WInv, Safe
    <3>5. restarts = 0 /\ midMerge' => baseAt = req[q].into
      BY <1>3, <1>5 DEF Mergeable
    <3> QED BY <1>1, <1>2, <1>3, <1>5, <3>1, <3>2, <3>3, <3>4, <3>5, OnwardKeeps, ZenonT(60)
  <2>2. CASE ~req[q].live
    <3>1. Answer(q, FALSE)
      BY <1>5, <2>2 DEF AfterConflict
    <3> QED BY <1>1, <1>2, <1>3, <1>5, <2>2, <3>1, AnswerKeeps
  <2> QED BY <2>1, <2>2
<1> QED BY <1>4, <1>5 DEF MergeMerges

LEMMA AbortsKeeps ==
  ASSUME WInv, TypeOK', NEW q \in Requests, MergeAborts(q)
  PROVE  Alone' /\ Safe' /\ Clean'
<1>1. req[q].step = "abort" /\ UNCHANGED <<orphans, tree, baseAt, restarts>> /\ FALSE \in BOOLEAN
      /\ AfterMerge(q, FALSE) /\ midMerge' = (midMerge /\ baseAt # req[q].into) /\ "abort" \in MergeSteps
  BY Zenon DEF MergeAborts, MergeSteps
<1>2. restarts = 0 => ~midMerge'
  BY <1>1, CleanUnder
<1> QED BY <1>1, <1>2, AfterMergeKeeps

LEMMA RemovesKeeps ==
  ASSUME WInv, TypeOK', NEW q \in Requests, MergeRemoves(q)
  PROVE  Alone' /\ Safe' /\ Clean'
<1>1. /\ req[q].step = "remove" /\ UNCHANGED <<orphans, tree, restarts>> /\ "remove" \in MergeSteps
      /\ midMerge' = (midMerge /\ baseAt # req[q].into)
      /\ baseAt' = IF baseAt = req[q].into THEN "nowhere" ELSE baseAt
  BY DEF MergeRemoves, MergeSteps
<1>2. PICK ok \in BOOLEAN : Answer(q, ok) /\ (ok <=> ~req[q].failed)
  <2>1. (~req[q].failed) \in BOOLEAN
    BY Zenon
  <2> QED BY <2>1, Zenon DEF MergeRemoves
<1>3. restarts = 0 => ~midMerge' /\ baseAt' \notin Tasks
  BY <1>1, CleanUnder
<1>4. req[q].live /\ ok /\ q \notin touched =>
        tree'[req[q].task].landed = tree'[req[q].task].head /\ ~tree'[req[q].task].dirty
  BY <1>1, <1>2 DEF WInv, Safe, Busy
<1> QED BY <1>1, <1>2, <1>3, <1>4, AnswerKeeps

-----------------------------------------------------------------------------
(* The other steps *)

\* A step of an agent or of a client that takes no part in a merge.
LEMMA AgentKeeps ==
  ASSUME WInv, NEW t \in Tasks, UNCHANGED <<req, lock, restarts, midMerge, baseAt>>,
         \A u \in Tasks : task'[u].merged = task[u].merged,
         \A u \in Tasks : u # t => tree'[u] = tree[u],
         (tree'[t] = tree[t] /\ touched' = touched) \/ Touches(t)
  PROVE  Alone' /\ Safe' /\ Clean'
<1>1. Alone' /\ Clean'
  BY QuietAlone, QuietClean DEF WInv
<1>2. \A q \in Requests : Busy(q)' = Busy(q) /\ (Busy(q) => req[q].task \in Tasks)
  BY DEF Busy, MergeSteps, WInv, Typed, Asked
<1>3. touched \subseteq touched'
  BY DEF Touches
<1>4. \A u \in Tasks : tree'[u] # tree[u] => u \in touched' /\ \A q \in Requests : req[q].task = u => q \in touched'
  BY DEF Touches
<1>5. \A q \in Requests : q \in touched' /\ q \notin touched => req[q].task = t /\ t \in touched'
  <2>1. Requests \cap Tasks = {}
    OBVIOUS
  <2> QED BY <2>1 DEF Touches
<1> QED BY <1>1, <1>2, <1>3, <1>4, <1>5 DEF WInv, Safe

\* A step of a discard: it cleans a worktree, and merges go on beside it.
LEMMA BesideKeeps ==
  ASSUME WInv, NEW q \in Requests, req[q].step \notin MergeSteps, req'[q].step \notin MergeSteps,
         req[q].live => req'[q].live, \A r \in Requests : r # q => req'[r] = req[r],
         UNCHANGED <<lock, restarts, midMerge, baseAt, touched>>,
         \A u \in Tasks : task'[u].merged = task[u].merged,
         \A u \in Tasks : /\ tree'[u].head = tree[u].head /\ tree'[u].landed = tree[u].landed
                          /\ tree'[u].dirty => tree[u].dirty
  PROVE  Alone' /\ Safe' /\ Clean'
<1>1. \A r \in Requests : Busy(r)' <=> Busy(r)
  BY DEF Busy
<1>2. Alone'
  BY <1>1 DEF WInv, Alone
<1>3. ASSUME NEW r \in Requests, Busy(r)
      PROVE  r # q /\ req'[r] = req[r] /\ req[r].task \in Tasks
  BY <1>3 DEF Busy, MergeSteps, WInv, Typed, Asked
<1>4. Safe'
  BY <1>1, <1>3 DEF WInv, Safe
<1>5. Clean'
  <2>1. {"merge", "abort", "remove"} \subseteq MergeSteps
    BY DEF MergeSteps
  <2> QED BY <2>1 DEF WInv, Clean
<1> QED BY <1>2, <1>4, <1>5

LEMMA StepW == WInv /\ [Next]_vars => WInv'
<1> SUFFICES ASSUME WInv, [Next]_vars PROVE Alone' /\ Safe' /\ Clean'
  BY StepTyped DEF WInv
<1>0. TypeOK' /\ TypeOK
  BY StepTyped DEF WInv, Typed
<1>1. ASSUME NEW t \in Tasks, AgentEdits(t) PROVE Alone' /\ Safe' /\ Clean'
  BY <1>0, <1>1, AgentKeeps DEF AgentEdits, TypeOK
<1>2. ASSUME NEW t \in Tasks, AgentCommits(t) PROVE Alone' /\ Safe' /\ Clean'
  BY <1>0, <1>2, AgentKeeps DEF AgentCommits, TypeOK
<1>3. ASSUME NEW t \in Tasks, AgentEnds(t) PROVE Alone' /\ Safe' /\ Clean'
  <2>1. \A u \in Tasks : task'[u].merged = task[u].merged
    BY <1>0, <1>3 DEF AgentEnds, TypeOK, Task
  <2>2. UNCHANGED <<tree, baseAt, midMerge, lock, req, restarts, touched>>
    BY <1>3 DEF AgentEnds
  <2> QED BY <2>1, <2>2, AgentKeeps
<1>4. ASSUME NEW t \in Tasks, Continue(t) PROVE Alone' /\ Safe' /\ Clean'
  <2>1. \A u \in Tasks : task'[u].merged = task[u].merged
    BY <1>0, <1>4 DEF Continue, TypeOK, Task
  <2>2. UNCHANGED <<tree, baseAt, midMerge, lock, req, restarts, touched>>
    BY <1>4 DEF Continue
  <2> QED BY <2>1, <2>2, AgentKeeps
<1>5. CASE UserSwitches
  <2>1. ~midMerge /\ baseAt' \notin Tasks /\ UNCHANGED <<orphans, task, tree, midMerge, lock, req, restarts, touched>>
    BY <1>5 DEF UserSwitches
  <2>2. Alone' /\ Safe'
    BY <2>1, QuietAlone DEF WInv, Safe, Busy
  <2>3. Clean'
    BY <2>1 DEF WInv, Clean
  <2> QED BY <2>2, <2>3
<1>6. ASSUME NEW q \in Requests, NEW t \in Tasks, MergeAccepted(q, t) PROVE Alone' /\ Safe' /\ Clean'
  <2> DEFINE new == [Idle EXCEPT !.step = "status", !.task = t]
  <2>1. /\ req[q].step = "idle" /\ ~lock /\ lock' = TRUE /\ touched' = touched \ {q}
        /\ UNCHANGED <<task, tree, baseAt, midMerge, restarts>>
    BY <1>6 DEF MergeAccepted, LockFree
  <2>2. req'[q].step = "status" /\ req'[q].task = t /\ req'[q].live /\ \A r \in Requests : r # q => req'[r] = req[r]
    BY <1>0, <1>6 DEF MergeAccepted, Idle, TypeOK
  <2>3. \A r \in Requests : ~Busy(r) /\ (Busy(r)' <=> r = q)
    BY <2>1, <2>2 DEF WInv, Alone, Busy, MergeSteps
  <2>4. Alone'
    BY <2>1, <2>3 DEF Alone
  <2>5. \A u \in Tasks : u \in touched' <=> u \in touched
    BY <2>1
  <2>6. Safe'
    BY <2>1, <2>2, <2>3, <2>5 DEF WInv, Safe
  <2>7. Clean'
    BY <2>1, <2>2 DEF WInv, Clean
  <2> QED BY <2>4, <2>6, <2>7
<1>7. ASSUME NEW q \in Requests, NEW t \in Tasks, DiscardAccepted(q, t) PROVE Alone' /\ Safe' /\ Clean'
  <2>1. req[q].step = "idle" /\ UNCHANGED <<task, tree, baseAt, midMerge, lock, restarts, touched>>
    BY <1>7 DEF DiscardAccepted
  <2>2. req'[q].step = "rm" /\ req'[q].live /\ \A r \in Requests : r # q => req'[r] = req[r]
    BY <1>0, <1>7 DEF DiscardAccepted, Idle, TypeOK
  <2>3. {"idle", "rm", "branch"} \cap MergeSteps = {}
    BY DEF MergeSteps
  <2> QED BY <2>1, <2>2, <2>3, BesideKeeps
<1>8. ASSUME NEW q \in Requests, MergeStatus(q) PROVE Alone' /\ Safe' /\ Clean'
  BY <1>0, <1>8, StatusKeeps
<1>9. ASSUME NEW q \in Requests, MergeLog(q) PROVE Alone' /\ Safe' /\ Clean'
  BY <1>0, <1>9, LogKeeps
<1>10. ASSUME NEW q \in Requests, MergeFindsBase(q) PROVE Alone' /\ Safe' /\ Clean'
  BY <1>0, <1>10, FindsBaseKeeps
<1>11. ASSUME NEW q \in Requests, MergeAdds(q) PROVE Alone' /\ Safe' /\ Clean'
  BY <1>0, <1>11, AddsKeeps
<1>12. ASSUME NEW q \in Requests, MergeMerges(q) PROVE Alone' /\ Safe' /\ Clean'
  BY <1>0, <1>12, MergesKeeps
<1>13. ASSUME NEW q \in Requests, MergeAborts(q) PROVE Alone' /\ Safe' /\ Clean'
  BY <1>0, <1>13, AbortsKeeps
<1>14. ASSUME NEW q \in Requests, MergeRemoves(q) PROVE Alone' /\ Safe' /\ Clean'
  BY <1>0, <1>14, RemovesKeeps
<1>15. ASSUME NEW q \in Requests, DiscardRemoves(q) PROVE Alone' /\ Safe' /\ Clean'
  <2> DEFINE t == req[q].task
  <2>1. /\ req[q].step = "rm" /\ UNCHANGED <<task, orphans, baseAt, midMerge, lock, restarts, touched>>
        /\ tree' = [tree EXCEPT ![t].folder = FALSE, ![t].dirty = FALSE] /\ t \in Tasks
    BY <1>15 DEF DiscardRemoves, WInv, Typed, Asked
  <2>2. /\ req'[q] = Idle \/ req'[q] = [req[q] EXCEPT !.step = "branch"]
        /\ \A r \in Requests : r # q => req'[r] = req[r]
    BY <1>0, <1>15 DEF DiscardRemoves, TypeOK
  <2>3. req'[q].step \in {"idle", "branch"} /\ (req[q].live => req'[q].live)
    BY <1>0, <2>2 DEF Idle, TypeOK, Request
  <2>4. \A u \in Tasks : /\ tree'[u].head = tree[u].head /\ tree'[u].landed = tree[u].landed
                         /\ tree'[u].dirty => tree[u].dirty
    BY <1>0, <2>1 DEF TypeOK, Tree
  <2>5. {"idle", "rm", "branch"} \cap MergeSteps = {}
    BY DEF MergeSteps
  <2> QED BY <2>1, <2>2, <2>3, <2>4, <2>5, BesideKeeps
<1>16. ASSUME NEW q \in Requests, DiscardDeletes(q) PROVE Alone' /\ Safe' /\ Clean'
  <2> DEFINE t == req[q].task
  <2>1. /\ req[q].step = "branch" /\ UNCHANGED <<orphans, baseAt, midMerge, lock, restarts, touched>>
        /\ tree' = [tree EXCEPT ![t].branch = FALSE] /\ t \in Tasks
        /\ req' = [req EXCEPT ![q] = Idle]
        /\ task' = [task EXCEPT ![t].path = FALSE] \/ task' = task
    BY <1>16 DEF DiscardDeletes, WInv, Typed, Asked
  <2>2. req'[q].step = "idle" /\ req'[q].live /\ \A r \in Requests : r # q => req'[r] = req[r]
    BY <1>0, <2>1 DEF Idle, TypeOK
  <2>3. \A u \in Tasks : /\ tree'[u].head = tree[u].head /\ tree'[u].landed = tree[u].landed
                         /\ tree'[u].dirty => tree[u].dirty
    BY <1>0, <2>1 DEF TypeOK, Tree
  <2>4. \A u \in Tasks : task'[u].merged = task[u].merged
    BY <1>0, <2>1 DEF TypeOK, Task
  <2>5. {"idle", "rm", "branch"} \cap MergeSteps = {}
    BY DEF MergeSteps
  <2> QED BY <2>1, <2>2, <2>3, <2>4, <2>5, BesideKeeps
<1>17. CASE Restart
  <2>1. restarts' = restarts + 1 /\ lock' = FALSE /\ UNCHANGED <<tree, baseAt, midMerge, touched>>
        /\ task' = [t \in Tasks |-> [task[t] EXCEPT !.status = "done"]]
    BY <1>17 DEF Restart
  <2>2. PICK loose \in SUBSET {q \in Requests : req[q].step # "idle"} :
          req' = [q \in Requests |-> IF q \in loose THEN [req[q] EXCEPT !.live = FALSE] ELSE Idle]
    BY <1>17 DEF Restart
  <2>3. ASSUME NEW q \in Requests PROVE ~Busy(q)'
    <3>1. req[q] \in Request
      BY <1>0 DEF TypeOK
    <3>2. CASE q \in loose
      <4>1. req'[q] = [req[q] EXCEPT !.live = FALSE]
        BY <2>2, <3>2
      <4> QED BY <3>1, <4>1 DEF Busy, Request
    <3>3. CASE q \notin loose
      BY <2>2, <3>3 DEF Busy, Idle, MergeSteps
    <3> QED BY <3>2, <3>3
  <2>4. \A u \in Tasks : task'[u].merged = task[u].merged
    BY <1>0, <2>1 DEF TypeOK, Task
  <2>5. restarts' # 0
    BY <1>0, <2>1 DEF TypeOK
  <2> QED BY <2>1, <2>3, <2>4, <2>5 DEF WInv, Alone, Safe, Clean
<1>18. CASE UNCHANGED vars
  <2>1. UNCHANGED <<task, tree, baseAt, midMerge, lock, req, restarts, touched>>
    BY <1>18 DEF vars
  <2> QED BY <2>1, QuietAlone, QuietClean DEF WInv, Safe, Busy
<1> QED
  BY <1>1, <1>2, <1>3, <1>4, <1>5, <1>6, <1>7, <1>8, <1>9, <1>10, <1>11, <1>12, <1>13, <1>14,
     <1>15, <1>16, <1>17, <1>18 DEF Next, Answers

-----------------------------------------------------------------------------
(* What is promised of merges *)

LEMMA WCorrect == Spec => []WInv
  BY InitW, StepW, PTL DEF Spec

\* What the invariant says of the checks: merges one at a time, merged work on
\* the base branch, nothing left behind.
LEMMA SafeW == WInv => MergesAlone /\ MergedIsSafe /\ NothingLeftBehind
<1> SUFFICES ASSUME WInv PROVE MergesAlone /\ MergedIsSafe /\ NothingLeftBehind
  OBVIOUS
<1>1. CASE lock
  <2>1. PICK q \in Requests : Busy(q)
    BY <1>1 DEF WInv, Alone
  <2>2. Merging = {q}
    BY <2>1 DEF WInv, Alone, Busy, Merging
  <2>3. Cardinality({q}) = 1
    BY FS_Singleton
  <2> QED BY <1>1, <2>2, <2>3 DEF MergesAlone, NothingLeftBehind, MergedIsSafe, WInv, Safe
<1>2. CASE ~lock
  <2>1. Merging = {}
    BY <1>2 DEF WInv, Alone, Busy, Merging
  <2>2. MergesAlone
    BY <1>2, <2>1, FS_EmptySet DEF MergesAlone
  <2>3. {"merge", "abort", "remove"} \subseteq MergeSteps
    BY DEF MergeSteps
  <2>4. NothingLeftBehind
    BY <1>2, <2>3 DEF WInv, Alone, Busy, Clean, NothingLeftBehind
  <2> QED BY <2>2, <2>4 DEF WInv, Safe, MergedIsSafe
<1> QED BY <1>1, <1>2

\* The lock of the repository serialises the merges: one handler at most is
\* between two commands of a merge, and the lock is held as long.
THEOREM MergesAreAlone == Spec => []MergesAlone
  BY SafeW, WCorrect, PTL

\* What is marked as merged is on the base branch, unless its agent wrote on
\* after the merge was accepted.
THEOREM MergedWorkIsSafe == Spec => []MergedIsSafe
  BY SafeW, WCorrect, PTL

\* No merge leaves a checkout in the middle of a merge or a temporary worktree
\* behind, unless the hub died.
THEOREM MergesCleanUp == Spec => []NothingLeftBehind
  BY SafeW, WCorrect, PTL
=============================================================================
