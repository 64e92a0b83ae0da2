--------------------------- MODULE CommandsProofs ---------------------------
(***************************************************************************)
(* Theorems about what waits for others, of any number of tasks, calls,    *)
(* sessions and faults, each of them of a behaviour of the composition:    *)
(* the implementation requests, the tunnel, and the trail                  *)
(***************************************************************************)
EXTENDS MCCommands, TLAPS, WellFoundedInduction, FiniteSetTheorems, SequenceTheorems

-----------------------------------------------------------------------------
(* Implementation requests *)

Implementing(t) == shared[t].active /\ ~shared[t].aborted /\ ~shared[t].again
Recorded(t) == Implementing(t) /\ ~shared[t].bare

\* The row of a run in flight is on record as running, so that a second request
\* is refused, unless it was never written; and a closed share has no run but a
\* late one.
WorkingOnRecord ==
  /\ \A t \in Tasks : Implementing(t) => shared[t].status = "running"
  /\ \A t \in Tasks : Recorded(t) => request[t] = "running"
  /\ \A t, u \in Tasks : Recorded(t) /\ Recorded(u) => t = u
  /\ share # "active" => \A t \in Tasks : Implementing(t) => shared[t].late

ImplementInv == I!TypeOK /\ WorkingOnRecord

LEMMA SettledTyped ==
  ASSUME I!TypeOK, NEW t \in Tasks, NEW status \in {"completed", "failed", "running"}
  PROVE  I!Settled(t, status) \in [Tasks -> I!Task]
<1>1. shared[t] \in I!Task /\ FALSE \in BOOLEAN
  BY Zenon DEF I!TypeOK
<1>2. [shared[t] EXCEPT !.status = status, !.active = FALSE] \in I!Task
  BY <1>1, Zenon DEF I!Task
<1>3. I!Settled(t, status) = [shared EXCEPT ![t] = [shared[t] EXCEPT !.status = status, !.active = FALSE]]
  BY <1>1 DEF I!Settled, I!TypeOK, I!Task
<1> QED BY <1>2, <1>3 DEF I!TypeOK

LEMMA InterruptedTyped ==
  ASSUME NEW tasks \in [Tasks -> I!Task]
  PROVE  /\ I!Interrupted(tasks) \in [Tasks -> I!Task]
         /\ \A t \in Tasks : I!Interrupted(tasks)[t].active =>
              I!Interrupted(tasks)[t] = tasks[t] /\ tasks[t].status # "running"
<1> SUFFICES ASSUME NEW t \in Tasks
    PROVE  [tasks[t] EXCEPT !.status = "failed", !.active = FALSE] \in I!Task
  BY DEF I!Interrupted, I!Task
<1>1. tasks[t] \in I!Task
  OBVIOUS
<1> QED BY <1>1, Zenon DEF I!Task

LEMMA AbortTyped ==
  ASSUME I!TypeOK, I!AbortShareTasks
  PROVE  shared' \in [Tasks -> I!Task] /\ \A t \in Tasks : ~(shared'[t].active /\ ~shared'[t].aborted)
<1> SUFFICES ASSUME NEW t \in Tasks
    PROVE  /\ [shared[t] EXCEPT !.aborted = @ \/ shared[t].active] \in I!Task
           /\ ~(shared'[t].active /\ ~shared'[t].aborted)
  BY DEF I!AbortShareTasks
<1>1. shared[t] \in I!Task
  BY DEF I!TypeOK
<1>2. (shared[t].aborted \/ shared[t].active) \in BOOLEAN
  BY Zenon
<1>3. [shared[t] EXCEPT !.aborted = shared[t].aborted \/ shared[t].active] \in I!Task
  BY <1>1, <1>2, Zenon DEF I!Task
<1>4. shared'[t] = [shared[t] EXCEPT !.aborted = shared[t].aborted \/ shared[t].active]
  BY DEF I!AbortShareTasks
<1>5. shared'[t].active = shared[t].active /\ (shared'[t].aborted <=> shared[t].aborted \/ shared[t].active)
  BY <1>1, <1>4 DEF I!Task
<1> QED BY <1>3, <1>5

LEMMA InitImplement == I!ShareTasksAssumption /\ I!Init => ImplementInv
<1> SUFFICES ASSUME I!ShareTasksAssumption, I!Init PROVE ImplementInv
  OBVIOUS
<1>1. FALSE \in BOOLEAN
  BY Zenon
<1>2. I!NoTask \in I!Task
  BY <1>1, Zenon DEF I!NoTask, I!Task
<1>3. shared = [t \in Tasks |-> I!NoTask] /\ \A t \in Tasks : ~shared[t].active
  BY DEF I!Init, I!NoTask
<1>4. \A t \in Tasks : ~Implementing(t)
  BY <1>3 DEF Implementing
<1>7. \A t \in Tasks : ~Recorded(t)
  BY <1>4 DEF Recorded
<1>5. knocking \in BOOLEAN
  BY <1>1, Zenon DEF I!Init
<1>6. I!TypeOK
  BY <1>2, <1>3, <1>5 DEF I!Init, I!ShareTasksAssumption, I!TypeOK
<1> QED BY <1>4, <1>6, <1>7 DEF I!Init, ImplementInv, WorkingOnRecord

\* A step after which only runs work that did before, with their rows, starts
\* no second one.
LEMMA Fewer ==
  ASSUME ImplementInv, I!TypeOK',
         \A t \in Tasks : Implementing(t)' => /\ Implementing(t) /\ request'[t] = request[t]
                                         /\ shared'[t].late = shared[t].late
                                         /\ shared'[t].bare = shared[t].bare
                                         /\ shared'[t].status = shared[t].status,
         share' = share \/ share' = "active" \/ \A t \in Tasks : ~Implementing(t)'
  PROVE  ImplementInv'
  BY DEF ImplementInv, WorkingOnRecord, Recorded

\* The task of a run that an asker has begun.
LEMMA DelegateNew ==
  ASSUME NEW t \in Tasks, NEW active \in BOOLEAN, NEW bare \in BOOLEAN,
         I!Delegate(t, active, bare)
  PROVE  /\ UNCHANGED <<share, continues>> /\ knocking' \in BOOLEAN /\ ~I!HasRunningImplement
         /\ \E new \in I!Task : /\ shared' = [shared EXCEPT ![t] = new]
                                /\ new.status = "running" /\ (new.late <=> share # "active")
                                /\ new.bare = bare
<1> DEFINE new == [I!NoTask EXCEPT !.status = "running", !.active = active,
                                   !.late = share # "active", !.bare = bare]
<1>1. I!NoTask \in I!Task /\ (share # "active") \in BOOLEAN
  <2>1. FALSE \in BOOLEAN
    BY Zenon
  <2>2. (share # "active") \in BOOLEAN
    BY Zenon
  <2> QED BY <2>1, <2>2, Zenon DEF I!NoTask, I!Task
<1>2. new \in I!Task
  BY <1>1, Zenon DEF I!Task
<1>3. new.status = "running" /\ (new.late <=> share # "active") /\ new.bare = bare
  BY DEF I!NoTask
<1>4. shared' = [shared EXCEPT ![t] = new] /\ UNCHANGED <<share, continues>>
      /\ knocking' = FALSE /\ ~I!HasRunningImplement
  BY Zenon DEF I!Delegate
<1>5. knocking' \in BOOLEAN
  BY <1>4, Zenon
<1> HIDE DEF new
<1> QED BY <1>2, <1>3, <1>4, <1>5

LEMMA StepImplement == I!ShareTasksAssumption /\ ImplementInv /\ [I!Next]_I!vars => ImplementInv'
<1> SUFFICES ASSUME I!ShareTasksAssumption, ImplementInv, [I!Next]_I!vars PROVE ImplementInv'
  OBVIOUS
<1> USE DEF I!ShareTasksAssumption
<1>0. I!TypeOK /\ WorkingOnRecord
  BY DEF ImplementInv
<1>1. CASE I!Knock
  <2>1. I!TypeOK' /\ UNCHANGED <<share, shared, request>>
    BY <1>0, <1>1 DEF I!Knock, I!TypeOK
  <2> QED BY <2>1, Fewer DEF Implementing
<1>2. CASE I!ImplementRefused
  <2>1. I!TypeOK' /\ UNCHANGED <<share, shared, request>>
    BY <1>0, <1>2 DEF I!ImplementRefused, I!TypeOK
  <2> QED BY <2>1, Fewer DEF Implementing
<1>3. ASSUME NEW t \in Tasks, I!Implement(t) PROVE ImplementInv'
  <2>1. request' = [request EXCEPT ![t] = "running"] /\ UNCHANGED faults
    BY <1>3 DEF I!Implement
  <2>2. PICK new \in I!Task : /\ shared' = [shared EXCEPT ![t] = new]
                             /\ new.status = "running" /\ (new.late <=> share # "active")
                             /\ new.bare = FALSE
    BY <1>3, DelegateNew DEF I!Implement
  <2>3. UNCHANGED <<share, continues>> /\ knocking' \in BOOLEAN /\ ~I!HasRunningImplement
    BY <1>3, DelegateNew DEF I!Implement
  <2>4. I!TypeOK'
    BY <1>0, <2>1, <2>2, <2>3 DEF I!TypeOK
  <2>5. \A u \in Tasks : ~Recorded(u)
    BY <1>0, <2>3 DEF I!HasRunningImplement, WorkingOnRecord
  <2>6. \A u \in Tasks : u # t => shared'[u] = shared[u] /\ request'[u] = request[u]
    BY <1>0, <2>1, <2>2 DEF I!TypeOK
  <2>7. request'[t] = "running" /\ shared'[t] = new
    BY <1>0, <2>1, <2>2 DEF I!TypeOK
  <2>8. \A u \in Tasks : Recorded(u)' => u = t
    BY <2>5, <2>6 DEF Recorded, Implementing
  <2>9. \A u \in Tasks : u # t => (Implementing(u)' <=> Implementing(u))
    BY <2>6 DEF Implementing
  <2> QED BY <1>0, <2>2, <2>3, <2>4, <2>6, <2>7, <2>8, <2>9 DEF ImplementInv, WorkingOnRecord
<1>13. ASSUME NEW t \in Tasks, I!ImplementThrows(t) PROVE ImplementInv'
  <2>1. UNCHANGED request /\ faults' \in 0..MaxFaults
    BY <1>0, <1>13 DEF I!ImplementThrows, I!Fault, I!TypeOK
  <2>0. PICK active \in BOOLEAN : I!Delegate(t, active, TRUE)
    BY <1>13 DEF I!ImplementThrows
  <2>t. TRUE \in BOOLEAN
    BY Zenon
  <2>2. PICK new \in I!Task : /\ shared' = [shared EXCEPT ![t] = new]
                             /\ new.status = "running" /\ (new.late <=> share # "active")
                             /\ new.bare = TRUE
    BY <2>0, <2>t, DelegateNew
  <2>3. UNCHANGED <<share, continues>> /\ knocking' \in BOOLEAN
    BY <2>0, <2>t, DelegateNew
  <2>4. I!TypeOK'
    BY <1>0, <2>1, <2>2, <2>3 DEF I!TypeOK
  <2>5. \A u \in Tasks : u # t => shared'[u] = shared[u]
    BY <1>0, <2>2 DEF I!TypeOK
  <2>6. shared'[t] = new
    BY <1>0, <2>2 DEF I!TypeOK
  <2>7. \A u \in Tasks : Recorded(u)' => u # t /\ Recorded(u)
    BY <2>2, <2>5, <2>6 DEF Recorded, Implementing
  <2>8. \A u \in Tasks : u # t => (Implementing(u)' <=> Implementing(u))
    BY <2>5 DEF Implementing
  <2> QED
    BY <1>0, <2>1, <2>2, <2>3, <2>4, <2>5, <2>6, <2>7, <2>8 DEF ImplementInv, WorkingOnRecord
<1>4. ASSUME NEW t \in Tasks, I!Poll(t) PROVE ImplementInv'
  <2>1. shared[t].status \in {"completed", "failed"} /\ request' = I!Follow(t, shared[t].status)
        /\ UNCHANGED <<share, knocking, shared, continues, faults>>
    BY <1>4 DEF I!Poll
  <2>2. I!TypeOK'
    BY <1>0, <2>1 DEF I!Follow, I!TypeOK
  <2>3. \A u \in Tasks : Implementing(u)' => Implementing(u) /\ u # t /\ request'[u] = request[u]
    BY <1>0, <2>1 DEF I!Follow, I!TypeOK, Implementing, WorkingOnRecord
  <2> QED BY <2>1, <2>2, <2>3, Fewer
<1>5. ASSUME NEW t \in Tasks, NEW ok \in BOOLEAN, I!Ends(t, ok) PROVE ImplementInv'
  <2>1. PICK status \in {"completed", "failed"} : shared' = I!Settled(t, status) /\ request' = I!Follow(t, status)
    BY <1>5, Zenon DEF I!Ends
  <2>2. UNCHANGED <<share, knocking, continues, faults>>
    BY <1>5 DEF I!Ends
  <2>3. I!TypeOK'
    BY <1>0, <2>1, <2>2, SettledTyped DEF I!TypeOK, I!Follow
  <2>4. ~shared'[t].active /\ \A u \in Tasks : u # t => shared'[u] = shared[u] /\ request'[u] = request[u]
    BY <1>0, <2>1 DEF I!Settled, I!Follow, I!TypeOK, I!Task
  <2> QED BY <2>2, <2>3, <2>4, Fewer DEF Implementing
<1>6. ASSUME NEW t \in Tasks, I!EndsBadly(t) PROVE ImplementInv'
  <2>1. PICK status \in {"completed", "failed", "running"} : shared' = I!Settled(t, status)
    BY <1>6 DEF I!EndsBadly
  <2>2. UNCHANGED <<share, knocking, continues>> /\ request' = I!Follow(t, "failed") /\ faults' \in 0..MaxFaults
    BY <1>0, <1>6 DEF I!EndsBadly, I!Fault, I!TypeOK
  <2>3. I!TypeOK'
    BY <1>0, <2>1, <2>2, SettledTyped DEF I!TypeOK, I!Follow
  <2>4. ~shared'[t].active /\ \A u \in Tasks : u # t => shared'[u] = shared[u] /\ request'[u] = request[u]
    BY <1>0, <2>1, <2>2 DEF I!Settled, I!Follow, I!TypeOK, I!Task
  <2> QED BY <2>2, <2>3, <2>4, Fewer DEF Implementing
<1>7. ASSUME NEW t \in Tasks, I!Continue(t) PROVE ImplementInv'
  <2> DEFINE new == [shared[t] EXCEPT !.status = "running", !.active = TRUE, !.aborted = FALSE, !.again = TRUE]
  <2>1. shared[t] \in I!Task /\ TRUE \in BOOLEAN /\ FALSE \in BOOLEAN
    BY <1>0, Zenon DEF I!TypeOK
  <2>2. new \in I!Task
    BY <2>1, Zenon DEF I!Task
  <2>3. shared' = [shared EXCEPT ![t] = new]
    BY <1>0, <1>7 DEF I!Continue, I!TypeOK, I!Task
  <2>4. new.again
    BY <2>1 DEF I!Task
  <2>5. I!TypeOK'
    BY <1>0, <1>7, <2>2, <2>3 DEF I!Continue, I!TypeOK
  <2>6. UNCHANGED <<share, request>> /\ shared'[t].again /\ \A u \in Tasks : u # t => shared'[u] = shared[u]
    BY <1>0, <1>7, <2>3, <2>4 DEF I!Continue, I!TypeOK
  <2> QED BY <2>5, <2>6, Fewer DEF Implementing
<1>8. CASE I!Crash
  <2>1. UNCHANGED <<share, request, continues>> /\ knocking' \in BOOLEAN /\ faults' \in 0..MaxFaults
    <3>1. UNCHANGED <<share, request, continues>> /\ knocking' = FALSE /\ I!Fault
      BY <1>8, Zenon DEF I!Crash
    <3>2. knocking' \in BOOLEAN
      BY <3>1, Zenon
    <3> QED BY <1>0, <3>1, <3>2 DEF I!Fault, I!TypeOK
  <2>2. ASSUME NEW tasks \in [Tasks -> I!Task], shared' = I!Interrupted(tasks),
               \A u \in Tasks : tasks[u].active /\ tasks[u].status # "running" => tasks[u] = shared[u]
        PROVE  ImplementInv'
    <3>1. I!TypeOK'
      BY <1>0, <2>1, <2>2, InterruptedTyped DEF I!TypeOK
    <3>2. \A u \in Tasks : shared'[u].active => shared'[u] = shared[u] /\ shared[u].status # "running"
      BY <2>2, InterruptedTyped
    <3>3. \A u \in Tasks : ~Implementing(u)'
      BY <1>0, <3>2 DEF Implementing, WorkingOnRecord
    <3> QED BY <2>1, <3>1, <3>3, Fewer
  <2>3. CASE shared' = I!Interrupted(shared)
    BY <1>0, <2>2, <2>3 DEF I!TypeOK
  <2>4. ASSUME NEW t \in Tasks, shared' = I!Interrupted(I!Settled(t, "completed")) PROVE ImplementInv'
    <3>1. I!Settled(t, "completed") \in [Tasks -> I!Task]
      BY <1>0, SettledTyped
    <3>2. \A u \in Tasks : I!Settled(t, "completed")[u].active => I!Settled(t, "completed")[u] = shared[u]
      BY <1>0 DEF I!Settled, I!TypeOK, I!Task
    <3> QED BY <2>2, <2>4, <3>1, <3>2
  <2>5. ASSUME NEW t \in Tasks, shared' = I!Interrupted([shared EXCEPT ![t].status = "running"]) PROVE ImplementInv'
    <3> DEFINE tasks == [shared EXCEPT ![t].status = "running"]
    <3>1. shared[t] \in I!Task /\ [shared[t] EXCEPT !.status = "running"] \in I!Task
      BY <1>0, Zenon DEF I!TypeOK, I!Task
    <3>2. tasks = [shared EXCEPT ![t] = [shared[t] EXCEPT !.status = "running"]]
      BY <1>0 DEF I!TypeOK
    <3>3. tasks \in [Tasks -> I!Task]
      BY <1>0, <3>1, <3>2 DEF I!TypeOK
    <3>4. \A u \in Tasks : tasks[u].status # "running" => tasks[u] = shared[u]
      BY <1>0 DEF I!TypeOK, I!Task
    <3> QED BY <2>2, <2>5, <3>3, <3>4
  <2> QED BY <1>8, <2>3, <2>4, <2>5 DEF I!Crash
<1>9. ASSUME NEW closed \in {"paused", "revoked"}, I!Close(closed) PROVE ImplementInv'
  <2>1. shared' \in [Tasks -> I!Task] /\ \A t \in Tasks : ~Implementing(t)'
    BY <1>0, <1>9, AbortTyped DEF I!Close, Implementing
  <2>2. I!TypeOK'
    BY <1>0, <1>9, <2>1 DEF I!Close, I!TypeOK
  <2> QED BY <2>1, <2>2, Fewer
<1>10. CASE I!Reopen
  <2>1. I!TypeOK' /\ UNCHANGED <<shared, request>> /\ share' = "active"
    BY <1>0, <1>10 DEF I!Reopen, I!TypeOK
  <2> QED BY <2>1, Fewer DEF Implementing
<1>11. CASE I!Delete
  <2>1. shared' \in [Tasks -> I!Task] /\ \A t \in Tasks : ~Implementing(t)'
    BY <1>0, <1>11, AbortTyped DEF I!Delete, Implementing
  <2>2. I!TypeOK'
    BY <1>0, <1>11, <2>1 DEF I!Delete, I!TypeOK
  <2> QED BY <2>1, <2>2, Fewer
<1>12. CASE UNCHANGED I!vars
  <2>1. I!TypeOK' /\ UNCHANGED <<share, shared, request>>
    BY <1>0, <1>12 DEF I!vars, I!TypeOK
  <2> QED BY <2>1, Fewer DEF Implementing
<1> QED BY <1>1, <1>2, <1>3, <1>4, <1>5, <1>6, <1>7, <1>8, <1>9, <1>10, <1>11, <1>12, <1>13 DEF I!Next

\* Every variable of the implementation requests keeps its type, and the rows
\* of the requests refuse a second run as long as the first is in flight, if
\* its row could be written.
THEOREM RowsGuardRuns == CommandsSpec => []ImplementInv
<1>1. I!ShareTasksAssumption
  BY ShareTasksPart
<1>2. CommandsInit => ImplementInv
  BY <1>1, InitImplement DEF CommandsInit
<1>3. ImplementInv /\ [CommandsNext]_all => ImplementInv'
  <2>1. [CommandsNext]_all => [I!Next]_I!vars
    BY DEF CommandsNext, all, implement, I!vars, InWorktrees, InTunnel, InImplement, InTrail
  <2> QED BY <1>1, <2>1, StepImplement
<1> QED BY <1>2, <1>3, PTL DEF CommandsSpec

\* At most one run of an asker is in flight, apart from those whose row could
\* not be written, and on a closed share none but what had been authorised
\* before.
THEOREM OneImplementationAtATime == CommandsSpec => []OneImplementation
<1>1. ImplementInv => OneImplementation
  <2> SUFFICES ASSUME ImplementInv PROVE I!OneImplementation
    BY DEF OneImplementation
  <2> DEFINE working == {t \in Tasks : shared[t].active /\ ~shared[t].aborted /\ ~shared[t].again}
  <2> DEFINE rows == {t \in working : ~shared[t].bare}
  <2>1. \A t, u \in rows : t = u
    BY DEF ImplementInv, WorkingOnRecord, Recorded, Implementing
  <2>2. Cardinality(rows) <= 1
    <3>1. CASE rows = {}
      BY <3>1, FS_EmptySet
    <3>2. ASSUME NEW t \in rows PROVE Cardinality(rows) <= 1
      <4>1. rows = {t}
        BY <2>1, <3>2
      <4> HIDE DEF rows
      <4>2. Cardinality(rows) = 1
        BY <4>1, FS_Singleton
      <4> QED BY <4>2
    <3> QED BY <3>1, <3>2
  <2>3. share # "active" => \A t \in working : shared[t].late
    BY DEF ImplementInv, WorkingOnRecord, Implementing
  <2>4. I!Cardinality(rows) = Cardinality(rows)
    BY Zenon DEF I!Cardinality, Cardinality
  <2> QED BY <2>2, <2>3, <2>4 DEF I!OneImplementation
<1> QED BY <1>1, RowsGuardRuns, PTL

-----------------------------------------------------------------------------
(* The tunnel *)

\* A start that has not started its process yet.
Early == {"install", "list", "close", "await"}

Exposed(p) == proc[p].status = "alive" /\ proc[p].life = life

\* The process that is public is the one on show; a start that is current has
\* found none, and no other start is current with it.
Shown ==
  /\ \A p \in N!Procs : Exposed(p) => wanted /\ child = p /\ state \in {"starting", "running"}
  /\ \A c \in Tasks : call[c].step \in Early /\ N!Current(c) => wanted /\ \A p \in N!Procs : ~Exposed(p)
  /\ \A c, d \in Tasks : call[c].step \in Early /\ call[d].step \in Early /\ N!Current(c) /\ N!Current(d) => c = d
  /\ \A c \in Tasks : call[c].gen <= generation
  /\ \A p \in N!Procs : proc[p].life <= life

TunnelInv == N!TypeOK /\ Shown

LEMMA CallTyped ==
  ASSUME N!TunnelAssumption, NEW step \in {"idle", "install", "list", "close", "await", "wait"},
         NEW gen \in 0..MaxGenerations, NEW victims \in SUBSET N!Procs, NEW target \in N!Procs \cup {None}
  PROVE  /\ [step |-> step, gen |-> gen, target |-> target, victims |-> victims] \in N!Call
         /\ [N!Inactive EXCEPT !.step = step, !.gen = gen] \in N!Call
         /\ [N!Inactive EXCEPT !.step = step, !.target = target] \in N!Call
         /\ N!Inactive \in N!Call
         /\ \A r \in N!Call : /\ [r EXCEPT !.step = step, !.victims = victims] \in N!Call
                              /\ [r EXCEPT !.step = step, !.target = target] \in N!Call
<1>1. 0 \in 0..MaxGenerations /\ {} \in SUBSET N!Procs
  BY DEF N!TunnelAssumption
<1>2. N!Inactive \in N!Call
  BY <1>1, Zenon DEF N!Inactive, N!Call
<1>3. [step |-> step, gen |-> gen, target |-> target, victims |-> victims] \in N!Call
  BY Zenon DEF N!Call
<1>4. [N!Inactive EXCEPT !.step = step, !.gen = gen] \in N!Call /\ [N!Inactive EXCEPT !.step = step, !.target = target] \in N!Call
  BY <1>2, Zenon DEF N!Call
<1>5. \A r \in N!Call : [r EXCEPT !.step = step, !.victims = victims] \in N!Call
  BY Zenon DEF N!Call
<1>6. \A r \in N!Call : [r EXCEPT !.step = step, !.target = target] \in N!Call
  BY Zenon DEF N!Call
<1> QED BY <1>2, <1>3, <1>4, <1>5, <1>6

LEMMA InactiveTyped == N!TunnelAssumption => N!Inactive \in N!Call /\ N!Inactive.step \notin Early /\ N!Inactive.gen = 0
<1> SUFFICES ASSUME N!TunnelAssumption PROVE N!Inactive \in N!Call /\ N!Inactive.step \notin Early /\ N!Inactive.gen = 0
  OBVIOUS
<1>1. 0 \in 0..MaxGenerations /\ {} \in SUBSET N!Procs
  BY DEF N!TunnelAssumption
<1>2. N!Inactive \in N!Call
  BY <1>1, Zenon DEF N!Inactive, N!Call
<1> QED BY <1>2 DEF N!Inactive, Early

LEMMA SignalledKeeps ==
  ASSUME N!TunnelAssumption, N!TypeOK, NEW q \in N!Procs \cup {None}
  PROVE  /\ N!Signalled(q) \in [N!Procs -> N!Proc]
         /\ \A p \in N!Procs : N!Signalled(q)[p].life = proc[p].life
         /\ \A p \in N!Procs : N!Signalled(q)[p].status = "alive" => proc[p].status = "alive" /\ p # q
<1> USE DEF N!Signalled
<1>1. CASE q # None /\ proc[q].status = "alive"
  <2>1. N!Signalled(q) = [proc EXCEPT ![q] = [proc[q] EXCEPT !.status = "dying"]] /\ q \in N!Procs
    BY <1>1, Zenon
  <2>2. [proc[q] EXCEPT !.status = "dying"] \in N!Proc /\ [proc[q] EXCEPT !.status = "dying"].life = proc[q].life
        /\ [proc[q] EXCEPT !.status = "dying"].status = "dying"
    BY <2>1 DEF N!TypeOK, N!Proc
  <2>3. proc \in [N!Procs -> N!Proc]
    BY DEF N!TypeOK
  <2> HIDE DEF N!Signalled
  <2>4. N!Signalled(q) \in [N!Procs -> N!Proc]
    BY <2>1, <2>2, <2>3, Zenon
  <2>5. \A p \in N!Procs : N!Signalled(q)[p] = IF p = q THEN [proc[q] EXCEPT !.status = "dying"] ELSE proc[p]
    BY <2>1, <2>3
  <2> QED BY <2>2, <2>4, <2>5
<1>2. CASE ~(q # None /\ proc[q].status = "alive")
  <2>1. N!Signalled(q) = proc
    BY <1>2, Zenon
  <2> HIDE DEF N!Signalled
  <2>2. q = None \/ proc[q].status # "alive"
    BY <1>2
  <2> QED BY <2>1, <2>2 DEF N!TypeOK, N!TunnelAssumption, N!Procs
<1> QED BY <1>1, <1>2

LEMMA InitTunnel == N!TunnelAssumption /\ N!Init => TunnelInv
<1> SUFFICES ASSUME N!TunnelAssumption, N!Init PROVE TunnelInv
  OBVIOUS
<1> USE DEF N!TunnelAssumption
<1>1. N!Inactive \in N!Call
  <2>1. 0 \in 0..MaxGenerations
    OBVIOUS
  <2> QED BY <2>1, Zenon DEF N!Inactive, N!Call
<1>2. [status |-> "none", life |-> 0] \in N!Proc /\ 1 \in 1..MaxLives /\ 0 \in 0..MaxGenerations
  BY DEF N!Proc
<1>3. installed \in BOOLEAN /\ wanted \in BOOLEAN
  BY Zenon DEF N!Init
<1>4. N!TypeOK
  BY <1>1, <1>2, <1>3 DEF N!Init, N!TypeOK
<1>5. Shown
  BY DEF N!Init, Shown, N!Inactive, Early, Exposed
<1> QED BY <1>4, <1>5 DEF TunnelInv

\* A step that starts no process and no start.
LEMMA QuietKeeps ==
  ASSUME N!TunnelAssumption, TunnelInv, N!TypeOK', UNCHANGED <<generation, wanted, life>>,
         \A p \in N!Procs : proc'[p].life = proc[p].life /\ (proc'[p].status = "alive" => proc[p].status = "alive"),
         \A c \in Tasks : /\ call'[c].step \in Early => call[c].step \in Early /\ call'[c].gen = call[c].gen
                          /\ call'[c].gen <= generation,
         \A p \in N!Procs : Exposed(p)' => child' = p /\ state' \in {"starting", "running"}
  PROVE  TunnelInv'
  BY DEF TunnelInv, Shown, Exposed, N!Current

\* startTunnel.

LEMMA StartKeeps ==
  ASSUME N!TunnelAssumption, TunnelInv, NEW c \in Tasks, N!Start(c)
  PROVE  TunnelInv'
<1> USE DEF N!TunnelAssumption
<1>1. call \in [Tasks -> N!Call] /\ generation + 1 \in 0..MaxGenerations /\ generation \in Nat
  BY DEF N!Start, TunnelInv, N!TypeOK
<1>2. PICK new \in N!Call : call' = call \/ (call' = [call EXCEPT ![c] = new] /\ new.gen = generation + 1)
  <2>1. {p \in {pidfile} : N!Runs(p)} \in SUBSET N!Procs
    BY DEF TunnelInv, N!TypeOK, N!Runs
  <2>2. [N!Inactive EXCEPT !.step = "install", !.gen = generation + 1] \in N!Call
    BY <1>1, <2>1, CallTyped, Zenon
  <2>3. [step |-> "list", gen |-> generation + 1, target |-> None, victims |-> {p \in {pidfile} : N!Runs(p)}] \in N!Call
    BY <1>1, <2>1, Zenon DEF N!Call
  <2>4. [N!Inactive EXCEPT !.step = "install", !.gen = generation + 1].gen = generation + 1
    BY Zenon DEF N!Inactive
  <2>5. \/ call' = call
        \/ call' = [call EXCEPT ![c] = [N!Inactive EXCEPT !.step = "install", !.gen = generation + 1]]
        \/ call' = [call EXCEPT ![c] = [step |-> "list", gen |-> generation + 1, target |-> None,
                                        victims |-> {p \in {pidfile} : N!Runs(p)}]]
    BY Zenon DEF N!Start, N!BadDomain, N!Closing
  <2> QED BY <2>2, <2>3, <2>4, <2>5
<1>3. /\ state \notin {"running", "starting", "installing"} /\ generation' = generation + 1
      /\ UNCHANGED <<child, installed, proc, pidfile, reap, life>>
      /\ state' \in {state, "installing", "error"}
  BY Zenon DEF N!Start, N!BadDomain
<1>4. wanted' = TRUE
  BY Zenon DEF N!Start
<1>5. wanted' \in BOOLEAN
  BY <1>4, Zenon
<1>6. call' \in [Tasks -> N!Call]
  BY <1>1, <1>2
<1>7. N!TypeOK'
  BY <1>1, <1>3, <1>5, <1>6 DEF TunnelInv, N!TypeOK
<1>8. \A p \in N!Procs : ~Exposed(p) /\ ~Exposed(p)'
  BY <1>3 DEF TunnelInv, Shown, Exposed
<1>9. \A d \in Tasks : call'[d].gen <= generation' /\ (N!Current(d)' => d = c)
  BY <1>1, <1>2, <1>3 DEF TunnelInv, N!TypeOK, Shown, N!Current, N!Call
<1>10. \A p \in N!Procs : proc'[p].life <= life'
  BY <1>3 DEF TunnelInv, Shown
<1>11. Shown'
  BY <1>4, <1>8, <1>9, <1>10 DEF Shown
<1> QED BY <1>7, <1>11 DEF TunnelInv

LEMMA InstallEndsKeeps ==
  ASSUME N!TunnelAssumption, TunnelInv, N!InstallEnds
  PROVE  TunnelInv'
<1> USE DEF N!TunnelAssumption
<1> DEFINE rest == [c \in Tasks |-> IF c \in N!Installing THEN N!Inactive ELSE call[c]]
<1>1. rest \in [Tasks -> N!Call] /\ call \in [Tasks -> N!Call] /\ N!Inactive \in N!Call
  BY CallTyped, Zenon DEF TunnelInv, N!TypeOK, N!TunnelAssumption
<1>2. PICK next \in [Tasks -> N!Call] :
        /\ call' = next
        /\ \/ next = rest
           \/ \E c \in N!Installing : /\ N!Current(c) /\ next[c].gen = generation
                                      /\ \A d \in Tasks \ {c} : next[d] = rest[d]
  <2>1. CASE \E c \in N!Installing : N!Current(c) /\ N!Closing(rest, c, generation)
    <3>1. PICK c \in N!Installing : N!Current(c) /\ N!Closing(rest, c, generation)
      BY <2>1
    <3> DEFINE new == [step |-> "list", gen |-> generation, target |-> None,
                       victims |-> {p \in {pidfile} : N!Runs(p)}]
    <3>2. new \in N!Call
      <4>1. {p \in {pidfile} : N!Runs(p)} \in SUBSET N!Procs /\ generation \in 0..MaxGenerations
        BY DEF TunnelInv, N!TypeOK, N!Runs
      <4> QED BY <4>1, Zenon DEF N!Call
    <3>3. call' = [rest EXCEPT ![c] = new] /\ new.gen = generation
      BY <3>1 DEF N!Closing
    <3>4. c \in Tasks
      BY DEF N!Installing
    <3> HIDE DEF rest, new
    <3>5. [rest EXCEPT ![c] = new] \in [Tasks -> N!Call] /\ [rest EXCEPT ![c] = new][c] = new
          /\ \A d \in Tasks \ {c} : [rest EXCEPT ![c] = new][d] = rest[d]
      BY <1>1, <3>2, <3>4
    <3> QED BY <3>1, <3>3, <3>5
  <2>2. CASE call' = rest
    BY <2>2, <1>1, Zenon
  <2> QED BY <2>1, <2>2, Zenon DEF N!InstallEnds, N!BadDomain
<1>3. /\ UNCHANGED <<child, generation, wanted, proc, pidfile, reap, life>>
      /\ state' = state \/ (state' = "error" /\ \E c \in N!Installing : N!Current(c))
  BY Zenon DEF N!InstallEnds, N!BadDomain
<1>4. installed' \in BOOLEAN
  <2>1. installed \in BOOLEAN /\ TRUE \in BOOLEAN
    BY Zenon DEF TunnelInv, N!TypeOK
  <2>2. installed' = installed \/ installed' = TRUE
    BY Zenon DEF N!InstallEnds
  <2> QED BY <2>1, <2>2, Zenon
<1>5. N!TypeOK'
  BY <1>2, <1>3, <1>4 DEF TunnelInv, N!TypeOK
<1>6. \A c \in Tasks : rest[c] = N!Inactive \/ rest[c] = call[c]
  OBVIOUS
<1>7. \A c \in N!Installing : c \in Tasks /\ call[c].step \in Early
  BY DEF N!Installing, Early
<1>8. \A c \in Tasks : /\ call'[c].step \in Early => call[c].step \in Early /\ call'[c].gen = call[c].gen
                       /\ call'[c].gen <= generation
  <2> HIDE DEF rest
  <2>1. N!Inactive.step \notin Early /\ N!Inactive.gen = 0 /\ generation \in Nat
    BY DEF N!Inactive, Early, TunnelInv, N!TypeOK
  <2> QED BY <1>2, <1>6, <1>7, <2>1 DEF TunnelInv, Shown, N!Current
<1>9. \A p \in N!Procs : Exposed(p)' => child' = p /\ state' \in {"starting", "running"}
  BY <1>3, <1>7 DEF TunnelInv, Shown, Exposed
<1> QED BY <1>3, <1>5, <1>8, <1>9, QuietKeeps

\* The start of ngrok: what it leaves is an invariant state again.
LEMMA ReadyKeeps ==
  ASSUME N!TunnelAssumption, TunnelInv, NEW c \in Tasks, call[c].step \in {"list", "await"},
         NEW pid \in N!Procs \cup {None}, N!Ready(c, pid),
         UNCHANGED <<generation, wanted, installed, reap, life>>
  PROVE  TunnelInv'
<1> USE DEF N!TunnelAssumption
<1>1. CASE /\ ~N!Current(c)
           /\ pidfile' = pid /\ call' = [call EXCEPT ![c] = N!Inactive]
           /\ UNCHANGED <<state, child, proc>>
  <2>1. N!Inactive \in N!Call /\ N!Inactive.step \notin Early /\ N!Inactive.gen = 0
    BY InactiveTyped
  <2>2. N!TypeOK'
    BY <1>1, <2>1 DEF TunnelInv, N!TypeOK
  <2>3. \A d \in Tasks : /\ call'[d].step \in Early => call[d].step \in Early /\ call'[d].gen = call[d].gen
                         /\ call'[d].gen <= generation
    BY <1>1, <2>1 DEF TunnelInv, N!TypeOK, Shown
  <2> QED BY <1>1, <2>2, <2>3, QuietKeeps DEF TunnelInv, Shown, Exposed
<1>2. CASE N!Current(c) /\ ~(~N!Current(c))
  <2>1. PICK p \in N!Procs, status \in {"alive", "failed"} :
          /\ proc[p].status = "none"
          /\ proc' = [proc EXCEPT ![p] = [status |-> status, life |-> life]]
          /\ state' = "starting" /\ child' = p
          /\ pidfile' = IF status = "alive" THEN p ELSE pid
          /\ call' = [call EXCEPT ![c] = [N!Inactive EXCEPT !.step = "wait", !.target = p]]
    BY <1>2, Zenon DEF N!Ready
  <2> DEFINE new == [N!Inactive EXCEPT !.step = "wait", !.target = p]
  <2>2. new \in N!Call /\ new.step = "wait" /\ new.gen = 0
    <3>1. "wait" \in {"idle", "install", "list", "close", "await", "wait"} /\ p \in N!Procs \cup {None}
          /\ 0 \in 0..MaxGenerations /\ {} \in SUBSET N!Procs
      OBVIOUS
    <3>2. new \in N!Call
      BY <3>1, CallTyped, Zenon
    <3> QED BY <3>2 DEF N!Inactive
  <2>3. [status |-> status, life |-> life] \in N!Proc
    BY DEF N!Proc, TunnelInv, N!TypeOK
  <2>4. call' = [call EXCEPT ![c] = new]
    BY <2>1
  <2> HIDE DEF new
  <2>5. N!TypeOK'
    BY <2>1, <2>2, <2>3, <2>4 DEF TunnelInv, N!TypeOK
  <2>6. call[c].step \in Early /\ new.step \notin Early
    BY <2>2 DEF Early
  <2>7. wanted /\ \A q \in N!Procs : ~Exposed(q)
    BY <1>2, <2>6 DEF TunnelInv, Shown
  <2>8. \A q \in N!Procs : Exposed(q)' => q = p
    BY <2>1, <2>7 DEF Exposed, TunnelInv, N!TypeOK
  <2>9. \A d \in Tasks : call'[d].step \in Early => ~N!Current(d)'
    BY <1>2, <2>4, <2>6 DEF TunnelInv, N!TypeOK, Shown, N!Current
  <2>10. \A d \in Tasks : call'[d].gen <= generation'
    BY <2>2, <2>4 DEF TunnelInv, N!TypeOK, Shown
  <2>11. \A q \in N!Procs : proc'[q].life <= life'
    BY <2>1 DEF TunnelInv, N!TypeOK, Shown
  <2>12. Shown'
    BY <2>1, <2>7, <2>8, <2>9, <2>10, <2>11 DEF Shown
  <2> QED BY <2>5, <2>12 DEF TunnelInv
<1> QED BY <1>1, <1>2, Zenon DEF N!Ready

\* A call goes on to its next process.
LEMMA GoesOnKeeps ==
  ASSUME N!TunnelAssumption, TunnelInv, NEW c \in Tasks, call[c].step \in Early,
         NEW r \in N!Call, r.gen = call[c].gen, call' = [call EXCEPT ![c] = r], NEW q \in N!Procs \cup {None},
         proc' = N!Signalled(q) \/ proc' = proc,
         UNCHANGED <<state, child, generation, wanted, installed, pidfile, reap, life>>
  PROVE  TunnelInv'
<1>1. /\ proc' \in [N!Procs -> N!Proc]
      /\ \A p \in N!Procs : proc'[p].life = proc[p].life /\ (proc'[p].status = "alive" => proc[p].status = "alive")
  BY SignalledKeeps DEF TunnelInv, N!TypeOK
<1>2. N!TypeOK'
  BY <1>1 DEF TunnelInv, N!TypeOK
<1>3. \A d \in Tasks : /\ call'[d].step \in Early => call[d].step \in Early /\ call'[d].gen = call[d].gen
                       /\ call'[d].gen <= generation
  BY DEF TunnelInv, N!TypeOK, Shown
<1>4. \A p \in N!Procs : Exposed(p)' => child' = p /\ state' \in {"starting", "running"}
  BY <1>1 DEF TunnelInv, Shown, Exposed
<1> QED BY <1>1, <1>2, <1>3, <1>4, QuietKeeps

LEMMA ListKeeps ==
  ASSUME N!TunnelAssumption, TunnelInv, NEW c \in Tasks, N!List(c)
  PROVE  TunnelInv'
<1>1. PICK victims \in SUBSET N!Procs :
        \/ N!Ready(c, pidfile)
        \/ /\ call' = [call EXCEPT ![c].step = "close", ![c].victims = victims]
           /\ UNCHANGED <<state, child, proc, pidfile>>
  <2>1. PICK listed \in {{}, {p \in N!Procs : N!Runs(p)}} :
          \/ N!Ready(c, pidfile)
          \/ /\ call' = [call EXCEPT ![c].step = "close", ![c].victims = call[c].victims \cup listed]
             /\ UNCHANGED <<state, child, proc, pidfile>>
    BY Zenon DEF N!List
  <2>2. call[c].victims \cup listed \in SUBSET N!Procs
    BY DEF TunnelInv, N!TypeOK, N!Call
  <2> QED BY <2>1, <2>2
<1>2. call[c].step = "list" /\ UNCHANGED <<generation, wanted, installed, reap, life>>
  BY DEF N!List
<1>3. CASE N!Ready(c, pidfile)
  BY <1>2, <1>3, ReadyKeeps DEF TunnelInv, N!TypeOK
<1>4. CASE /\ call' = [call EXCEPT ![c].step = "close", ![c].victims = victims]
           /\ UNCHANGED <<state, child, proc, pidfile>>
  <2> DEFINE r == [call[c] EXCEPT !.step = "close", !.victims = victims]
  <2>1. r \in N!Call /\ r.gen = call[c].gen
    BY DEF TunnelInv, N!TypeOK, N!Call
  <2>2. call' = [call EXCEPT ![c] = r]
    BY <1>4 DEF TunnelInv, N!TypeOK
  <2> HIDE DEF r
  <2> QED BY <1>2, <1>4, <2>1, <2>2, GoesOnKeeps DEF Early
<1> QED BY <1>1, <1>3, <1>4

LEMMA CloseOneKeeps ==
  ASSUME N!TunnelAssumption, TunnelInv, NEW c \in Tasks, N!CloseOne(c)
  PROVE  TunnelInv'
<1>1. PICK p \in call[c].victims :
        /\ proc' = N!Signalled(p)
        /\ call' = [call EXCEPT ![c].step = "await", ![c].target = p]
  BY DEF N!CloseOne
<1>2. p \in N!Procs
  BY DEF TunnelInv, N!TypeOK, N!Call
<1> DEFINE r == [call[c] EXCEPT !.step = "await", !.target = p]
<1>3. r \in N!Call /\ r.gen = call[c].gen
  BY <1>2 DEF TunnelInv, N!TypeOK, N!Call
<1>4. call' = [call EXCEPT ![c] = r]
  BY <1>1 DEF TunnelInv, N!TypeOK
<1>5. /\ call[c].step \in Early
      /\ UNCHANGED <<state, child, generation, wanted, installed, pidfile, reap, life>>
  BY DEF N!CloseOne, Early
<1> HIDE DEF r
<1> QED BY <1>1, <1>2, <1>3, <1>4, <1>5, GoesOnKeeps

LEMMA ClosedKeeps ==
  ASSUME N!TunnelAssumption, TunnelInv, NEW c \in Tasks, N!Closed(c)
  PROVE  TunnelInv'
<1> DEFINE left == call[c].victims \ {call[c].target}
<1>1. \/ N!Ready(c, None)
      \/ /\ call' = [call EXCEPT ![c].step = "close", ![c].victims = left]
         /\ UNCHANGED <<state, child, proc, pidfile>>
  BY Zenon DEF N!Closed
<1>2. call[c].step = "await" /\ UNCHANGED <<generation, wanted, installed, reap, life>>
  BY DEF N!Closed
<1>3. CASE N!Ready(c, None)
  BY <1>2, <1>3, ReadyKeeps
<1>4. CASE /\ call' = [call EXCEPT ![c].step = "close", ![c].victims = left]
           /\ UNCHANGED <<state, child, proc, pidfile>>
  <2> DEFINE r == [call[c] EXCEPT !.step = "close", !.victims = left]
  <2>1. r \in N!Call /\ r.gen = call[c].gen
    BY DEF TunnelInv, N!TypeOK, N!Call
  <2>2. call' = [call EXCEPT ![c] = r]
    BY <1>4 DEF TunnelInv, N!TypeOK
  <2> HIDE DEF r
  <2> QED BY <1>2, <1>4, <2>1, <2>2, GoesOnKeeps DEF Early
<1> QED BY <1>1, <1>3, <1>4

\* A call that waits for its address is over.
LEMMA OverKeeps ==
  ASSUME N!TunnelAssumption, TunnelInv, NEW c \in Tasks, call' = [call EXCEPT ![c] = N!Inactive],
         NEW q \in N!Procs \cup {None}, proc' = N!Signalled(q) \/ proc' = proc,
         state' = state \/ (state' = "error" /\ q = child /\ proc' = N!Signalled(q)),
         UNCHANGED <<child, generation, wanted, installed, pidfile, reap, life>>
  PROVE  TunnelInv'
<1>1. /\ proc' \in [N!Procs -> N!Proc]
      /\ \A p \in N!Procs : proc'[p].life = proc[p].life /\ (proc'[p].status = "alive" => proc[p].status = "alive")
      /\ state' = state \/ \A p \in N!Procs : proc'[p].status = "alive" => p # child
  BY SignalledKeeps DEF TunnelInv, N!TypeOK
<1>2. N!Inactive \in N!Call /\ N!Inactive.step \notin Early /\ N!Inactive.gen = 0
  BY InactiveTyped
<1>3. N!TypeOK'
  BY <1>1, <1>2 DEF TunnelInv, N!TypeOK
<1>4. \A d \in Tasks : /\ call'[d].step \in Early => call[d].step \in Early /\ call'[d].gen = call[d].gen
                       /\ call'[d].gen <= generation
  BY <1>2 DEF TunnelInv, N!TypeOK, Shown
<1>5. \A p \in N!Procs : Exposed(p)' => child' = p /\ state' \in {"starting", "running"}
  BY <1>1 DEF TunnelInv, Shown, Exposed
<1> QED BY <1>1, <1>3, <1>4, <1>5, QuietKeeps

LEMMA WaitKeeps ==
  ASSUME N!TunnelAssumption, TunnelInv, NEW c \in Tasks, N!Returns(c) \/ N!Deadline(c)
  PROVE  TunnelInv'
<1>1. child \in N!Procs \cup {None}
  BY DEF TunnelInv, N!TypeOK
<1>2. CASE N!Returns(c)
  BY <1>1, <1>2, OverKeeps DEF N!Returns
<1>3. CASE N!Deadline(c)
  BY <1>1, <1>3, OverKeeps DEF N!Deadline
<1> QED BY <1>2, <1>3

\* The process, stopTunnel, and the end of the hub.

\* A step of the processes alone.
LEMMA ProcessKeeps ==
  ASSUME N!TunnelAssumption, TunnelInv, UNCHANGED <<generation, wanted, installed, call, life>>,
         proc' \in [N!Procs -> N!Proc], child' \in N!Procs \cup {None}, pidfile' \in N!Procs \cup {None},
         reap' \in N!Procs \cup {None}, state' \in {state, "running", "error"},
         \A p \in N!Procs : proc'[p].life = proc[p].life /\ (proc'[p].status = "alive" => proc[p].status = "alive"),
         \A p \in N!Procs : Exposed(p) /\ proc'[p].status = "alive" =>
                            child' = p /\ state' \in {"starting", "running"}
  PROVE  TunnelInv'
<1>1. N!TypeOK'
  BY DEF TunnelInv, N!TypeOK
<1>2. \A c \in Tasks : call'[c].step \in Early => call[c].step \in Early /\ call'[c].gen = call[c].gen
  OBVIOUS
<1>3. \A c \in Tasks : call'[c].gen <= generation
  BY DEF TunnelInv, Shown
<1>4. \A p \in N!Procs : Exposed(p)' => child' = p /\ state' \in {"starting", "running"}
  BY DEF Exposed
<1> QED BY <1>1, <1>2, <1>3, <1>4, QuietKeeps

LEMMA ProcessStepKeeps ==
  ASSUME N!TunnelAssumption, TunnelInv, NEW p \in N!Procs, N!Address(p) \/ N!Ends(p) \/ N!Event(p)
  PROVE  TunnelInv'
<1>1. \A status \in {"exited", "gone"} :
        /\ [proc EXCEPT ![p].status = status] \in [N!Procs -> N!Proc]
        /\ \A q \in N!Procs : /\ [proc EXCEPT ![p].status = status][q].life = proc[q].life
                              /\ [proc EXCEPT ![p].status = status][q].status = "alive" =>
                                 proc[q].status = "alive" /\ q # p
  BY DEF TunnelInv, N!TypeOK, N!Proc
<1>2. /\ child \in N!Procs \cup {None} /\ pidfile \in N!Procs \cup {None} /\ reap \in N!Procs \cup {None}
      /\ proc \in [N!Procs -> N!Proc]
      /\ \A q \in N!Procs : Exposed(q) => child = q /\ state \in {"starting", "running"}
  BY DEF TunnelInv, N!TypeOK, Shown
<1>3. CASE N!Address(p)
  <2>1. UNCHANGED <<generation, wanted, installed, call, life, proc, child, pidfile, reap>> /\ state' = "running"
    BY <1>3 DEF N!Address
  <2> QED BY <1>2, <2>1, ProcessKeeps
<1>4. CASE N!Ends(p)
  <2>1. PICK status \in {"exited", "gone"} : proc' = [proc EXCEPT ![p].status = status]
    BY <1>4 DEF N!Ends
  <2>2. UNCHANGED <<generation, wanted, installed, call, life, state, child, pidfile, reap>>
    BY <1>4 DEF N!Ends
  <2> QED BY <1>1, <1>2, <2>1, <2>2, ProcessKeeps
<1>5. CASE N!Event(p)
  <2>1. proc' = [proc EXCEPT ![p].status = "gone"] /\ UNCHANGED <<generation, wanted, installed, call, life, reap>>
    BY <1>5 DEF N!Event
  <2>2. pidfile' = pidfile \/ pidfile' = None
    BY <1>5, Zenon DEF N!Event
  <2>3. \/ child = p /\ state' = "error" /\ child' = None
        \/ child # p /\ UNCHANGED <<state, child>>
    BY <1>5, Zenon DEF N!Event
  <2> QED BY <1>1, <1>2, <2>1, <2>2, <2>3, ProcessKeeps
<1> QED BY <1>3, <1>4, <1>5

LEMMA StopKeeps ==
  ASSUME N!TunnelAssumption, TunnelInv, N!Stop
  PROVE  TunnelInv'
<1> USE DEF N!TunnelAssumption
<1>1. child \in N!Procs \cup {None}
  BY DEF TunnelInv, N!TypeOK
<1>2. /\ proc' \in [N!Procs -> N!Proc]
      /\ \A p \in N!Procs : proc'[p].life = proc[p].life /\ (proc'[p].status = "alive" => proc[p].status = "alive" /\ p # child)
  BY <1>1, SignalledKeeps DEF TunnelInv, N!Stop
<1>3. wanted' = FALSE
  BY Zenon DEF N!Stop
<1>4. wanted' \in BOOLEAN
  BY <1>3, Zenon
<1>5. /\ generation < MaxGenerations /\ generation' = generation + 1 /\ state' = "stopped" /\ child' = None
      /\ pidfile' = None /\ UNCHANGED <<installed, call, reap, life>>
  BY DEF N!Stop
<1>6. N!TypeOK'
  BY <1>2, <1>4, <1>5 DEF TunnelInv, N!TypeOK
<1>7. \A p \in N!Procs : ~Exposed(p)' /\ proc'[p].life <= life'
  BY <1>2, <1>5 DEF Exposed, TunnelInv, Shown
<1>8. \A c \in Tasks : ~N!Current(c)' /\ call'[c].gen <= generation'
  BY <1>5 DEF TunnelInv, N!TypeOK, Shown, N!Current, N!Call
<1>9. Shown'
  BY <1>7, <1>8 DEF Shown
<1> QED BY <1>6, <1>9 DEF TunnelInv

LEMMA BootsKeeps ==
  ASSUME N!TunnelAssumption, TunnelInv, NEW procs \in [N!Procs -> N!Proc], NEW pid \in N!Procs \cup {None}, N!Boots(procs, pid),
         \A p \in N!Procs : procs[p].life = proc[p].life
  PROVE  TunnelInv'
<1> USE DEF N!TunnelAssumption
<1> DEFINE rest == [p \in N!Procs |-> IF procs[p].status \in {"failed", "exited"}
                                    THEN [procs[p] EXCEPT !.status = "gone"] ELSE procs[p]]
<1>1. rest \in [N!Procs -> N!Proc] /\ \A p \in N!Procs : rest[p].life = procs[p].life
  BY DEF N!Proc
<1>2. /\ life < MaxLives /\ life' = life + 1 /\ state' = "stopped" /\ child' = None /\ generation' = 0
      /\ call' = [c \in Tasks |-> N!Inactive] /\ proc' = rest /\ pidfile' = reap' /\ UNCHANGED installed
  BY DEF N!Boots
<1>3. wanted' = FALSE
  BY Zenon DEF N!Boots
<1>4. wanted' \in BOOLEAN
  BY <1>3, Zenon
<1>5. reap' \in N!Procs \cup {None}
  BY Zenon DEF N!Boots
<1>6. N!Inactive \in N!Call /\ N!Inactive.step \notin Early /\ N!Inactive.gen = 0
  BY InactiveTyped
<1> HIDE DEF rest
<1>7. N!TypeOK'
  BY <1>1, <1>2, <1>4, <1>5, <1>6 DEF TunnelInv, N!TypeOK
<1>8. \A p \in N!Procs : proc'[p].life < life'
  BY <1>1, <1>2 DEF TunnelInv, N!TypeOK, Shown, N!Proc
<1>9. \A c \in Tasks : call'[c].step \notin Early /\ call'[c].gen <= generation'
  BY <1>2, <1>6
<1>10. Shown'
  <2>1. \A p \in N!Procs : proc'[p].life # life' /\ proc'[p].life <= life'
    BY <1>8, <1>7 DEF N!TypeOK, N!Proc
  <2> QED BY <2>1, <1>9 DEF Shown, Exposed
<1> QED BY <1>7, <1>10 DEF TunnelInv

LEMMA EndOfHubKeeps ==
  ASSUME N!TunnelAssumption, TunnelInv, N!Quit \/ N!Crash
  PROVE  TunnelInv'
<1>1. child \in N!Procs \cup {None} /\ pidfile \in N!Procs \cup {None} /\ proc \in [N!Procs -> N!Proc] /\ N!TypeOK
  BY DEF TunnelInv, N!TypeOK
<1>2. CASE N!Quit
  <2>1. N!Signalled(child) \in [N!Procs -> N!Proc] /\ \A p \in N!Procs : N!Signalled(child)[p].life = proc[p].life
    BY <1>1, SignalledKeeps
  <2>2. N!Boots(N!Signalled(child), None)
    BY <1>2 DEF N!Quit
  <2> QED BY <2>1, <2>2, BootsKeeps
<1>3. CASE N!Crash
  <2>1. N!Boots(proc, pidfile)
    BY <1>3 DEF N!Crash
  <2> QED BY <1>1, <2>1, BootsKeeps
<1> QED BY <1>2, <1>3

LEMMA ReapKeeps ==
  ASSUME N!TunnelAssumption, TunnelInv, N!Reap \/ N!Reaped
  PROVE  TunnelInv'
<1>1. /\ child \in N!Procs \cup {None} /\ pidfile \in N!Procs \cup {None} /\ reap \in N!Procs \cup {None}
      /\ proc \in [N!Procs -> N!Proc] /\ N!TypeOK
      /\ \A q \in N!Procs : Exposed(q) => child = q /\ state \in {"starting", "running"}
  BY DEF TunnelInv, N!TypeOK, Shown
<1>2. CASE N!Reap
  <2>1. proc' = N!Signalled(reap) /\ UNCHANGED <<state, child, generation, wanted, installed, call, pidfile, reap, life>>
    BY <1>2 DEF N!Reap
  <2>2. N!Signalled(reap) \in [N!Procs -> N!Proc]
    BY <1>1, SignalledKeeps
  <2>3. \A p \in N!Procs : proc'[p].life = proc[p].life /\ (proc'[p].status = "alive" => proc[p].status = "alive")
    BY <1>1, <2>1, SignalledKeeps
  <2> QED BY <1>1, <2>1, <2>2, <2>3, ProcessKeeps
<1>3. CASE N!Reaped
  <2>1. /\ UNCHANGED <<state, child, generation, wanted, installed, call, proc, life>>
        /\ reap' = None /\ pidfile' = None
    BY <1>3 DEF N!Reaped
  <2> QED BY <1>1, <2>1, ProcessKeeps
<1> QED BY <1>2, <1>3


LEMMA StepTunnel == N!TunnelAssumption /\ TunnelInv /\ [N!Next]_N!vars => TunnelInv'
<1> SUFFICES ASSUME N!TunnelAssumption, TunnelInv, [N!Next]_N!vars PROVE TunnelInv'
  OBVIOUS
<1>1. ASSUME NEW c \in Tasks, N!Start(c) PROVE TunnelInv'
  BY <1>1, StartKeeps
<1>2. CASE N!InstallEnds
  BY <1>2, InstallEndsKeeps
<1>3. ASSUME NEW c \in Tasks, N!List(c) PROVE TunnelInv'
  BY <1>3, ListKeeps
<1>4. ASSUME NEW c \in Tasks, N!CloseOne(c) PROVE TunnelInv'
  BY <1>4, CloseOneKeeps
<1>5. ASSUME NEW c \in Tasks, N!Closed(c) PROVE TunnelInv'
  BY <1>5, ClosedKeeps
<1>6. ASSUME NEW c \in Tasks, N!Returns(c) \/ N!Deadline(c) PROVE TunnelInv'
  BY <1>6, WaitKeeps
<1>7. ASSUME NEW p \in N!Procs, N!Address(p) \/ N!Ends(p) \/ N!Event(p) PROVE TunnelInv'
  BY <1>7, ProcessStepKeeps
<1>8. CASE N!Stop
  BY <1>8, StopKeeps
<1>9. CASE N!Quit \/ N!Crash
  BY <1>9, EndOfHubKeeps
<1>10. CASE N!Reap \/ N!Reaped
  BY <1>10, ReapKeeps
<1>11. CASE UNCHANGED N!vars
  BY <1>11 DEF N!vars, TunnelInv, N!TypeOK, Shown, Exposed, N!Current
<1> QED BY <1>1, <1>2, <1>3, <1>4, <1>5, <1>6, <1>7, <1>8, <1>9, <1>10, <1>11, Zenon DEF N!Next

\* What the invariant says of the processes that run.
LEMMA TunnelInvPublic == TunnelInv => N!PublicOnlyAsAsked
  BY DEF TunnelInv, Shown, Exposed, N!PublicOnlyAsAsked, N!Ours

LEMMA TunnelHolds == CommandsSpec => []TunnelInv
<1>1. N!TunnelAssumption
  BY TunnelPart
<1>2. CommandsInit => TunnelInv
  BY <1>1, InitTunnel DEF CommandsInit
<1>3. TunnelInv /\ [CommandsNext]_all => TunnelInv'
  <2>1. [CommandsNext]_all => [N!Next]_N!vars
    BY DEF CommandsNext, all, tunnel, N!vars, InWorktrees, InTunnel, InImplement, InTrail
  <2> QED BY <1>1, <2>1, StepTunnel
<1> QED BY <1>2, <1>3, PTL DEF CommandsSpec

\* The values of the tunnel are well typed, whatever the number of calls,
\* processes and hubs.
THEOREM TunnelTyped == CommandsSpec => []N!TypeOK
<1>1. TunnelInv => N!TypeOK
  BY DEF TunnelInv
<1> QED BY <1>1, TunnelHolds, PTL

\* The share is public only as its owner asked: ngrok runs only after a start
\* that no stop has followed, and then it is the process the status shows
\* (startTunnel, stopTunnel and the generation that outdates a start).
THEOREM PublicAsAsked == CommandsSpec => []PublicOnlyAsAsked
<1>1. TunnelInv => PublicOnlyAsAsked
  BY TunnelInvPublic DEF PublicOnlyAsAsked
<1> QED BY <1>1, TunnelHolds, PTL

-----------------------------------------------------------------------------
(* The trail: numbers *)

\* What is finite for the trail is so here.
LEMMA FiniteSame == \A S : (T!IsFiniteSet(S) <=> IsFiniteSet(S)) /\ T!Cardinality(S) = Cardinality(S)
  BY Zenon DEF T!IsFiniteSet, IsFiniteSet, T!Cardinality, Cardinality

LEMMA Least ==
  ASSUME NEW S \in SUBSET Nat, S # {}
  PROVE  \E m \in S : \A n \in S : m <= n
<1>1. PICK m \in S : \A n \in S : ~(<<n, m>> \in OpToRel(<, Nat))
  BY NatLessThanWellFounded, WFMin, Zenon
<1>2. \A n \in S : ~(n < m)
  BY <1>1 DEF OpToRel
<1> QED BY <1>2

LEMMA Greatest ==
  ASSUME NEW S \in SUBSET Nat, S # {}, NEW b \in Nat, \A n \in S : n <= b
  PROVE  T!Max(S) \in S /\ \A n \in S : n <= T!Max(S)
<1> DEFINE B == {c \in Nat : \A n \in S : n <= c}
<1>1. PICK m \in B : \A c \in B : m <= c
  BY Least, b \in B
<1>2. m \in S
  <2>1. SUFFICES ASSUME m \notin S PROVE FALSE
    OBVIOUS
  <2>2. \A n \in S : n < m
    BY <1>1, <2>1
  <2>3. m - 1 \in B
    <3>1. PICK n \in S : TRUE
      OBVIOUS
    <3>2. m \in Nat /\ n \in Nat /\ n < m
      BY <1>1, <2>2
    <3> QED BY <2>2, <3>2
  <2> QED BY <1>1, <2>3
<1>3. \E x \in S : \A y \in S : x >= y
  BY <1>1, <1>2
<1> QED BY <1>3 DEF T!Max

\* A function on a finite set into the naturals is bounded.
LEMMA Bounded ==
  ASSUME NEW S, IsFiniteSet(S), NEW f \in [S -> Nat]
  PROVE  \E b \in Nat : \A s \in S : f[s] <= b
<1> DEFINE Bound(Z) == \E b \in Nat : \A s \in Z : f[s] <= b
           Bad == {n \in Nat : \E Z \in SUBSET S : Cardinality(Z) = n /\ ~Bound(Z)}
<1>1. SUFFICES ASSUME ~Bound(S) PROVE FALSE
  OBVIOUS
<1>2. Cardinality(S) \in Bad
  BY <1>1, FS_CardinalityType
<1>3. PICK n \in Bad : \A k \in Bad : n <= k
  BY <1>2, Least
<1>4. PICK Z \in SUBSET S : Cardinality(Z) = n /\ ~Bound(Z)
  BY <1>3
<1>5. IsFiniteSet(Z) /\ Z # {}
  <2>1. Bound({})
    BY 0 \in Nat
  <2> QED BY <1>4, <2>1, FS_Subset
<1>6. PICK x \in Z : TRUE
  BY <1>5
<1>7. IsFiniteSet(Z \ {x}) /\ Cardinality(Z \ {x}) = n - 1 /\ n - 1 \in Nat /\ Z \ {x} \in SUBSET S
  <2>1. Cardinality(Z) \in Nat /\ Cardinality(Z) # 0
    BY <1>5, FS_CardinalityType, FS_EmptySet
  <2> QED BY <1>4, <1>5, <1>6, <2>1, FS_RemoveElement
<1>8. Bound(Z \ {x})
  BY <1>3, <1>7
<1>9. PICK b \in Nat : \A s \in Z \ {x} : f[s] <= b
  BY <1>8
<1>10. \A s \in Z : f[s] <= b + f[x]
  BY <1>4, <1>6, <1>9
<1> QED BY <1>4, <1>6, <1>10

LEMMA MostBounds ==
  ASSUME T!TrailAssumption
  PROVE  T!Most \in Nat /\ \A s \in Sessions : MaxTurns[s] <= T!Most
<1> DEFINE S == {MaxTurns[s] : s \in Sessions} \cup {0}
<1>1. PICK b \in Nat : \A s \in Sessions : MaxTurns[s] <= b
  BY Bounded, FiniteSame DEF T!TrailAssumption
<1>2. S \in SUBSET Nat /\ S # {} /\ \A n \in S : n <= b
  BY <1>1 DEF T!TrailAssumption
<1>3. T!Max(S) \in S /\ \A n \in S : n <= T!Max(S)
  BY <1>1, <1>2, Greatest
<1> QED BY <1>2, <1>3 DEF T!Most

-----------------------------------------------------------------------------
(* The trail: turns and windows *)

LEMMA SpokenSplit ==
  ASSUME T!TrailAssumption, NEW a \in Nat, NEW b \in Nat, NEW c \in Nat
  PROVE  T!Spoken(a, c) \subseteq T!Spoken(a, b) \cup T!Spoken(b, c)
  BY MostBounds DEF T!Spoken, T!Turns

LEMMA Between ==
  ASSUME NEW a \in Nat, NEW b \in Nat, NEW c \in Nat, a <= b, b <= c
  PROVE  \A t \in Nat : a <= t /\ t < c <=> (a <= t /\ t < b) \/ (b <= t /\ t < c)
  OBVIOUS

\* A window is a first piece of what is left, and its last turn ends it.
LEMMA WindowFirst ==
  ASSUME T!TrailAssumption, NEW from \in 0..T!Most, NEW to \in 0..T!Most, T!Spoken(from, to) # {}
  PROVE  LET window == T!FirstOf(T!Spoken(from, to), Window)  m == T!Max(window) IN
         /\ window \subseteq T!Spoken(from, to)
         /\ m \in Nat /\ from <= m /\ m < to
         /\ T!Spoken(from, m + 1) = window
         /\ T!Spoken(from, to) # window => T!Spoken(m + 1, to) # {}
<1> DEFINE rest == T!Spoken(from, to)
           Before(t) == {u \in rest : u < t}
           window == T!FirstOf(rest, Window)
           m == T!Max(window)
<1>0. T!Most \in Nat /\ Window \in Nat \ {0}
  BY MostBounds DEF T!TrailAssumption
<1>1. rest \in SUBSET Nat /\ IsFiniteSet(rest) /\ \A t \in rest : from <= t /\ t < to /\ t <= T!Most
  <2>1. rest \in SUBSET Nat /\ \A t \in rest : from <= t /\ t < to /\ t <= T!Most
    BY <1>0 DEF T!Spoken, T!Turns
  <2> QED BY <1>0, <2>1, FS_BoundedSetOfNaturals
<1>2. PICK least \in rest : \A t \in rest : least <= t
  BY <1>1, Least
<1>3. least \in window
  <2>1. Before(least) = {}
    BY <1>1, <1>2
  <2>2. Cardinality(Before(least)) = 0
    BY <2>1, FS_EmptySet
  <2> QED BY <1>0, <2>2, FiniteSame DEF T!FirstOf
<1>4. window \subseteq rest
  BY DEF T!FirstOf
<1>5. m \in window /\ \A t \in window : t <= m
  BY <1>0, <1>1, <1>3, <1>4, Greatest
<1>6. \A t \in rest : t <= m => t \in window
  <2>1. SUFFICES ASSUME NEW t \in rest, t <= m PROVE t \in window
    OBVIOUS
  <2>2. Before(t) \in SUBSET Before(m) /\ Before(m) \in SUBSET rest
    BY <1>1, <1>4, <1>5, <2>1
  <2>3. /\ IsFiniteSet(Before(m)) /\ IsFiniteSet(Before(t))
        /\ Cardinality(Before(t)) <= Cardinality(Before(m))
    BY <1>1, <2>2, FS_Subset
  <2>4. Cardinality(Before(m)) < Window
    BY <1>5, FiniteSame DEF T!FirstOf
  <2>5. Cardinality(Before(t)) \in Nat /\ Cardinality(Before(m)) \in Nat
    BY <2>3, FS_CardinalityType
  <2>6. Cardinality(Before(t)) < Window
    BY <1>0, <2>3, <2>4, <2>5
  <2> QED BY <2>6, FiniteSame DEF T!FirstOf
<1>7. m \in Nat /\ from <= m /\ m < to
  BY <1>1, <1>4, <1>5
<1>8. T!Spoken(from, m + 1) = window
  <2>1. T!Spoken(from, m + 1) = {t \in rest : t <= m}
    BY <1>0, <1>7 DEF T!Spoken, T!Turns
  <2> QED BY <1>4, <1>5, <1>6, <2>1
<1>9. ASSUME rest # window PROVE T!Spoken(m + 1, to) # {}
  <2>1. PICK t \in rest : t \notin window
    BY <1>4, <1>9
  <2>2. m + 1 <= t
    BY <1>1, <1>6, <1>7, <2>1
  <2> QED BY <2>1, <2>2 DEF T!Spoken
<1> QED BY <1>4, <1>7, <1>8, <1>9
-----------------------------------------------------------------------------
(* The trail: the blocks hold what lies between the first summary and   *)
(* the checkpoint, and the pass under way what lies behind it               *)

Busy == work.step \in {"model", "write", "checkpoint"}

\* The worker rests, or is about to read the transcript of its job.
Rests(w) == w.step \in {"idle", "read"} /\ (w.step # "idle" => w.job \in T!Job) /\ w.windows = 0

\* What the worker holds agrees with the row and the file it was read from.
Pass ==
  /\ work.step # "idle" => work.job \in T!Job
  /\ work.step = "read" => work.windows = 0
  /\ work.step = "model" => T!Spoken(work.next, work.total) # {} /\ work.windows < MaxWindows
  /\ Busy =>
       /\ work.from <= work.next /\ work.next <= work.total
       /\ last[work.job.session] # None => work.from = last[work.job.session]
       /\ \A t \in T!Turns : work.bullets[t] >= told[work.day][work.job.session][t]
       /\ \A t \in T!Spoken(work.from, work.next) : work.bullets[t] > 0
  /\ work.step = "checkpoint" => told[work.day][work.job.session] = work.bullets

Begun == \A s \in Sessions : last[s] = None <=> first[s] = None

\* As long as the hub has not died, no file is ahead of the checkpoint but the
\* one just written, and the working list is the block and one pass over it.
Behind(s, t) == \/ last[s] # None /\ t < last[s]
                \/ work.step = "checkpoint" /\ s = work.job.session /\ t < work.next

TrailFresh ==
  /\ T!TurnsOnce
  /\ \A s \in Sessions, t \in T!Turns : T!Told(s, t) => Behind(s, t)
  /\ work.step \in {"model", "write"} =>
       work.bullets = T!With(told[work.day][work.job.session], T!Spoken(work.from, work.next))

TrailInv ==
  /\ T!TypeOK /\ Pass /\ Begun /\ T!NoTurnSkipped
  /\ crashes = 0 => TrailFresh

-----------------------------------------------------------------------------
(* The trail: types *)

LEMMA Numbers ==
  ASSUME T!TrailAssumption
  PROVE  /\ T!Most \in Nat /\ Window \in Nat \ {0} /\ MaxWindows \in Nat \ {0} /\ MaxDays \in Nat \ {0}
         /\ MaxFailures \in Nat /\ None \notin Nat /\ EveryStop \in BOOLEAN
         /\ 0 \in 0..T!Most /\ 0 \in 0..MaxWindows /\ 1 \in T!Days
         /\ \A s \in Sessions : MaxTurns[s] \in 0..T!Most
         /\ TRUE \in BOOLEAN /\ FALSE \in BOOLEAN
<1>1. T!Most \in Nat /\ \A s \in Sessions : MaxTurns[s] <= T!Most
  BY MostBounds
<1> QED BY <1>1 DEF T!TrailAssumption, T!Days

LEMMA NothingTyped == T!Nothing \in T!Counts
  BY DEF T!Nothing, T!Counts

LEMMA IdleTyped ==
  ASSUME T!TrailAssumption
  PROVE  T!Idle \in T!Work /\ \A job \in T!Job : T!Started(job) \in T!Work
<1>1. /\ None \in T!Job \cup {None} /\ "idle" \in {"idle", "read", "model", "write", "checkpoint"}
      /\ "read" \in {"idle", "read", "model", "write", "checkpoint"}
  OBVIOUS
<1>2. T!Idle \in T!Work
  BY <1>1, Numbers, NothingTyped, Zenon DEF T!Idle, T!Work
<1> QED BY <1>1, <1>2, Zenon DEF T!Started, T!Work

LEMMA PutTyped ==
  ASSUME queue \in Seq(T!Job), NEW job \in T!Job
  PROVE  T!Put(job, T!Merged(job)) \in Seq(T!Job)
<1>1. T!Merged(job) \in T!Job
  <2>1. job \in [session : Sessions, kind : {"stop", "session_end"}, force : BOOLEAN]
    BY DEF T!Job
  <2> DEFINE jobs == {job} \cup {queue[i] : i \in T!Same(job)}
             kind == IF \E j \in jobs : j.kind = "session_end" THEN "session_end" ELSE "stop"
             force == \E j \in jobs : j.force
  <2>2. kind \in {"stop", "session_end"}
    OBVIOUS
  <2>3. force \in BOOLEAN
    OBVIOUS
  <2>4. T!Merged(job) = [job EXCEPT !.kind = kind, !.force = force]
    BY Zenon DEF T!Merged
  <2> HIDE DEF kind, force
  <2> QED BY <2>1, <2>2, <2>3, <2>4, Zenon DEF T!Job
<1>2. Append(queue, job) \in Seq(T!Job)
  OBVIOUS
<1>3. ASSUME NEW j \in T!Job PROVE [i \in DOMAIN queue |-> IF i \in T!Same(job) THEN j ELSE queue[i]] \in Seq(T!Job)
  <2>1. Len(queue) \in Nat /\ queue \in [1..Len(queue) -> T!Job] /\ DOMAIN queue = 1..Len(queue)
    BY LenProperties
  <2> DEFINE f == [i \in 1..Len(queue) |-> IF i \in T!Same(job) THEN j ELSE queue[i]]
  <2>2. f \in [1..Len(queue) -> T!Job]
    BY <2>1
  <2>3. f \in Seq(T!Job)
    BY <2>1, <2>2
  <2> QED BY <2>1, <2>3
<1> QED BY <1>1, <1>2, <1>3 DEF T!Put

LEMMA ScheduleTyped ==
  ASSUME queue \in Seq(T!Job), NEW s \in Sessions, NEW kind \in {"stop", "session_end"}, NEW force \in BOOLEAN,
         T!Schedule([session |-> s, kind |-> kind, force |-> force])
  PROVE  queue' \in Seq(T!Job) /\ woken' \in BOOLEAN
<1>1. [session |-> s, kind |-> kind, force |-> force] \in T!Job
  BY Zenon DEF T!Job
<1> QED BY <1>1, PutTyped DEF T!Schedule

\* The worker takes the next job, or rests.
LEMMA ProceedTyped ==
  ASSUME T!TrailAssumption, queue \in Seq(T!Job), T!Proceed
  PROVE  /\ queue' \in Seq(T!Job) /\ work' \in T!Work
         /\ Rests(work')
<1>1. CASE queue = <<>>
  BY <1>1, IdleTyped DEF T!Proceed, T!Idle, Rests
<1>2. CASE queue # <<>>
  <2>1. Head(queue) \in T!Job /\ Tail(queue) \in Seq(T!Job)
    BY <1>2, HeadTailProperties
  <2>2. work' = T!Started(Head(queue)) /\ queue' = Tail(queue)
    BY <1>2 DEF T!Proceed
  <2>3. /\ T!Started(Head(queue)).step = "read" /\ T!Started(Head(queue)).job = Head(queue)
        /\ T!Started(Head(queue)).windows = 0
    BY DEF T!Started, T!Idle
  <2> QED BY <2>1, <2>2, <2>3, IdleTyped DEF Rests
<1> QED BY <1>1, <1>2

-----------------------------------------------------------------------------
(* The trail: what the steps do to the invariant *)

LEMMA InitTrail ==
  ASSUME T!TrailAssumption, T!Init
  PROVE  TrailInv
<1>1. T!TypeOK
  <2>1. work \in T!Work
    BY IdleTyped DEF T!Init
  <2>2. told \in [T!Days -> [Sessions -> T!Counts]]
    BY NothingTyped DEF T!Init
  <2>3. last \in [Sessions -> 0..T!Most \cup {None}] /\ first \in [Sessions -> 0..T!Most \cup {None}]
    BY DEF T!Init
  <2>4. total \in [Sessions -> 0..T!Most] /\ day \in T!Days /\ woken \in BOOLEAN
    BY Numbers DEF T!Init
  <2>5. queue \in Seq(T!Job)
    BY EmptySeq DEF T!Init
  <2>6. failures \in 0..MaxFailures /\ crashes \in 0..failures
    BY Numbers DEF T!Init
  <2> QED BY <2>1, <2>2, <2>3, <2>4, <2>5, <2>6 DEF T!TypeOK, T!Init
<1>2. work.step = "idle"
  BY DEF T!Init, T!Idle
<1>3. \A d \in T!Days, s \in Sessions, t \in T!Turns : told[d][s][t] = 0
  BY DEF T!Init, T!Nothing
<1> QED BY <1>1, <1>2, <1>3 DEF TrailInv, Pass, Busy, Begun, T!NoTurnSkipped, TrailFresh, T!TurnsOnce, T!Told, T!Init

\* A step that touches neither the worker nor its rows and files.
LEMMA QuietTrailKeeps ==
  ASSUME TrailInv, T!TypeOK', UNCHANGED <<work, last, first, told, crashes>>
  PROVE  TrailInv'
  BY DEF TrailInv, Pass, Busy, Begun, T!NoTurnSkipped, TrailFresh, T!TurnsOnce, T!Told, Behind, T!Spoken, T!With

\* The worker lets the job go, and nothing was written that the row misses.
LEMMA RestKeeps ==
  ASSUME TrailInv, T!TypeOK', UNCHANGED <<last, first, told>>,
         Rests(work'),
         crashes' = 0 => crashes = 0 /\ work.step # "checkpoint"
  PROVE  TrailInv'
<1>1. Pass' /\ Begun' /\ T!NoTurnSkipped'
  BY DEF TrailInv, Pass, Busy, Begun, T!NoTurnSkipped, T!Told, T!Spoken, Rests
<1>2. ASSUME crashes' = 0 PROVE TrailFresh'
  BY <1>2 DEF TrailInv, TrailFresh, T!TurnsOnce, T!Told, Behind, Rests
<1> QED BY <1>1, <1>2 DEF TrailInv

\* The row moves to where the files are.
LEMMA CheckpointedKeeps ==
  ASSUME T!TrailAssumption, TrailInv, T!TypeOK', UNCHANGED <<told, crashes>>,
         Rests(work'),
         NEW s \in Sessions, NEW from \in 0..T!Most, NEW turns \in 0..T!Most,
         T!Checkpointed(s, from, turns), last[s] # None => from = last[s],
         \A t \in T!Spoken(from, turns) : T!Told(s, t),
         work.step = "checkpoint" => s = work.job.session /\ turns = work.next
  PROVE  TrailInv'
<1>1. /\ last \in [Sessions -> 0..T!Most \cup {None}] /\ first \in [Sessions -> 0..T!Most \cup {None}]
      /\ T!Most \in Nat /\ None \notin Nat
  BY Numbers DEF TrailInv, T!TypeOK
<1>2. /\ last'[s] = IF last[s] # None /\ last[s] > turns THEN last[s] ELSE turns
      /\ first'[s] = IF first[s] = None THEN from ELSE first[s]
      /\ \A r \in Sessions : r # s => last'[r] = last[r] /\ first'[r] = first[r]
  BY <1>1 DEF T!Checkpointed
<1>3. Pass'
  BY DEF Pass, Busy, Rests
<1>4. Begun'
  BY <1>1, <1>2 DEF TrailInv, Begun
<1>5. T!NoTurnSkipped'
  <2>1. SUFFICES ASSUME NEW r \in Sessions, last'[r] # None, NEW t \in T!Spoken(first'[r], last'[r])
                 PROVE  T!Told(r, t)'
    BY DEF T!NoTurnSkipped, T!Spoken
  <2>2. CASE r # s
    BY <1>2, <2>1, <2>2 DEF TrailInv, T!NoTurnSkipped, T!Told
  <2>3. CASE r = s
    <3>1. CASE last[s] = None
      BY <1>1, <1>2, <2>1, <2>3, <3>1 DEF TrailInv, Begun, T!Told
    <3>2. CASE last[s] # None /\ last[s] > turns
      BY <1>1, <1>2, <2>1, <2>3, <3>2 DEF TrailInv, Begun, T!NoTurnSkipped, T!Told
    <3>3. CASE last[s] # None /\ ~(last[s] > turns)
      <4>1. first[s] # None /\ first'[s] = first[s] /\ last'[s] = turns /\ from = last[s]
        BY <1>2, <3>3 DEF TrailInv, Begun
      <4>2. first[s] \in Nat /\ last[s] \in Nat /\ turns \in Nat
        BY <1>1, <3>3, <4>1
      <4>3. T!Spoken(first[s], turns) \subseteq T!Spoken(first[s], last[s]) \cup T!Spoken(last[s], turns)
        BY <4>2, SpokenSplit
      <4> QED BY <2>1, <2>3, <3>3, <4>1, <4>3 DEF TrailInv, T!NoTurnSkipped, T!Told
    <3> QED BY <3>1, <3>2, <3>3
  <2> QED BY <2>2, <2>3
<1>6. ASSUME crashes' = 0 PROVE TrailFresh'
  <2>1. TrailFresh
    BY <1>6 DEF TrailInv
  <2>2. T!TurnsOnce'
    BY <1>6, <2>1 DEF TrailFresh, T!TurnsOnce
  <2>3. ASSUME NEW r \in Sessions, NEW t \in T!Turns, T!Told(r, t)' PROVE Behind(r, t)'
    <3>1. T!Told(r, t) /\ Behind(r, t)
      BY <2>1, <2>3 DEF TrailFresh, T!Told
    <3>2. t \in Nat
      BY <1>1 DEF T!Turns
    <3>3. CASE r # s
      BY <1>2, <3>1, <3>3 DEF Behind
    <3>4. CASE r = s
      <4>1. t < last'[s] /\ last'[s] # None
        BY <1>1, <1>2, <3>1, <3>2, <3>4 DEF Behind
      <4> QED BY <3>4, <4>1 DEF Behind
    <3> QED BY <3>3, <3>4
  <2> QED BY <2>2, <2>3 DEF TrailFresh, Rests
<1> QED BY <1>3, <1>4, <1>5, <1>6 DEF TrailInv

-----------------------------------------------------------------------------
(* The trail: sessions and hooks *)

LEMMA TurnKeeps ==
  ASSUME T!TrailAssumption, TrailInv, NEW s \in Sessions, T!Turn(s)
  PROVE  TrailInv'
<1>1. total \in [Sessions -> 0..T!Most] /\ total[s] < MaxTurns[s] /\ MaxTurns[s] \in 0..T!Most /\ T!Most \in Nat
  BY Numbers DEF TrailInv, T!TypeOK, T!Turn
<1>2. total' \in [Sessions -> 0..T!Most]
  BY <1>1 DEF T!Turn
<1>3. T!TypeOK'
  BY <1>2 DEF T!Turn, TrailInv, T!TypeOK
<1> QED BY <1>3, QuietTrailKeeps DEF T!Turn

LEMMA HookKeeps ==
  ASSUME T!TrailAssumption, TrailInv, NEW s \in Sessions,
         T!SessionEnd(s) \/ \E force \in BOOLEAN : T!Stop(s, force)
  PROVE  TrailInv'
<1>1. queue' \in Seq(T!Job) /\ woken' \in BOOLEAN
  <2>1. queue \in Seq(T!Job)
    BY DEF TrailInv, T!TypeOK
  <2>2. CASE T!SessionEnd(s)
    BY <2>1, <2>2, ScheduleTyped DEF T!SessionEnd
  <2>3. ASSUME NEW force \in BOOLEAN, T!Stop(s, force) PROVE queue' \in Seq(T!Job) /\ woken' \in BOOLEAN
    BY <2>1, <2>3, ScheduleTyped DEF T!Stop
  <2> QED BY <2>2, <2>3
<1>2. owed' \subseteq ended' /\ ended' \subseteq Sessions
  BY DEF T!SessionEnd, T!Stop, TrailInv, T!TypeOK
<1>3. UNCHANGED <<total, last, first, told, day, work, failures, crashes>>
  BY DEF T!SessionEnd, T!Stop
<1>4. T!TypeOK'
  BY <1>1, <1>2, <1>3 DEF TrailInv, T!TypeOK
<1> QED BY <1>3, <1>4, QuietTrailKeeps

LEMMA MidnightKeeps ==
  ASSUME T!TrailAssumption, TrailInv, T!Midnight
  PROVE  TrailInv'
<1>1. day' \in T!Days
  BY Numbers DEF T!Midnight, T!Days, TrailInv, T!TypeOK
<1>2. T!TypeOK'
  BY <1>1 DEF T!Midnight, TrailInv, T!TypeOK
<1> QED BY <1>2, QuietTrailKeeps DEF T!Midnight

-----------------------------------------------------------------------------
(* The trail: the worker *)

LEMMA DrainKeeps ==
  ASSUME T!TrailAssumption, TrailInv, T!Drain
  PROVE  TrailInv'
<1>1. queue \in Seq(T!Job) /\ FALSE \in BOOLEAN
  BY DEF TrailInv, T!TypeOK
<1>2. CASE work.step = "idle"
  <2>1. T!Proceed
    BY <1>2 DEF T!Drain
  <2>2. T!TypeOK'
    BY <1>1, <2>1, ProceedTyped DEF T!Drain, TrailInv, T!TypeOK
  <2> QED BY <1>1, <1>2, <2>1, <2>2, ProceedTyped, RestKeeps DEF T!Drain
<1>3. CASE work.step # "idle"
  <2>1. T!TypeOK'
    BY <1>1, <1>3 DEF T!Drain, TrailInv, T!TypeOK
  <2> QED BY <1>3, <2>1, QuietTrailKeeps DEF T!Drain
<1> QED BY <1>2, <1>3

\* The typing of a step that ends a pass.
LEMMA EndsTyped ==
  ASSUME T!TrailAssumption, TrailInv, T!Proceed,
         UNCHANGED <<total, ended, owed, told, day, woken, crashes>>,
         last' \in [Sessions -> 0..T!Most \cup {None}], first' \in [Sessions -> 0..T!Most \cup {None}],
         failures' = failures \/ T!Fault
  PROVE  /\ T!TypeOK'
         /\ Rests(work')
<1>1. queue \in Seq(T!Job) /\ failures \in 0..MaxFailures /\ crashes \in 0..failures /\ MaxFailures \in Nat
  BY Numbers DEF TrailInv, T!TypeOK
<1>2. failures' \in 0..MaxFailures /\ crashes' \in 0..failures'
  BY <1>1 DEF T!Fault
<1>3. /\ queue' \in Seq(T!Job) /\ work' \in T!Work
      /\ Rests(work')
  BY <1>1, ProceedTyped
<1> QED BY <1>2, <1>3 DEF TrailInv, T!TypeOK

LEMMA WorkTyped ==
  ASSUME T!TrailAssumption, TrailInv, work.step # "idle"
  PROVE  /\ work.job \in T!Job /\ work.job.session \in Sessions
         /\ work.total \in 0..T!Most /\ work.from \in 0..T!Most /\ work.next \in 0..T!Most
         /\ work.day \in T!Days /\ work.bullets \in T!Counts /\ work.windows \in 0..MaxWindows
<1>1. work \in T!Work /\ work.job \in T!Job
  BY DEF TrailInv, T!TypeOK, Pass
<1> QED BY <1>1 DEF T!Work, T!Job

LEMMA RowTyped ==
  ASSUME T!TrailAssumption, TrailInv, NEW s \in Sessions, NEW from \in 0..T!Most, NEW turns \in 0..T!Most,
         T!Checkpointed(s, from, turns)
  PROVE  last' \in [Sessions -> 0..T!Most \cup {None}] /\ first' \in [Sessions -> 0..T!Most \cup {None}]
<1>1. last \in [Sessions -> 0..T!Most \cup {None}] /\ first \in [Sessions -> 0..T!Most \cup {None}]
  BY DEF TrailInv, T!TypeOK
<1> QED BY <1>1 DEF T!Checkpointed

\* From where a transcript is summarised.
LEMMA StartWorkTyped ==
  ASSUME T!TrailAssumption, TrailInv, NEW s \in Sessions
  PROVE  T!StartFrom(s) \in 0..T!Most /\ (last[s] # None => T!StartFrom(s) = last[s])
<1>1. /\ last \in [Sessions -> 0..T!Most \cup {None}] /\ total \in [Sessions -> 0..T!Most]
      /\ T!Most \in Nat /\ Window \in Nat
  BY Numbers DEF TrailInv, T!TypeOK
<1>2. total[s] \in 0..T!Most /\ last[s] \in 0..T!Most \cup {None}
  BY <1>1
<1> QED BY <1>1, <1>2 DEF T!StartFrom

LEMMA ReadKeeps ==
  ASSUME T!TrailAssumption, TrailInv, T!Read
  PROVE  TrailInv'
<1> DEFINE s == work.job.session
           from == T!StartFrom(s)
<1>1. /\ work.step = "read"
      /\ UNCHANGED <<total, ended, owed, told, day, woken, failures, crashes>>
  BY DEF T!Read
<1>2. s \in Sessions /\ from \in 0..T!Most /\ (last[s] # None => from = last[s]) /\ total[s] \in 0..T!Most
      /\ last \in [Sessions -> 0..T!Most \cup {None}] /\ first \in [Sessions -> 0..T!Most \cup {None}]
  BY <1>1, WorkTyped, StartWorkTyped DEF TrailInv, T!TypeOK
<1>3. CASE T!Proceed /\ UNCHANGED <<last, first>>
  <2>1. T!TypeOK' /\ Rests(work')
    BY <1>1, <1>2, <1>3, EndsTyped
  <2> QED BY <1>1, <1>3, <2>1, RestKeeps
<1>4. CASE T!Spoken(from, total[s]) = {} /\ T!Checkpointed(s, from, total[s]) /\ T!Proceed
  <2>1. T!TypeOK' /\ Rests(work')
    BY <1>1, <1>2, <1>4, RowTyped, EndsTyped
  <2> QED BY <1>1, <1>2, <1>4, <2>1, CheckpointedKeeps
<1>5. CASE /\ T!Due(work.job, TRUE) \/ T!Due(work.job, FALSE)
           /\ T!Spoken(from, total[s]) # {}
           /\ work' = [work EXCEPT !.step = "model", !.total = total[s], !.from = from,
                                   !.next = from, !.day = day, !.bullets = told[day][s]]
           /\ UNCHANGED <<queue, last, first>>
  <2>1. work \in T!Work /\ day \in T!Days /\ told[day][s] \in T!Counts /\ work.job \in T!Job
    BY <1>1, <1>2, WorkTyped DEF TrailInv, T!TypeOK
  <2>2. work' \in T!Work
    <3>1. "model" \in {"idle", "read", "model", "write", "checkpoint"}
      OBVIOUS
    <3> QED BY <1>2, <1>5, <2>1, <3>1, Zenon DEF T!Work
  <2>3. /\ work'.step = "model" /\ work'.job = work.job /\ work'.total = total[s] /\ work'.from = from
        /\ work'.next = from /\ work'.day = day /\ work'.bullets = told[day][s]
        /\ work'.windows = work.windows
    BY <1>5, <2>1 DEF T!Work
  <2>4. T!TypeOK'
    BY <1>1, <1>5, <2>2 DEF TrailInv, T!TypeOK
  <2>5. from <= total[s]
    <3>1. PICK t \in T!Spoken(from, total[s]) : TRUE
      BY <1>5
    <3>2. t \in Nat /\ from \in Nat /\ total[s] \in Nat
      BY <1>2, Numbers DEF T!Spoken, T!Turns
    <3> QED BY <3>1, <3>2 DEF T!Spoken
  <2>6. T!Spoken(from, from) = {} /\ \A t \in T!Turns : told[day][s][t] \in Nat
    <3>1. from \in Nat /\ T!Turns \subseteq Nat
      BY <1>2, Numbers DEF T!Turns
    <3>2. \A t \in T!Turns : ~(from <= t /\ t < from)
      BY <3>1
    <3>3. T!Spoken(from, from) = {}
      BY <3>2 DEF T!Spoken
    <3>4. \A t \in T!Turns : told[day][s][t] \in Nat
      BY <2>1 DEF T!Counts
    <3> QED BY <3>3, <3>4
  <2>7. Pass'
    <3>1. work'.windows = 0 /\ 0 < MaxWindows
      BY <1>1, <2>3, Numbers DEF TrailInv, Pass
    <3> QED BY <1>1, <1>2, <1>5, <2>1, <2>3, <2>5, <2>6, <3>1 DEF Pass, Busy, T!Spoken, T!Turns
  <2>8. Begun' /\ T!NoTurnSkipped'
    BY <1>1, <1>5 DEF TrailInv, Begun, T!NoTurnSkipped, T!Told, T!Spoken
  <2>9. ASSUME crashes' = 0 PROVE TrailFresh'
    <3>1. TrailFresh
      BY <1>1, <2>9 DEF TrailInv
    <3>2. work'.bullets = T!With(told'[work'.day][work'.job.session], T!Spoken(work'.from, work'.next))
      BY <1>1, <2>1, <2>3, <2>6 DEF T!With, T!Counts
    <3> QED BY <1>1, <1>5, <2>3, <3>1, <3>2 DEF TrailFresh, T!TurnsOnce, T!Told, Behind, T!Spoken
  <2> QED BY <2>4, <2>7, <2>8, <2>9 DEF TrailInv
<1> QED BY <1>3, <1>4, <1>5 DEF T!Read

\* One window more: what was told of is one turn after the other.
LEMMA ModelAnswersKeeps ==
  ASSUME T!TrailAssumption, TrailInv, T!ModelAnswers
  PROVE  TrailInv'
<1> DEFINE rest == T!Spoken(work.next, work.total)
           window == T!FirstOf(rest, Window)
           done == rest = window
           step == IF done \/ work.windows + 1 = MaxWindows THEN "write" ELSE work.step
           next == IF done THEN work.total ELSE T!Max(window) + 1
           s == work.job.session
<1>1. /\ work.step = "model"
      /\ work' = [work EXCEPT !.step = step, !.next = next,
                              !.bullets = T!With(work.bullets, window), !.windows = work.windows + 1]
      /\ UNCHANGED <<total, ended, owed, last, first, told, day, queue, woken, failures, crashes>>
  BY Zenon DEF T!ModelAnswers
<1>2. /\ work \in T!Work /\ work.job \in T!Job /\ s \in Sessions
      /\ work.total \in 0..T!Most /\ work.from \in 0..T!Most /\ work.next \in 0..T!Most
      /\ work.day \in T!Days /\ work.bullets \in T!Counts /\ work.windows \in 0..MaxWindows
      /\ T!Most \in Nat /\ MaxWindows \in Nat
  BY <1>1, WorkTyped, Numbers DEF TrailInv, T!TypeOK
<1>3. /\ rest # {} /\ work.windows < MaxWindows
      /\ work.from <= work.next /\ work.next <= work.total
      /\ last[s] # None => work.from = last[s]
      /\ \A t \in T!Turns : work.bullets[t] >= told[work.day][s][t]
      /\ \A t \in T!Spoken(work.from, work.next) : work.bullets[t] > 0
  BY <1>1 DEF TrailInv, Pass, Busy
<1>4. /\ window \subseteq rest
      /\ next \in Nat /\ work.next <= next /\ next <= work.total
      /\ T!Spoken(work.next, next) = window
      /\ ~done => T!Spoken(next, work.total) # {}
  BY <1>2, <1>3, WindowFirst
<1>5. next \in 0..T!Most /\ step \in {"model", "write"} /\ work.windows + 1 \in 0..MaxWindows
  BY <1>1, <1>2, <1>3, <1>4
<1>6. T!With(work.bullets, window) \in T!Counts
  BY <1>2 DEF T!With, T!Counts
<1> HIDE DEF step, next, window, done, rest
<1>7. work' \in T!Work
  <2>1. step \in {"idle", "read", "model", "write", "checkpoint"}
    BY <1>5
  <2> QED BY <1>1, <1>2, <1>5, <1>6, <2>1, Zenon DEF T!Work
<1>8. /\ work'.step = step /\ work'.job = work.job /\ work'.total = work.total /\ work'.from = work.from
      /\ work'.next = next /\ work'.day = work.day /\ work'.bullets = T!With(work.bullets, window)
      /\ work'.windows = work.windows + 1
  BY <1>1, <1>2 DEF T!Work
<1>9. T!TypeOK'
  BY <1>1, <1>7 DEF TrailInv, T!TypeOK
<1>10. /\ T!Spoken(work.from, next) = T!Spoken(work.from, work.next) \cup window
       /\ T!Spoken(work.from, work.next) \cap window = {}
  <2>1. T!Turns \subseteq Nat
    BY <1>2 DEF T!Turns
  <2>2. \A t \in T!Turns : work.from <= t /\ t < next <=> (work.from <= t /\ t < work.next) \/ (work.next <= t /\ t < next)
    <3>1. work.from \in Nat /\ work.next \in Nat /\ next \in Nat /\ work.from <= work.next /\ work.next <= next
      BY <1>2, <1>3, <1>4
    <3> QED BY <2>1, <3>1, Between
  <2>3. \A t \in T!Turns : ~((work.from <= t /\ t < work.next) /\ (work.next <= t /\ t < next))
    BY <1>2, <1>4, <2>1
  <2> QED BY <1>4, <2>2, <2>3 DEF T!Spoken
<1>11. \A t \in T!Turns : /\ T!With(work.bullets, window)[t] >= work.bullets[t]
                          /\ t \in window => T!With(work.bullets, window)[t] > 0
  BY <1>2 DEF T!With, T!Counts
<1>12. Pass'
  <2>1. /\ \A t \in T!Turns : work'.bullets[t] >= told[work.day][s][t]
        /\ \A t \in T!Spoken(work.from, next) : work'.bullets[t] > 0
    <3>1. told[work.day][s] \in T!Counts
      BY <1>2 DEF TrailInv, T!TypeOK
    <3>2. \A t \in T!Turns : /\ work.bullets[t] \in Nat /\ told[work.day][s][t] \in Nat
                             /\ T!With(work.bullets, window)[t] \in Nat
      BY <1>2, <1>6, <3>1 DEF T!Counts
    <3>3. \A t \in T!Spoken(work.from, next) : t \in T!Turns
      BY DEF T!Spoken
    <3>4. \A t \in T!Turns : T!With(work.bullets, window)[t] >= told[work.day][s][t]
      BY <1>3, <1>11, <3>2
    <3>5. \A t \in T!Spoken(work.from, next) : T!With(work.bullets, window)[t] > 0
      BY <1>3, <1>10, <1>11, <3>2, <3>3
    <3> QED BY <1>8, <3>4, <3>5
  <2>2. step = "model" => T!Spoken(next, work.total) # {} /\ work.windows + 1 < MaxWindows
    BY <1>2, <1>3, <1>4 DEF step
  <2>3. work.from <= next
    BY <1>2, <1>3, <1>4
  <2> QED BY <1>1, <1>2, <1>3, <1>4, <1>5, <1>8, <2>1, <2>2, <2>3 DEF Pass, Busy, T!Spoken, T!Turns
<1>13. Begun' /\ T!NoTurnSkipped'
  BY <1>1 DEF TrailInv, Begun, T!NoTurnSkipped, T!Told, T!Spoken
<1>14. ASSUME crashes' = 0 PROVE TrailFresh'
  <2>1. TrailFresh /\ work.bullets = T!With(told[work.day][s], T!Spoken(work.from, work.next))
    BY <1>1, <1>14 DEF TrailInv, TrailFresh
  <2>2. told[work.day][s] \in T!Counts
    BY <1>2 DEF TrailInv, T!TypeOK
  <2>3. \A t \in T!Turns : T!With(work.bullets, window)[t] = T!With(told[work.day][s], T!Spoken(work.from, next))[t]
    BY <1>10, <2>1, <2>2 DEF T!With, T!Counts
  <2>4. T!With(work.bullets, window) = T!With(told[work.day][s], T!Spoken(work.from, next))
    BY <2>3 DEF T!With
  <2>5. T!TurnsOnce' /\ \A r \in Sessions, t \in T!Turns : T!Told(r, t)' => Behind(r, t)'
    BY <1>1, <1>5, <1>8, <2>1 DEF TrailFresh, T!TurnsOnce, T!Told, Behind
  <2>6. work'.bullets = T!With(told'[work'.day][work'.job.session], T!Spoken(work'.from, work'.next))
    BY <1>1, <1>8, <2>4
  <2> QED BY <2>5, <2>6 DEF TrailFresh, T!Spoken
<1> QED BY <1>9, <1>12, <1>13, <1>14 DEF TrailInv

\* What the model has told of is kept, or nothing is.
LEMMA ModelFailsKeeps ==
  ASSUME T!TrailAssumption, TrailInv, T!ModelFails
  PROVE  TrailInv'
<1>1. /\ work.step = "model" /\ T!Fault
      /\ UNCHANGED <<total, ended, owed, last, first, told, day, woken, crashes>>
  BY DEF T!ModelFails
<1>2. CASE T!Proceed
  <2>1. T!TypeOK' /\ Rests(work')
    BY <1>1, <1>2, EndsTyped DEF TrailInv, T!TypeOK
  <2> QED BY <1>1, <2>1, RestKeeps
<1>3. CASE work' = [work EXCEPT !.step = "write"] /\ UNCHANGED queue
  <2>1. work \in T!Work /\ failures \in 0..MaxFailures /\ crashes \in 0..failures /\ MaxFailures \in Nat
    BY Numbers DEF TrailInv, T!TypeOK
  <2>2. work' \in T!Work
    <3>1. "write" \in {"idle", "read", "model", "write", "checkpoint"}
      OBVIOUS
    <3> QED BY <1>3, <2>1, <3>1, Zenon DEF T!Work
  <2>3. /\ work'.step = "write" /\ work'.job = work.job /\ work'.total = work.total /\ work'.from = work.from
        /\ work'.next = work.next /\ work'.day = work.day /\ work'.bullets = work.bullets
    BY <1>3, <2>1 DEF T!Work
  <2>4. failures' \in 0..MaxFailures /\ crashes' \in 0..failures'
    BY <1>1, <2>1 DEF T!Fault
  <2>5. T!TypeOK'
    BY <1>1, <1>3, <2>2, <2>4 DEF TrailInv, T!TypeOK
  <2>6. Pass' /\ Begun' /\ T!NoTurnSkipped'
    BY <1>1, <2>3 DEF TrailInv, Pass, Busy, Begun, T!NoTurnSkipped, T!Told, T!Spoken
  <2>7. ASSUME crashes' = 0 PROVE TrailFresh'
    BY <1>1, <2>3, <2>7 DEF TrailInv, TrailFresh, T!TurnsOnce, T!Told, Behind, T!With, T!Spoken
  <2> QED BY <2>5, <2>6, <2>7 DEF TrailInv
<1> QED BY <1>2, <1>3 DEF T!ModelFails

\* The block that is written tells what it told before.
LEMMA WriteBlockKeeps ==
  ASSUME T!TrailAssumption, TrailInv, T!WriteBlock
  PROVE  TrailInv'
<1> DEFINE s == work.job.session
<1>1. /\ work.step = "write"
      /\ told' = [told EXCEPT ![work.day][s] = work.bullets]
      /\ work' = [work EXCEPT !.step = "checkpoint"]
      /\ UNCHANGED <<total, ended, owed, last, first, day, queue, woken, failures, crashes>>
  BY DEF T!WriteBlock
<1>2. /\ work \in T!Work /\ work.job \in T!Job /\ s \in Sessions /\ work.day \in T!Days /\ work.bullets \in T!Counts
      /\ work.from \in 0..T!Most /\ work.next \in 0..T!Most
      /\ told \in [T!Days -> [Sessions -> T!Counts]] /\ T!Most \in Nat
      /\ last \in [Sessions -> 0..T!Most \cup {None}]
  BY <1>1, WorkTyped, Numbers DEF TrailInv, T!TypeOK
<1>3. told' \in [T!Days -> [Sessions -> T!Counts]]
  BY <1>1, <1>2
<1>4. work' \in T!Work
  <2>1. "checkpoint" \in {"idle", "read", "model", "write", "checkpoint"}
    OBVIOUS
  <2> QED BY <1>1, <1>2, <2>1, Zenon DEF T!Work
<1>5. /\ work'.step = "checkpoint" /\ work'.job = work.job /\ work'.total = work.total /\ work'.from = work.from
      /\ work'.next = work.next /\ work'.day = work.day /\ work'.bullets = work.bullets
  BY <1>1, <1>2 DEF T!Work
<1>6. T!TypeOK'
  BY <1>1, <1>3, <1>4 DEF TrailInv, T!TypeOK
<1>7. /\ told'[work.day][s] = work.bullets
      /\ \A d \in T!Days, r \in Sessions : d # work.day \/ r # s => told'[d][r] = told[d][r]
  BY <1>1, <1>2
<1>8. /\ \A t \in T!Turns : work.bullets[t] >= told[work.day][s][t]
      /\ \A t \in T!Turns : work.bullets[t] \in Nat
      /\ \A d \in T!Days, r \in Sessions, t \in T!Turns : told[d][r][t] \in Nat
  BY <1>1, <1>2 DEF TrailInv, Pass, Busy, T!Counts
<1>9. Pass'
  BY <1>1, <1>2, <1>5, <1>7, <1>8 DEF TrailInv, Pass, Busy, T!Spoken
<1>10. \A r \in Sessions, t \in T!Turns : T!Told(r, t) => T!Told(r, t)'
  BY <1>7, <1>8 DEF T!Told
<1>11. Begun' /\ T!NoTurnSkipped'
  <2>1. \A a, b : T!Spoken(a, b) \subseteq T!Turns
    BY DEF T!Spoken
  <2> QED BY <1>1, <1>10, <2>1 DEF TrailInv, Begun, T!NoTurnSkipped, T!Spoken
<1>12. ASSUME crashes' = 0 PROVE TrailFresh'
  <2> DEFINE now == T!Spoken(work.from, work.next)
  <2>1. TrailFresh /\ work.bullets = T!With(told[work.day][s], now)
    BY <1>1, <1>12 DEF TrailInv, TrailFresh
  <2>2. \A t \in now : ~T!Told(s, t) /\ t < work.next
    <3>1. \A t \in now : t \in T!Turns /\ t \in Nat /\ work.from <= t /\ t < work.next
      BY <1>2 DEF T!Spoken, T!Turns
    <3>2. last[s] # None => work.from = last[s]
      BY <1>1 DEF TrailInv, Pass, Busy
    <3> QED BY <1>1, <1>2, <2>1, <3>1, <3>2 DEF TrailFresh, Behind
  <2>3. \A t \in T!Turns : told'[work.day][s][t] = told[work.day][s][t] + IF t \in now THEN 1 ELSE 0
    BY <1>7, <2>1 DEF T!With
  <2>4. \A r \in Sessions, t \in T!Turns : ~(r = s /\ t \in now) => \A d \in T!Days : told'[d][r][t] = told[d][r][t]
    BY <1>7, <1>8, <2>3
  <2>5. \A t \in now : told'[work.day][s][t] = 1 /\ \A d \in T!Days \ {work.day} : told'[d][s][t] = 0
    <3>1. \A t \in now, d \in T!Days : t \in T!Turns /\ told[d][s][t] = 0
      BY <1>2, <1>8, <2>2 DEF T!Told, T!Spoken
    <3> QED BY <1>2, <1>7, <2>3, <3>1
  <2> HIDE DEF now
  <2>6. T!TurnsOnce'
    <3>1. SUFFICES ASSUME NEW r \in Sessions, NEW t \in T!Turns, NEW d \in T!Days
                   PROVE  /\ told'[d][r][t] <= 1
                          /\ \A e \in T!Days : told'[d][r][t] > 0 /\ told'[e][r][t] > 0 => d = e
      BY DEF T!TurnsOnce
    <3>2. CASE r = s /\ t \in now
      BY <1>2, <2>5, <3>2
    <3>3. CASE ~(r = s /\ t \in now)
      <4>1. \A e \in T!Days : told'[e][r][t] = told[e][r][t]
        BY <2>4, <3>3
      <4>2. told[d][r][t] <= 1 /\ \A e \in T!Days : told[d][r][t] > 0 /\ told[e][r][t] > 0 => d = e
        BY <1>1, <1>12, <2>1 DEF TrailFresh, T!TurnsOnce
      <4> QED BY <4>1, <4>2
    <3> QED BY <3>2, <3>3
  <2>7. ASSUME NEW r \in Sessions, NEW t \in T!Turns, T!Told(r, t)' PROVE Behind(r, t)'
    <3>1. CASE r = s /\ t \in now
      BY <1>5, <2>2, <3>1 DEF Behind
    <3>2. CASE ~(r = s /\ t \in now)
      BY <1>1, <1>5, <2>1, <2>4, <2>7, <3>2 DEF TrailFresh, T!Told, Behind
    <3> QED BY <3>1, <3>2
  <2> QED BY <1>5, <2>6, <2>7 DEF TrailFresh
<1> QED BY <1>6, <1>9, <1>11, <1>12 DEF TrailInv

LEMMA WriteFailsKeeps ==
  ASSUME T!TrailAssumption, TrailInv, T!WriteFails
  PROVE  TrailInv'
<1>1. /\ work.step = "write" /\ T!Fault /\ T!Proceed
      /\ UNCHANGED <<total, ended, owed, last, first, told, day, woken, crashes>>
  BY DEF T!WriteFails
<1>2. T!TypeOK' /\ Rests(work')
  BY <1>1, EndsTyped DEF TrailInv, T!TypeOK
<1> QED BY <1>1, <1>2, RestKeeps

\* The row moves over what the block that was written tells.
LEMMA CheckpointKeeps ==
  ASSUME T!TrailAssumption, TrailInv, T!Checkpoint
  PROVE  TrailInv'
<1> DEFINE s == work.job.session
<1>1. /\ work.step = "checkpoint" /\ T!Proceed
      /\ T!Checkpointed(s, work.from, work.next)
      /\ UNCHANGED <<total, ended, owed, told, day, woken, failures, crashes>>
  BY DEF T!Checkpoint
<1>2. /\ s \in Sessions /\ work.from \in 0..T!Most /\ work.next \in 0..T!Most /\ work.day \in T!Days
  BY <1>1, WorkTyped
<1>3. T!TypeOK' /\ Rests(work')
  BY <1>1, <1>2, RowTyped, EndsTyped DEF TrailInv, T!TypeOK
<1>4. last[s] # None => work.from = last[s]
  BY <1>1 DEF TrailInv, Pass, Busy
<1>5. \A t \in T!Spoken(work.from, work.next) : T!Told(s, t)
  BY <1>1, <1>2 DEF TrailInv, Pass, Busy, T!Told
<1> QED BY <1>1, <1>2, <1>3, <1>4, <1>5, CheckpointedKeeps

LEMMA CrashKeeps ==
  ASSUME T!TrailAssumption, TrailInv, T!Crash
  PROVE  TrailInv'
<1>1. failures \in 0..MaxFailures /\ crashes \in 0..failures /\ MaxFailures \in Nat
  BY Numbers DEF TrailInv, T!TypeOK
<1>2. failures' \in 0..MaxFailures /\ crashes' \in 0..failures' /\ crashes' # 0
  BY <1>1 DEF T!Crash, T!Fault
<1>3. work' \in T!Work /\ Rests(work')
  BY IdleTyped DEF T!Crash, Rests, T!Idle
<1>4. queue' \in Seq(T!Job) /\ woken' \in BOOLEAN
  BY EmptySeq DEF T!Crash
<1>5. T!TypeOK'
  BY <1>2, <1>3, <1>4 DEF T!Crash, TrailInv, T!TypeOK
<1> QED BY <1>2, <1>3, <1>5, RestKeeps DEF T!Crash

-----------------------------------------------------------------------------
(* The trail: the theorems *)

LEMMA StepTrail == T!TrailAssumption /\ TrailInv /\ [T!Next]_T!vars => TrailInv'
<1> SUFFICES ASSUME T!TrailAssumption, TrailInv, [T!Next]_T!vars PROVE TrailInv'
  OBVIOUS
<1>1. ASSUME NEW s \in Sessions, T!Turn(s) PROVE TrailInv'
  BY <1>1, TurnKeeps
<1>2. ASSUME NEW s \in Sessions, T!SessionEnd(s) \/ \E force \in BOOLEAN : T!Stop(s, force) PROVE TrailInv'
  BY <1>2, HookKeeps
<1>3. CASE T!Midnight
  BY <1>3, MidnightKeeps
<1>4. CASE T!Drain
  BY <1>4, DrainKeeps
<1>5. CASE T!Read
  BY <1>5, ReadKeeps
<1>6. CASE T!ModelAnswers
  BY <1>6, ModelAnswersKeeps
<1>7. CASE T!ModelFails
  BY <1>7, ModelFailsKeeps
<1>8. CASE T!WriteBlock
  BY <1>8, WriteBlockKeeps
<1>9. CASE T!WriteFails
  BY <1>9, WriteFailsKeeps
<1>10. CASE T!Checkpoint
  BY <1>10, CheckpointKeeps
<1>11. CASE T!Crash
  BY <1>11, CrashKeeps
<1>12. CASE UNCHANGED T!vars
  <2>1. T!TypeOK'
    BY <1>12 DEF T!vars, TrailInv, T!TypeOK
  <2> QED BY <1>12, <2>1, QuietTrailKeeps DEF T!vars
<1> QED BY <1>1, <1>2, <1>3, <1>4, <1>5, <1>6, <1>7, <1>8, <1>9, <1>10, <1>11, <1>12, Zenon DEF T!Next

LEMMA TrailHolds == CommandsSpec => []TrailInv
<1>1. T!TrailAssumption
  BY TrailPart
<1>2. CommandsInit => TrailInv
  BY <1>1, InitTrail DEF CommandsInit
<1>3. TrailInv /\ [CommandsNext]_all => TrailInv'
  <2>1. [CommandsNext]_all => [T!Next]_T!vars
    BY DEF CommandsNext, all, trail, T!vars, InWorktrees, InTunnel, InImplement, InTrail
  <2> QED BY <1>1, <2>1, StepTrail
<1> QED BY <1>2, <1>3, PTL DEF CommandsSpec

\* The values of the trail are well typed, whatever the number of sessions,
\* turns, windows and faults: no window ends behind the transcript it was cut
\* from.
THEOREM TrailTyped == CommandsSpec => []T!TypeOK
<1>1. TrailInv => T!TypeOK
  BY DEF TrailInv
<1> QED BY <1>1, TrailHolds, PTL

\* Whatever fails and whenever the hub dies, every turn with text between the
\* first summary and the checkpoint is told in some file.
THEOREM NoTurnIsSkipped == CommandsSpec => []NoTurnSkipped
<1>1. TrailInv => NoTurnSkipped
  BY DEF TrailInv, NoTurnSkipped
<1> QED BY <1>1, TrailHolds, PTL

\* As long as the hub does not die, no turn is told twice, in one file or in
\* the files of two days.
THEOREM TurnsAreToldOnce == CommandsSpec => []TurnsOnce
<1>1. TrailInv => TurnsOnce
  BY DEF TrailInv, TrailFresh, TurnsOnce, T!TurnsOnce
<1> QED BY <1>1, TrailHolds, PTL
=============================================================================
