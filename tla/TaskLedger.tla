----------------------------- MODULE TaskLedger -----------------------------
(***************************************************************************)
(* What the hub promises about the runs of its tasks, whatever happens to  *)
(* the process, to the store or to the agents: a task has at most one open *)
(* run, and every run is closed at most once, with a verdict that stays.   *)
(***************************************************************************)
CONSTANTS Tasks, Runs, None

VARIABLES
  open,   \* the run each task has in flight, or None
  closed  \* the runs of each task that have ended, each with its verdict

ledger == <<open, closed>>

Verdicts == {"completed", "attention", "failed", "interrupted", "cancelled"}

\* The runs some task has ever had.
Used == {r \in Runs : \E t \in Tasks : open[t] = r \/ \E v \in Verdicts : <<r, v>> \in closed[t]}

Init ==
  /\ open = [t \in Tasks |-> None]
  /\ closed = [t \in Tasks |-> {}]

\* A task without an open run opens a new one.
Begin(t, r) ==
  /\ open[t] = None
  /\ r \notin Used
  /\ open' = [open EXCEPT ![t] = r]
  /\ UNCHANGED closed

\* The open runs of the tasks in S are closed: one by its own end, any number
\* of them by a restart.
Close(S, verdict) ==
  /\ open' = [t \in Tasks |-> IF t \in S THEN None ELSE open[t]]
  /\ closed' = [t \in Tasks |-> IF t \in S
                                THEN closed[t] \cup {<<open[t], verdict>>}
                                ELSE closed[t]]

Next ==
  \/ \E t \in Tasks, r \in Runs : Begin(t, r)
  \/ \E S \in SUBSET {t \in Tasks : open[t] # None}, v \in Verdicts : Close(S, v)

Spec == Init /\ [][Next]_ledger
=============================================================================
