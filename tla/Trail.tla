-------------------------------- MODULE Trail --------------------------------
(***************************************************************************)
(* The session trail (trail.ts): after every stop and at the end of a      *)
(* session one serial worker has a small model summarise the new turns of  *)
(* the transcript, window by window, writes the bullets into the block of  *)
(* the session in the file of the day, and then moves the checkpoint.      *)
(*                                                                         *)
(* A bullet is known here by the turn it tells of.  A turn without text    *)
(* (Silent) is counted by the transcript but never shown to the model.     *)
(* Each await of summarizeSession ends a step: reading the transcript, one *)
(* window of the model, the write of the block through the write queue of  *)
(* second-brain.ts; the checkpoint follows in a step of its own.           *)
(***************************************************************************)
EXTENDS Naturals, Sequences, FiniteSets, FiniteSetsExt

CONSTANTS
  Sessions,   \* the sessions whose hooks carry a transcript
  Silent,     \* the turns without text, by number
  Window,     \* turns shown to the model at a time
  MaxWindows, \* windows summarised per trigger
  EveryStop,  \* the level summarises on every stop
  MaxTurns,   \* bound: turns of each session
  MaxDays,    \* bound: days
  MaxFaults,  \* bound: failures of the model or of a write, and restarts
  None

TrailAssumption ==
  /\ Window \in Nat \ {0} /\ MaxWindows \in Nat \ {0}
  /\ EveryStop \in BOOLEAN
  /\ IsFiniteSet(Sessions) /\ MaxTurns \in [Sessions -> Nat]
  /\ MaxDays \in Nat \ {0} /\ MaxFaults \in Nat
  /\ Silent \subseteq Nat
  /\ None \notin Sessions \cup Nat

VARIABLES
  total,   \* the turns in the transcript of every session
  ended,   \* the sessions whose session_end hook has arrived
  owed,    \* history: those of them whose backlog then fitted into one trigger
  last,    \* trail_state: last_turns of a session, None without a row
  first,   \* history: the turn its first summary started from
  told,    \* the files: how often a day's block of a session tells a turn
  day,
  queue,   \* the pending jobs, in the order their sessions were first queued
  woken,   \* a setImmediate(drain) is pending
  work,    \* the job summarizeSession is busy with
  faults,
  crashes

vars == <<total, ended, owed, last, first, told, day, queue, woken, work, faults, crashes>>

Most   == Max({MaxTurns[s] : s \in Sessions} \cup {0})
Turns  == 0..(Most - 1)
Days   == 1..MaxDays
Counts == [Turns -> Nat]

\* force: a flush asked for it, the throttle does not apply.
Job == [session : Sessions, kind : {"stop", "session_end"}, force : BOOLEAN]

\* total: what the transcript had when it was read; from: startFrom; next:
\* processedThrough; day: the file; bullets: the working list of the block;
\* windows: how many were summarised.
Work == [step : {"idle", "read", "model", "write", "checkpoint"}, job : Job \cup {None},
         total : 0..Most, from : 0..Most, next : 0..Most, day : Days,
         bullets : Counts, windows : 0..MaxWindows]

Nothing == [t \in Turns |-> 0]
Idle == [step |-> "idle", job |-> None, total |-> 0, from |-> 0, next |-> 0, day |-> 1,
         bullets |-> Nothing, windows |-> 0]

TypeOK ==
  /\ total \in [Sessions -> 0..Most]
  /\ owed \subseteq ended /\ ended \subseteq Sessions
  /\ last \in [Sessions -> 0..Most \cup {None}]
  /\ first \in [Sessions -> 0..Most \cup {None}]
  /\ told \in [Days -> [Sessions -> Counts]]
  /\ day \in Days
  /\ queue \in Seq(Job)
  /\ woken \in BOOLEAN
  /\ work \in Work
  /\ faults \in 0..MaxFaults /\ crashes \in 0..faults

Init ==
  /\ total = [s \in Sessions |-> 0]
  /\ ended = {} /\ owed = {}
  /\ last = [s \in Sessions |-> None] /\ first = [s \in Sessions |-> None]
  /\ told = [d \in Days |-> [s \in Sessions |-> Nothing]]
  /\ day = 1
  /\ queue = <<>> /\ woken = FALSE
  /\ work = Idle
  /\ faults = 0 /\ crashes = 0

-----------------------------------------------------------------------------
(* Sessions and hooks *)

Turn(s) ==
  /\ s \notin ended /\ total[s] < MaxTurns[s]
  /\ total' = [total EXCEPT ![s] = @ + 1]
  /\ UNCHANGED <<ended, owed, last, first, told, day, queue, woken, work, faults, crashes>>

Same(job)   == {i \in DOMAIN queue : queue[i].session = job.session}
Put(job, j) == IF Same(job) = {} THEN Append(queue, job)
                                 ELSE [i \in DOMAIN queue |-> IF i \in Same(job) THEN j ELSE queue[i]]

\* Mutant of Merged: the last trigger replaces the one that waits.
Merged_Replaces(job) == job

\* A job that waits for the same session absorbs the new one and keeps its place.
Merged(job) ==
  LET jobs == {job} \cup {queue[i] : i \in Same(job)} IN
  [job EXCEPT !.kind  = IF \E j \in jobs : j.kind = "session_end" THEN "session_end" ELSE "stop",
              !.force = \E j \in jobs : j.force]

\* Mutant of Schedule: a trigger of the session being summarised is dropped.
Schedule_SkipsRunning(job) ==
  IF work.job # None /\ work.job.session = job.session
    THEN UNCHANGED <<queue, woken>>
    ELSE queue' = Put(job, Merged(job)) /\ woken' = TRUE

Schedule(job) == queue' = Put(job, Merged(job)) /\ woken' = TRUE

\* A hook of a session, or POST /trail/flush; a late stop may
\* follow the end of the session.
Stop(s, force) ==
  /\ total[s] > 0
  /\ Schedule([session |-> s, kind |-> "stop", force |-> force])
  /\ UNCHANGED <<total, ended, owed, last, first, told, day, work, faults, crashes>>

\* A session seen for the first time starts at its latest window.
StartFrom(s) == IF last[s] # None THEN last[s]
                ELSE IF total[s] > Window THEN total[s] - Window ELSE 0

Spoken(from, to) == {t \in Turns : from <= t /\ t < to} \ Silent

\* What is behind the checkpoint fits into one trigger.
FitsOne(s) == Cardinality(Spoken(StartFrom(s), total[s])) <= Window * MaxWindows

SessionEnd(s) ==
  /\ s \notin ended
  /\ ended' = ended \cup {s}
  /\ owed' = IF FitsOne(s) THEN owed \cup {s} ELSE owed
  /\ Schedule([session |-> s, kind |-> "session_end", force |-> FALSE])
  /\ UNCHANGED <<total, last, first, told, day, work, faults, crashes>>

Midnight ==
  /\ day < MaxDays
  /\ day' = day + 1
  /\ UNCHANGED <<total, ended, owed, last, first, told, queue, woken, work, faults, crashes>>

-----------------------------------------------------------------------------
(* The worker: drain, summarizeSession *)

Started(job) == [Idle EXCEPT !.step = "read", !.job = job]

\* The loop of drain goes on with the next job, or ends.
Proceed ==
  IF queue = <<>>
    THEN work' = Idle /\ UNCHANGED queue
    ELSE work' = Started(Head(queue)) /\ queue' = Tail(queue)

\* setImmediate: a drain that runs already takes no second one.
Drain ==
  /\ woken /\ woken' = FALSE
  /\ IF work.step = "idle" THEN Proceed ELSE UNCHANGED <<work, queue>>
  /\ UNCHANGED <<total, ended, owed, last, first, told, day, faults, crashes>>

\* elapsed: the throttle has run out, in minutes or in turns.
Due(job, elapsed) ==
  LET s == job.session IN
  IF last[s] = None
    THEN job.force \/ total[s] > 0
    ELSE /\ total[s] > last[s]
         /\ job.force \/ job.kind = "session_end" \/ EveryStop \/ elapsed

\* The row never moves back.
Checkpointed(s, from, turns) ==
  /\ last' = [last EXCEPT ![s] = IF @ # None /\ @ > turns THEN @ ELSE turns]
  /\ first' = [first EXCEPT ![s] = IF @ = None THEN from ELSE @]

\* The transcript is read; the checkpoint and the day's file right after it.
Read ==
  LET s == work.job.session  from == StartFrom(s) IN
  /\ work.step = "read"
  /\ \E elapsed \in BOOLEAN :
       \/ /\ ~Due(work.job, elapsed)
          /\ Proceed
          /\ UNCHANGED <<last, first>>
       \/ /\ Due(work.job, elapsed) /\ Spoken(from, total[s]) = {}
          /\ Checkpointed(s, from, total[s])
          /\ Proceed
       \/ /\ Due(work.job, elapsed) /\ Spoken(from, total[s]) # {}
          /\ work' = [work EXCEPT !.step = "model", !.total = total[s], !.from = from,
                                  !.next = from, !.day = day, !.bullets = told[day][s]]
          /\ UNCHANGED <<queue, last, first>>
  /\ UNCHANGED <<total, ended, owed, told, day, woken, faults, crashes>>

FirstOf(S, n) == {t \in S : Cardinality({u \in S : u < t}) < n}

With(bullets, S) == [t \in Turns |-> bullets[t] + IF t \in S THEN 1 ELSE 0]

\* Mutant of ModelAnswers: a capped pass counts as a complete one.
ModelAnswers_CappedIsComplete ==
  LET rest   == Spoken(work.next, work.total)
      window == FirstOf(rest, Window)
      done   == rest = window \/ work.windows + 1 = MaxWindows
  IN
  /\ work.step = "model"
  /\ work' = [work EXCEPT !.step = IF done THEN "write" ELSE @,
                          !.next = IF done THEN work.total ELSE Max(window) + 1,
                          !.bullets = With(@, window),
                          !.windows = @ + 1]
  /\ UNCHANGED <<total, ended, owed, last, first, told, day, queue, woken, faults, crashes>>

\* One window more; the last one, or the last allowed, ends the loop.
ModelAnswers ==
  LET rest   == Spoken(work.next, work.total)
      window == FirstOf(rest, Window)
      done   == rest = window
  IN
  /\ work.step = "model"
  /\ work' = [work EXCEPT !.step = IF done \/ work.windows + 1 = MaxWindows THEN "write" ELSE @,
                          !.next = IF done THEN work.total ELSE Max(window) + 1,
                          !.bullets = With(@, window),
                          !.windows = @ + 1]
  /\ UNCHANGED <<total, ended, owed, last, first, told, day, queue, woken, faults, crashes>>

Fault == faults < MaxFaults /\ faults' = faults + 1

\* Two attempts fail, or the rewrite over the cap does: what was summarised
\* before is kept, and nothing is when it was the first window.
ModelFails ==
  /\ work.step = "model" /\ Fault
  /\ IF work.windows = 0 THEN Proceed
     ELSE work' = [work EXCEPT !.step = "write"] /\ UNCHANGED queue
  /\ UNCHANGED <<total, ended, owed, last, first, told, day, woken, crashes>>

\* queueSessionBlock: the block is replaced under the lock of the file.
WriteBlock ==
  /\ work.step = "write"
  /\ told' = [told EXCEPT ![work.day][work.job.session] = work.bullets]
  /\ work' = [work EXCEPT !.step = "checkpoint"]
  /\ UNCHANGED <<total, ended, owed, last, first, day, queue, woken, faults, crashes>>

\* Mutant of WriteFails: the error is swallowed and the checkpoint moves on.
WriteFails_Swallowed ==
  /\ work.step = "write" /\ Fault
  /\ work' = [work EXCEPT !.step = "checkpoint"]
  /\ UNCHANGED <<total, ended, owed, last, first, told, day, queue, woken, crashes>>

\* The write is given up after five failures: summarizeSession throws.
WriteFails ==
  /\ work.step = "write" /\ Fault
  /\ Proceed
  /\ UNCHANGED <<total, ended, owed, last, first, told, day, woken, crashes>>

\* Mutant of Checkpoint: an incomplete pass leaves the row as it was.
Checkpoint_OnlyComplete ==
  /\ work.step = "checkpoint"
  /\ IF work.next = work.total
       THEN Checkpointed(work.job.session, work.from, work.next)
       ELSE UNCHANGED <<last, first>>
  /\ Proceed
  /\ UNCHANGED <<total, ended, owed, told, day, woken, faults, crashes>>

Checkpoint ==
  /\ work.step = "checkpoint"
  /\ Checkpointed(work.job.session, work.from, work.next)
  /\ Proceed
  /\ UNCHANGED <<total, ended, owed, told, day, woken, faults, crashes>>

\* The hub dies and is started again: the queue is in memory.
Crash ==
  /\ Fault /\ crashes' = crashes + 1
  /\ queue' = <<>> /\ woken' = FALSE /\ work' = Idle
  /\ UNCHANGED <<total, ended, owed, last, first, told, day>>

-----------------------------------------------------------------------------
Next ==
  \/ \E s \in Sessions : Turn(s) \/ SessionEnd(s)
  \/ \E s \in Sessions, force \in BOOLEAN : Stop(s, force)
  \/ Midnight
  \/ Drain \/ Read \/ ModelAnswers \/ ModelFails
  \/ WriteBlock \/ WriteFails \/ Checkpoint
  \/ Crash

Spec == Init /\ [][Next]_vars

\* The event loop comes round, files are read and written, and the model
\* answers or fails: its call is killed after 90 s.
Works == Read \/ ModelAnswers \/ ModelFails \/ WriteBlock \/ WriteFails \/ Checkpoint

FairSpec == Spec /\ WF_vars(Drain) /\ WF_vars(Works)

-----------------------------------------------------------------------------
(* Properties *)

Told(s, t) == \E d \in Days : told[d][s][t] > 0

\* While the hub is not restarted, no failure of the model or of a write, no
\* cap and no midnight makes the trail tell a turn twice, in one file or in
\* two: the checkpoint moves exactly with the block (trail.ts, the end of
\* summarizeSession).
TurnsOnce ==
  crashes = 0 =>
    \A s \in Sessions, t \in Turns, d \in Days :
      /\ told[d][s][t] <= 1
      /\ \A e \in Days : told[d][s][t] > 0 /\ told[e][s][t] > 0 => d = e

\* Whatever fails and whenever the hub dies, every turn with text behind the
\* checkpoint is in some file: the checkpoint never runs ahead of the blocks
\* (trail.ts, checkpoint after queueSessionBlock).
NoTurnSkipped ==
  \A s \in Sessions : last[s] # None =>
    \A t \in Spoken(first[s], last[s]) : Told(s, t)

\* A session that ends with a backlog of one trigger at most is summarised to
\* its last turn when nothing fails, however its hooks fall between the steps
\* of the worker and whatever the throttle says: no trigger is lost while the
\* worker is busy or when two of them meet in the queue (scheduleTrail, drain).
EndIsSummarised ==
  \A s \in Sessions :
    s \in owed ~> (faults > 0 \/ total[s] = 0 \/ last[s] = total[s])
=============================================================================
