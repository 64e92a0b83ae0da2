------------------------------- MODULE Shares -------------------------------
(***************************************************************************)
(* Questions asked on a share, and the processes that answer them          *)
(* (share-service.ts, share-runner.ts, share-store.ts, share-routes.ts,    *)
(* share-server.ts).                                                       *)
(*                                                                         *)
(* The tables and the map of runners are keyed by share, so one share      *)
(* stands for all.  Every asker has a runner: an object in the map that    *)
(* keeps one claude process, restarts it when the session it resumes is    *)
(* gone, and settles the question it was given.  The listeners of a        *)
(* process stay attached after the runner has let go of it, so the lines   *)
(* a process printed before it ended may come in later: before its pipe is *)
(* drained the runner may already be busy with something else.             *)
(*                                                                         *)
(* A session is named by the process that opened it.                       *)
(***************************************************************************)
EXTENDS Naturals, Sequences, FiniteSets

CONSTANTS
  Askers,           \* the names questions are asked under
  MaxQuestions,     \* bound: questions asked
  MaxProcs,         \* bound: claude processes started
  MAX_STALE_RETRIES,
  MaxRestarts,      \* bound: restarts of the hub
  Owner,            \* the session the share pins
  Fresh,            \* a process that resumes nothing
  None

ASSUME SharesAssumption ==
  /\ MaxQuestions \in Nat /\ MaxProcs \in Nat /\ MaxRestarts \in Nat
  /\ MAX_STALE_RETRIES \in Nat
  /\ Owner # Fresh /\ None \notin {Owner, Fresh}
  /\ {Owner, Fresh, None} \cap Nat = {}

Questions == 1..MaxQuestions
Procs     == 1..MaxProcs

VARIABLES
  share,    \* hub_shares: the state of the share, or "deleted"
  request,  \* hub_share_requests
  forks,    \* hub_share_forks: the session stored for every asker
  runner,   \* the map of runners
  proc,     \* the claude processes, and what the CLI has done with them
  gone,     \* the sessions whose transcript no longer exists
  knocking, \* requests authorised, whose body is still being read
  up,       \* the hub runs
  restarts  \* how often it was restarted

vars == <<share, request, forks, runner, proc, gone, knocking, up, restarts>>

-----------------------------------------------------------------------------
(* Types *)

\* A share that has expired is open here: nothing happens when it expires, and
\* from then on nobody knocks.
Closed == {"paused", "revoked", "deleted"}

\* answer: the question the stored answer answers.  late: history, the share
\* was no longer open when the question was accepted.
Row == [status : {"none", "running", "completed", "failed", "deleted"},
        asker  : Askers \cup {None},
        answer : Questions \cup {None},
        late   : BOOLEAN]

Runner == [mapped     : BOOLEAN,
           child      : Procs \cup {None},
           pending    : Questions \cup {None},
           retries    : 0..MAX_STALE_RETRIES,
           initSeen   : BOOLEAN,
           sessionId  : Procs \cup {None},
           ownerStale : BOOLEAN]

\* "ended": it was killed or exited, and lines it had printed may still come in.
\* stray: history, one of those named its session before it had printed init.
Process == [state  : {"none", "alive", "ended", "closed"},
            asker  : Askers \cup {None},
            from   : Procs \cup {Owner, Fresh},  \* what it was told to resume
            stale  : BOOLEAN,                    \* which is gone
            inbox  : Seq(Questions),             \* sent, not yet answered
            inited : BOOLEAN,                    \* its init line has come in
            stray  : BOOLEAN]

NoRow     == [status |-> "none", asker |-> None, answer |-> None, late |-> FALSE]
NoRunner  == [mapped |-> FALSE, child |-> None, pending |-> None, retries |-> 0,
              initSeen |-> FALSE, sessionId |-> None, ownerStale |-> FALSE]
NoProcess == [state |-> "none", asker |-> None, from |-> Fresh, stale |-> FALSE,
              inbox |-> <<>>, inited |-> FALSE, stray |-> FALSE]

TypeOK ==
  /\ share \in Closed \cup {"active"}
  /\ request \in [Questions -> Row]
  /\ forks \in [Askers -> Procs \cup {None}]
  /\ runner \in [Askers -> Runner]
  /\ proc \in [Procs -> Process]
  /\ gone \subseteq Procs \cup {Owner}
  /\ knocking \subseteq Askers
  /\ up \in BOOLEAN
  /\ restarts \in 0..MaxRestarts

Init ==
  /\ share = "active"
  /\ request = [q \in Questions |-> NoRow]
  /\ forks = [a \in Askers |-> None]
  /\ runner = [a \in Askers |-> NoRunner]
  /\ proc = [p \in Procs |-> NoProcess]
  /\ gone = {}
  /\ knocking = {}
  /\ up = TRUE
  /\ restarts = 0

-----------------------------------------------------------------------------
(* Settling a question: finish resolves the promise, and the continuation   *)
(* in askShare writes the tables before anything else runs.                 *)

Exists(row) == row.status # "deleted"

\* Mutant of StoresFork: a share that was deleted meanwhile is not looked for.
StoresForkBlindly(row, answer) == answer.sessionId # None /\ answer.established

\* Mutant of StoresFork: whatever session was named last is stored.
StoresForkUnconfirmed(row, answer) == answer.sessionId # None /\ Exists(row)

StoresFork(row, answer) ==
  answer.sessionId # None /\ answer.established /\ Exists(row)

Failure(r) ==
  [ok |-> FALSE, of |-> None, sessionId |-> r.sessionId, established |-> r.initSeen]

Answered(q, answer) ==
  /\ forks' = IF StoresFork(request[q], answer)
              THEN [forks EXCEPT ![request[q].asker] = answer.sessionId] ELSE forks
  /\ request' = [request EXCEPT ![q].status = IF answer.ok THEN "completed" ELSE "failed",
                                ![q].answer = answer.of]

\* Nothing of the process is heard any more.
Over(process) == [process EXCEPT !.state = "closed", !.inbox = <<>>, !.stale = FALSE]

\* Mutant of Killed: the process is forgotten, not killed.
KilledNot(procs, p) == procs

Killed(procs, p) == IF p = None THEN procs ELSE [procs EXCEPT ![p].state = "ended"]

\* finish: r is the runner of a and procs the processes at the time of the call.
Finish(a, r, procs, answer, kill) ==
  IF r.pending = None
  THEN /\ runner' = [runner EXCEPT ![a] = r]
       /\ proc' = procs
       /\ UNCHANGED <<request, forks>>
  ELSE /\ runner' = [runner EXCEPT ![a] = [r EXCEPT !.pending = None,
                                             !.child = IF kill THEN None ELSE @]]
       /\ proc' = IF kill THEN Killed(procs, r.child) ELSE procs
       /\ Answered(r.pending, answer)

-----------------------------------------------------------------------------
(* Starting a process *)

Unused == {p \in Procs : proc[p].state = "none"}
NextProc == CHOOSE p \in Unused : \A other \in Unused : p <= other

Resumes(r) ==
  IF r.sessionId # None THEN r.sessionId
  ELSE IF r.ownerStale THEN Fresh ELSE Owner

\* spawnProcess, and the first question on its stdin.
Spawned(procs, a, r, q) ==
  [procs EXCEPT ![NextProc] =
     [NoProcess EXCEPT !.state = "alive", !.asker = a, !.from = Resumes(r),
                       !.stale = Resumes(r) \in gone, !.inbox = <<q>>]]

WithChild(r) == [r EXCEPT !.child = NextProc, !.initSeen = FALSE]

\* The session of a process: --resume keeps the one it resumes.
SessionOf(p) == IF proc[p].from \in Procs THEN proc[p].from ELSE p

CanRestart(r) == r.pending # None /\ r.retries < MAX_STALE_RETRIES

\* restartStale, whose child was killed or is gone already.
Restart(a, r, procs) ==
  LET dropped == [r EXCEPT !.retries = @ + 1, !.sessionId = None,
                           !.ownerStale = @ \/ r.sessionId = None] IN
  /\ Unused # {}
  /\ runner' = [runner EXCEPT ![a] = WithChild(dropped)]
  /\ proc' = Spawned(Killed(procs, r.child), a, dropped, r.pending)
  /\ UNCHANGED <<request, forks>>

-----------------------------------------------------------------------------
(* Requests to the share endpoint *)

\* The authorisation, before the body of the request has been read.
Knock(a) ==
  /\ up /\ share = "active" /\ a \notin knocking
  /\ knocking' = knocking \cup {a}
  /\ UNCHANGED <<share, request, forks, runner, proc, gone, up, restarts>>

\* Mutant of HasRunningAsk: only the questions of the same asker count.
HasRunningAskOf(a) == \E q \in Questions : request[q].status = "running" /\ request[q].asker = a

HasRunningAsk(a) == \E q \in Questions : request[q].status = "running"

NoRowYet == {q \in Questions : request[q].status = "none"}
NextQuestion == CHOOSE q \in NoRowYet : \A other \in NoRowYet : q <= other

\* runnerFor: a new runner adopts the fork stored for the asker.
RunnerFor(a) ==
  IF runner[a].mapped THEN runner[a]
  ELSE [NoRunner EXCEPT !.mapped = TRUE, !.sessionId = forks[a]]

AskRefused(a) ==
  /\ up /\ a \in knocking /\ HasRunningAsk(a)
  /\ knocking' = knocking \ {a}
  /\ UNCHANGED <<share, request, forks, runner, proc, gone, up, restarts>>

\* askShare: the row, the runner and the question it is given, or the answer
\* that another question is being answered.
Ask(a) ==
  LET q    == NextQuestion
      r    == RunnerFor(a)
      asks == [r EXCEPT !.pending = q, !.retries = 0]
      row  == [NoRow EXCEPT !.status = "running", !.asker = a, !.late = (share # "active")]
  IN
  /\ up /\ a \in knocking /\ ~HasRunningAsk(a) /\ NoRowYet # {}
  /\ knocking' = knocking \ {a}
  /\ IF r.pending # None
     THEN /\ request' = [request EXCEPT ![q] = [row EXCEPT !.status = "failed"]]
          /\ UNCHANGED <<runner, proc>>
     ELSE /\ request' = [request EXCEPT ![q] = row]
          /\ \/ /\ r.child = None /\ Unused # {}
                /\ runner' = [runner EXCEPT ![a] = WithChild(asks)]
                /\ proc' = Spawned(proc, a, r, q)
             \/ /\ r.child # None
                /\ runner' = [runner EXCEPT ![a] = asks]
                /\ proc' = [proc EXCEPT ![r.child].inbox = Append(@, q)]
  /\ UNCHANGED <<share, forks, gone, up, restarts>>

-----------------------------------------------------------------------------
(* What a process does, as its runner hears of it *)

\* Its runner is still in the map; of one that is not nothing more is heard.
Heard(p) == up /\ proc[p].state \in {"alive", "ended"}

\* The output of a process that is gone has been read to the end.
Drained(procs, p) ==
  IF procs[p].state = "ended" THEN [procs EXCEPT ![p] = Over(@)] ELSE procs

\* The processes once a line of p that names its session has come in.
Noted(p) ==
  [proc EXCEPT ![p].stray = @ \/ (proc[p].state = "ended" /\ ~proc[p].inited)]

\* A line that is neither init nor a result, as the hooks cause one before
\* init: handle takes the session from any line, whoever prints it.
Names(p) ==
  LET a == proc[p].asker IN
  /\ Heard(p) /\ ~proc[p].stale
  /\ runner[a].sessionId # SessionOf(p)
  /\ runner' = [runner EXCEPT ![a].sessionId = SessionOf(p)]
  /\ proc' = Noted(p)
  /\ UNCHANGED <<share, request, forks, gone, knocking, up, restarts>>

\* The init line.  A runner that has another process by now takes it for the
\* init line of that one.
Inits(p) ==
  LET a == proc[p].asker IN
  /\ Heard(p) /\ ~proc[p].stale /\ ~proc[p].inited
  /\ proc' = [Noted(p) EXCEPT ![p].inited = TRUE]
  /\ runner' = [runner EXCEPT ![a].sessionId = SessionOf(p), ![a].initSeen = TRUE]
  /\ UNCHANGED <<share, request, forks, gone, knocking, up, restarts>>

\* A result line.  Nothing tells handle which question it belongs to.
Result(p, ok) ==
  LET a     == proc[p].asker
      r     == [runner[a] EXCEPT !.sessionId = SessionOf(p)]
      procs == Drained([Noted(p) EXCEPT ![p].inbox = Tail(@)], p)
      of    == IF ok THEN Head(proc[p].inbox) ELSE None
  IN
  /\ Heard(p) /\ ~proc[p].stale /\ proc[p].inbox # <<>> /\ (ok => proc[p].inited)
  /\ Finish(a, r, procs, [ok |-> ok, of |-> of, sessionId |-> r.sessionId,
                          established |-> r.initSeen], FALSE)
  /\ UNCHANGED <<share, gone, knocking, up, restarts>>

\* A result line saying that the session does not exist.
StaleResult(p) ==
  LET a     == proc[p].asker
      r     == runner[a]
      procs == Drained([proc EXCEPT ![p].inbox = <<>>], p)
  IN
  /\ Heard(p) /\ proc[p].stale /\ proc[p].inbox # <<>>
  /\ IF CanRestart(r) THEN Restart(a, r, procs)
     ELSE Finish(a, r, procs, [Failure(r) EXCEPT !.sessionId = None, !.established = FALSE], TRUE)
  /\ UNCHANGED <<share, gone, knocking, up, restarts>>

\* The exit event of a process the runner still has.  saysStale: it was heard
\* on its standard error that the session does not exist.
Exits(p, saysStale) ==
  LET a     == proc[p].asker
      r     == [runner[a] EXCEPT !.child = None]
      procs == [proc EXCEPT ![p].state = "ended"]
  IN
  /\ Heard(p) /\ runner[a].child = p
  /\ saysStale => proc[p].stale
  /\ IF saysStale /\ ~r.initSeen /\ CanRestart(r) THEN Restart(a, r, procs)
     ELSE Finish(a, r, procs, Failure(r), FALSE)
  /\ UNCHANGED <<share, gone, knocking, up, restarts>>

\* The callback of stdin.write reports an error: the process had ended.
SendFails(p) ==
  LET a     == proc[p].asker
      procs == [proc EXCEPT ![p].inbox = <<>>]
  IN
  /\ Heard(p) /\ proc[p].inbox # <<>>
  /\ Finish(a, runner[a], procs, Failure(runner[a]), TRUE)
  /\ UNCHANGED <<share, gone, knocking, up, restarts>>

\* The pipe of a process that ended closes without another line.
Closes(p) ==
  /\ proc[p].state = "ended"
  /\ proc' = [proc EXCEPT ![p] = Over(@)]
  /\ UNCHANGED <<share, request, forks, runner, gone, knocking, up, restarts>>

-----------------------------------------------------------------------------
(* Timers *)

Timeout(a) ==
  /\ up /\ runner[a].pending # None
  /\ Finish(a, runner[a], proc, Failure(runner[a]), TRUE)
  /\ UNCHANGED <<share, gone, knocking, up, restarts>>

\* What becomes of the processes of the runners that leave the map.
Unmapped(as) ==
  [p \in Procs |-> IF \E a \in as : /\ proc[p].asker = a
                                    /\ proc[p].state = "ended" \/ runner[a].child = p
                   THEN Over(proc[p]) ELSE proc[p]]

\* armIdle: the process is killed, and the runner leaves the map.
Idle(a) ==
  /\ up /\ runner[a].mapped /\ runner[a].pending = None
  /\ runner' = [runner EXCEPT ![a] = NoRunner]
  /\ proc' = Unmapped({a})
  /\ UNCHANGED <<share, request, forks, gone, knocking, up, restarts>>

-----------------------------------------------------------------------------
(* The owner of the share, and the hub *)

\* Mutant of KillRunners: only the processes that answer a question.
KillRunnersBusy ==
  LET busy == {a \in Askers : runner[a].pending # None} IN
  /\ runner' = [a \in Askers |-> IF a \in busy THEN NoRunner ELSE runner[a]]
  /\ proc' = Unmapped(busy)

\* killRunners, for every runner of the share.
KillRunners ==
  /\ runner' = [a \in Askers |-> NoRunner]
  /\ proc' = Unmapped(Askers)

\* Mutant of Aborts: kill drops the question without settling it.
AbortsNothing(rows, stored) == request' = rows /\ forks' = stored

\* The continuations of the killed runners run after the handler, on the
\* tables it leaves: the question fails, and a session that was established
\* is kept.
Aborts(rows, stored) ==
  LET Pending(a) == runner[a].pending
      aborted    == {a \in Askers : Pending(a) # None}
  IN
  /\ request' = [q \in Questions |->
       IF (\E a \in aborted : Pending(a) = q) /\ Exists(rows[q])
       THEN [rows[q] EXCEPT !.status = "failed"] ELSE rows[q]]
  /\ forks' = [a \in Askers |->
       IF a \in aborted /\ StoresFork(rows[Pending(a)], Failure(runner[a]))
       THEN runner[a].sessionId ELSE stored[a]]

\* PATCH /shares/:id with paused or revoke.
Close(state) ==
  /\ up /\ share # "deleted" /\ (share = "revoked" => state = "revoked")
  /\ share' = state
  /\ KillRunners /\ Aborts(request, forks)
  /\ UNCHANGED <<gone, knocking, up, restarts>>

\* PATCH /shares/:id with paused = false.
Reopen ==
  /\ up /\ share = "paused"
  /\ share' = "active"
  /\ UNCHANGED <<request, forks, runner, proc, gone, knocking, up, restarts>>

\* DELETE /shares/:id: the rows are gone when the continuations of the killed
\* runners run.
Delete ==
  /\ up /\ share # "deleted"
  /\ share' = "deleted"
  /\ KillRunners
  /\ Aborts([q \in Questions |-> IF request[q].status = "none" THEN NoRow
                                  ELSE [request[q] EXCEPT !.status = "deleted"]],
            [a \in Askers |-> None])
  /\ UNCHANGED <<gone, knocking, up, restarts>>

\* A transcript is deleted.
Vanish(s) ==
  /\ s \notin gone /\ (s = Owner \/ \E a \in Askers : s = forks[a])
  /\ gone' = gone \cup {s}
  /\ UNCHANGED <<share, request, forks, runner, proc, knocking, up, restarts>>

\* shutdown: abortAllAsks; requests are still served until the hub exits.
Shutdown ==
  /\ up
  /\ KillRunners /\ Aborts(request, forks)
  /\ UNCHANGED <<share, gone, knocking, up, restarts>>

\* The hub is gone: the processes lose their standard input and end.
Crash ==
  /\ up /\ restarts < MaxRestarts
  /\ up' = FALSE
  /\ restarts' = restarts + 1
  /\ runner' = [a \in Askers |-> NoRunner]
  /\ proc' = [p \in Procs |-> IF proc[p].state = "none" THEN proc[p] ELSE Over(proc[p])]
  /\ knocking' = {}
  /\ UNCHANGED <<share, request, forks, gone>>

\* markInterruptedShareRequests and deleteOrphanShareForks.
Boot ==
  /\ ~up
  /\ up' = TRUE
  /\ request' = [q \in Questions |->
       IF request[q].status = "running" THEN [request[q] EXCEPT !.status = "failed"]
       ELSE request[q]]
  /\ forks' = IF share = "deleted" THEN [a \in Askers |-> None] ELSE forks
  /\ UNCHANGED <<share, runner, proc, gone, knocking, restarts>>

-----------------------------------------------------------------------------
Prints(p) ==
  \/ Names(p) \/ Inits(p) \/ StaleResult(p) \/ SendFails(p) \/ Closes(p)
  \/ \E ok \in BOOLEAN : Result(p, ok)
  \/ \E saysStale \in BOOLEAN : Exits(p, saysStale)

Next ==
  \/ \E a \in Askers : Knock(a) \/ AskRefused(a) \/ Ask(a) \/ Timeout(a) \/ Idle(a)
  \/ \E p \in Procs : Prints(p)
  \/ \E s \in Procs \cup {Owner} : Vanish(s)
  \/ Close("paused") \/ Close("revoked") \/ Reopen \/ Delete
  \/ Shutdown \/ Crash \/ Boot

Spec == Init /\ [][Next]_vars

-----------------------------------------------------------------------------
(* Properties *)

\* A question is on record as running exactly as long as a runner is busy with
\* it: what is not would be refused as "another question is being answered"
\* for ever, and a runner busy with anything else would refuse what follows.
RunningIsPending ==
  up => \A q \in Questions :
    request[q].status = "running" <=> \E a \in Askers : runner[a].pending = q

\* One question at a time on a share, whoever asks.
OneQuestionAtATime ==
  Cardinality({a \in Askers : runner[a].pending # None}) <= 1

\* No process outlives its runner's interest in it: whatever is alive is the
\* child of a runner in the map, which the idle timer or the owner can end.
NoStrayProcess ==
  \A p \in Procs : proc[p].state = "alive" =>
    \E a \in Askers : runner[a].mapped /\ runner[a].child = p

\* "The fork id is only stored once the CLI confirmed it (init)": the process
\* of every stored fork has printed its init line, unless a line of a process
\* that had ended before its own init was taken for one of its successor.
ForkWasConfirmed ==
  \A a \in Askers : forks[a] # None =>
    \E p \in Procs : \/ proc[p].inited /\ SessionOf(p) = forks[a]
                     \/ proc[p].stray /\ proc[p].asker = a

\* A share that was deleted keeps no fork, unless a question that had been
\* authorised before was accepted after the deletion.
DeletedKeepsNoFork ==
  share = "deleted" => \A a \in Askers : forks[a] # None =>
    \E q \in Questions : request[q].asker = a /\ request[q].late

\* Pausing, revoking and deleting stop every process of the share; only a
\* question that had been authorised before can start one again.
QuietWhenClosed ==
  share \in Closed => \A p \in Procs : proc[p].state = "alive" =>
    \E q \in Questions : request[q].asker = proc[p].asker /\ request[q].late

\* What a caller gets is the answer to the question it asked.
AnswersItsQuestion ==
  \A q \in Questions : request[q].answer \in {None, q}
=============================================================================
