# TLA+ models of the CC Hub

The hub (`apps/server`) is one Node process with an SQLite store and a vault of markdown
files. It watches coding sessions, delegates tasks to agents it spawns, shares workspaces with
people outside, and keeps a second brain: a tasks board, a note of the day, a trail of what the
sessions did. This directory models the parts of it in which several actors meet (clients,
windows, agents, timers, `git`, `ngrok`, a small model, a restart of the hub itself), checks them
with TLC and proves most of the safety properties with TLAPS for every number of actors.

`PROJECT.json` lists the components, the runs, the mutants each property was tested against,
the source lines every definition stands for, the hazards and the theorems.

## How the code runs, and what a step is

JavaScript is single-threaded, so a handler, a timer callback or a promise continuation runs
without interruption up to its next `await`. SQLite calls are synchronous. **One action of a
model is one such stretch**, with every call that changes state included; what happens between
two stretches of the same handler is any interleaving of the others. The exceptions are where
a crash matters: the process may die between two transactions of one stretch (`DelegateCut` in
`Delegation`, `Crash` in `ShareTasks`) or between the two files of a move (`Board`). Microtasks
(the `.then` of a promise that was resolved) run before any other callback, so a promise chain
without real waiting in it belongs to the step that resolves it. Where a failure between two of its
transactions matters, the chain is two steps and the handlers wait for the second (`Catch` in
`Delegation`).

## Inventory

| Component | State | Operations | What is hard | Modelled by |
| --- | --- | --- | --- | --- |
| Delegated tasks and runs (`delegation-launch`, `delegation-store`, `executor`, `task-ports`, task routes) | `hub_tasks`, `hub_runs`, the map `activeRuns`, child processes | delegate, generate the daily note, continue, cancel, archive, timeout, settle, boot | a crash between two transactions, a verdict racing with an abort, a store that fails while a run is settled, decisions taken from a list of other tasks | `TaskLedger`, `Delegation` |
| Worktrees (`worktrees`, merge and discard routes) | `mergeLocks`, git worktrees and branches | merge, discard | every git command is an `await`; agents, other requests, users and a restart come in between | `Worktrees` |
| Share asks and runners (`share-service`, `share-runner`, `share-store`) | `hub_shares`, `hub_share_requests`, `hub_share_forks`, the map of runners, one process per asker | ask, pause, revoke, delete, idle and question timers | output of a process that was given up, sessions that no longer resume, questions authorised before a share was closed | `Shares` |
| Share implementations (`share-service`, `delegation-launch`) | a request row beside a task | implement, poll | two tables changed by two transactions, a row only a poll settles | `ShareTasks` |
| Sessions, hooks, claims (`index`, `db`, `live`, `hooks/notify.mjs`) | `sessions`, `agents`, `claims`, a file per session in the hook script | hook events, claim and release, sweep of dead processes | late, repeated, lost and reordered hook events | `Sessions` |
| Daily note (`daily`, `DailyView`, `daily-sync`) | one markdown file, hashes of the hub's own writes in memory, a copy in every window | load, save, tick a box, file system events, synchronisation with the board | optimistic writes with stale bases, an echo of the hub's own write taken for an edit | `Notes` |
| Tasks board (`tasks-board`) | markdown files, one per project, whose families of tasks exist only as indentation | status and recurrence, create, note, move, promote, reparent, move to another project, sweep | blocks cut, copied and indented anew among lines that are not theirs; two files written by one request | `Board` |
| Trail (`trail`, `transcript`, `second-brain`) | a queue, a checkpoint per session, blocks in the file of the day | enqueue, summarise window by window, checkpoint | state read before a call to a model and used after it; a crash before the checkpoint | `Trail` |
| Tunnel (`tunnel`) | one child process, its address, a generation, a pid file | start, stop, install, close leftovers | a start that is overtaken by a stop or by another start at every `await` | `Tunnel` |
| Limits (`limits`) | the last answer per provider, backoff times, one refresh in flight | poll, refresh, change of settings | joining a refresh that was started under other settings | - |
| Usage (`usage`, usage routes) | a parser and a count per transcript, in memory and in a file; a queue of scans | scan, rescan, write the cache | transcripts that grow while they are read, parsers that are resumed | `Usage` |
| Codex sessions (`codex-*`) | titles and archives | list | - | - |
| Other views of the UI (`apps/ui`), desktop, editor extension, landing page | copies of the hub's state | rendering | layout | - |
| Hook guard, installers, MCP adapter, configuration | none | short-lived | - | - |

Tasks start agents, agents report through hooks as sessions; the daily note starts a task; a
share starts tasks too and reads a task's end in the promise chain of its run; pausing,
revoking or deleting a share aborts runs and runners; a tick in the note of the day sets a status
on the board and a status on the board ticks the box; the end of a session feeds the trail. All of
them publish through one event stream.

What makes each of them correct: a task has one run in flight and a verdict that stays;
every agent can be reached by cancel; tasks launched side by side do not share ports or a
checkout. A merge loses no work and cleans up. A question is settled once and a closed share is
silent. One implementation at a time works for a share, and the next one is not refused for ever.
A claim belongs to a living session. A note never loses an edit of the vault nobody was told
about. No operation on the board tears a family apart or loses a line. A turn is summarised
once. A message counts once, however its transcript was read. The tunnel is open only if the last command was to open it.

## Modules

| Module | Models | Proofs |
| --- | --- | --- |
| `TaskLedger` | abstract: per task at most one open run, closed once with a verdict that stays | |
| `Delegation` | tasks, runs, controllers, agents; implements `TaskLedger` | `DelegationProofs` |
| `Worktrees` | merge and discard between git commands | `WorktreesProofs`, `SharesProofs` |
| `Shares` | questions, runners, processes and forks of a share | `SharesProofs` |
| `ShareTasks` | implementation requests and the tasks they follow | `CommandsProofs` |
| `Sessions` | sessions, their processes, subagents and claims, as hooks and sweeps tell of them | `SessionsProofs` |
| `Notes` | the note of the day between windows, vault, board and hub | `NotesProofs` |
| `Board` | the files of the tasks board | `BoardProofs`, `NotesProofs` |
| `Trail` | the summaries of sessions | `CommandsProofs` |
| `Tunnel` | starts, stops and processes of the tunnel | `CommandsProofs` |
| `Usage` | what is counted of transcripts that grow | `UsageProofs`, `NotesProofs` |

`MCDelegation`, `MCWorktrees`, `MCShares`, `MCSessions` and `MCNotes` only define symmetry sets
or small values. `MCCommands`, `MCRequests` and `MCVault` put several parts into one instance:
`MCCommands` is `Worktrees`, `Tunnel`, `ShareTasks` and `Trail`, `MCRequests` is `Shares` and
`Worktrees`, `MCVault` is `Notes`, `Board` and `Usage`. The parts of one instance share no state in the
code: a behaviour belongs to one part, chosen in the initial state, and the others stay as they
are. It is the sum of the parts, not their product: every state and every step of each part is
there, none of any two at once.

### Delegation

`task` and `run` are the two tables and survive `Crash`; `activeRuns` and the promise chains die
with the hub; `child` holds the agents, which may become orphans. The column `updated_at` is
kept as `newer`, the tasks more recently updated than a task, since `listTasks` orders by it and
cuts at `ListLimit`. The column `seq` is kept as `earlier`, the runs a run exceeds. A session is
named by the run that opened it.

`Delegate` is `delegateTask` with the choice of isolation (`ResolveIsolation`, `RepoBusy`), the
creation of the worktree (which fails outside `GitRepos`), the port block, `createTask` and
`startRun`; `DelegateCut` is the crash between `createTask` and `beginRun`. `GenerateDaily` is
`generateDaily` with `createInternalTask`. `Continue` is the continue route. Each of the three starts
a run with one of `Agents`: a spawned one, or none (`Unspawned`) when `startRun` throws once the run and
its controller are there, as it reads the timeout and the claims of the repository.

The promise chain of a run is one of five actions. `Finish` is the `.then`. `FinishCaught` is a
`.then` that throws before its `finishRun` has committed, and the `.catch` that settles the run as failed.
`FinishLost` is `finishRun` throwing in both, which leaves the run on record as running. `FinishThrows` is
a `.then` that stores its verdict and throws in `endRunSession` or `finishShareRequestByTask`; `Catch`
is the `.catch` that follows it, whose `finishRun` looks at no status and overwrites the verdict with
`failed`, or throws and leaves it. Between these two the hub is `settling`: handlers and timers wait, a
crash may come. Each ends with the `.finally`, which drops the controller. `Boot` is
`markRunningAsInterrupted`.

Not modelled: prompts, results and errors (no property is about them), the event log of a run,
the reports and notes, titles and reorderings.

### Worktrees

The tasks are those of one repository with one base branch. A request holds the git command it
waits for (`step`); an action is that command together with the stretch of the handler that
follows. `baseAt` says where the base branch is checked out: the main checkout, another
worktree of the user, the temporary `_merge-` worktree of a task, or nowhere. A branch is a
number of commits, of which the base has the first `landed`. A restart forgets the lock and
the handlers; the git commands they had begun still come to their end (`live`). A merge removes
the temporary worktree that it added (`tmp`) and no other: one that a dead hub left behind is found by
`findWorktreeOnBranch`, merged into, and stays.

Not modelled: a user who switches branches between two git commands of a merge in flight; a
main checkout that cannot be resolved any more; `git worktree remove` failing on a folder another
program holds open; the bootstrap of a new worktree.

### Shares

One share stands for all, because tables and runners are keyed by share. `request` and `forks`
are tables; `runner` is the map of runners, keyed by asker; `proc` holds the claude processes.
A process that was killed or has exited is `ended`: its listeners are still attached, and whatever
it had printed may still come in (`Names`, `Inits`, `Result`, `StaleResult`, `SendFails`), until it is
`closed`. `handle` does not ask who printed a line, so a late one counts for the process that is current.
`stray` is a history variable: a process that had ended named its session before its own `init` had come in.
The content of an answer is the question it answers. `knocking` holds the requests that were
authorised and whose body is still being read: `askShare` runs later, on the share record read
before. The continuation of an answer (`Answered`, `Aborts`) is a microtask: it runs in the step
that settles the question, after the rest of the handler that did.

The process is external. It is modelled by what the code reads of it: lines that name a session,
the `init` line, results, the report that a session does not exist (on its output or its standard
error), the exit. Nothing is assumed of the order in which the output of two processes comes in: Node
may emit `exit` before a pipe has been read.

Not modelled: the quota per hour (it only refuses), the expiry (from then on nobody knocks), keys,
files, the text stream, a spawn that throws instead of reporting an error, a store that fails in the
continuation of an answer (the row of the question then stays running until a restart).

### ShareTasks

The two tables a share's implementation lives in: the row of the request (`request`) and the task
it follows (`task`, with `active` for its entry in `activeRuns`). `Implement` is `implementShare`,
after an authorisation (`Knock`) that may be older than a pause, a revocation or a deletion:
`delegateTask` begins the run (`Delegate`), then `createShareRequest` writes the row. `ImplementThrows` is
either of them throwing once the run is begun, with its agent launched or not: the task is `bare`, it has
no row.
`Ends` is the promise chain with `finishRun` and then `finishShareRequestByTask`; `EndsBadly` is
one of the two throwing, `Crash` the hub dying anywhere, also between them, and booting:
`markRunningAsInterrupted` settles tasks and questions, not implementations, whose row is only
settled by the next `Poll` (`remoteTaskView`). `Continue` is the owner carrying on with the task.

What a run does, its ports, sessions and worktrees are left to `Delegation` and `Worktrees`. The
quota, uploads and the texts of the views are not modelled.

### Sessions

Two sides that share nothing but posts. On Claude's side `proc` holds the claude processes and the
session open in each, `pids` the files in which `notify.mjs` remembers the process of a session,
`post` the hook script under way in each process (and in each subagent, whose hooks run beside
those of its session), and `workers` the detached workers that look for the process and post
`meta`. On the hub's side `row`, `agent` and `claim` are the tables; `updated_at` is kept as
`newer`, the sessions updated after a session, because `sessionByPid` orders by it. A session is
`live` or `ended`: which of active, waiting and idle it is changes nothing here.

`Hook` is `POST /hook` with `applyHook`, or `POST /hook/raw` for a session in WSL, which knows no
process and releases no claims; `Lost` is a script that gave up after its two seconds. Either way
the script then starts its worker (`Done`), whose `meta` is `Worker`, `HostInfo` and `Meta`.
`SweepDead` is the 30-second timer: `endDeadSessions` and the claims of what it ended.
`EndRunSession` is the settling of a delegated run whose process (`HubProcs`) has closed.
`CreateClaim` is `POST /api/claims`: a caller names a session, which the hub need not know, or a process
id, for which the hub may know a session or none. `named` is a history variable: the claims made in
the name of a session.
The file of a session is good as long as its window is open, so `CloseWindow` empties the files
and ends the processes of the window at once. `heard` is a history variable: the processes of
which a hook has arrived since they opened their session.

Assumed: a process id is not given to another program, all terminals share one window, and a
process that is found is found as the `claude` process itself (the fall-back to the process id of
the shell or the window only makes a session live longer). The statements of `endSession` are not in a
transaction (`db.ts:522-531`) and run in one stretch; that one of them fails, or the hub dies between two,
is not modelled. Nor are: `CLAUDE_PID` in the
environment, hosts other than Windows (nothing is looked up there), inline hooks, the times of
`HUB_STALE_HOURS` and of a claim's expiry (a claim may expire at any time: `ReleaseClaim`), a
crash of the hub between the transaction of a sweep and the release of the claims.

### Notes

The note of one day, as one file (`file`: its text, when and by whom it was written). A text is a
number, of which `marks` knows whether the box of the task in it is ticked; times are the numbers
of the writes. `hub` is what `daily.ts` remembers of its own last write (`lastHubHash`,
`lastServerWriteAt`) and loses with a `Restart`; `watch` is the pending call of
`handleDailyFsEvent`. `editor` is the state of a window (`DailyView.tsx`): what it shows, what it
believes to be saved, the time it is based on, a conflict, an event put off while it saves. `net`
holds requests and answers of a window under way, in no order; `stream` the events on their way to
it, in order, lost when the stream breaks (`Drop`). `board` is the status of the task.

`Accept` is `PUT /daily/:date` with `writeDaily` and `syncTasksFromDaily`, `Refuse` its 409.
`BoardWrite` is a status set on the board with its mirror in the note. `VaultEdit` is anything
else that writes the file. `Type`, `AutoSave`, `Toggle`, `KeepMine` and `Reload` are the user and
the timers of the view; `Saved`, `NotSaved`, `Refused`, `Loaded` the continuations of its requests,
`Receive` and `Resolve` the decision on an event (`daily-sync.ts`, `resolvePendingEvent`).
`Reconnect` loads the note again only if the hub had counted as offline.

Not modelled: organising the focus, composing the note and closing yesterday's, recurring, held
and nested lines of the focus, how a line is matched to its task, two writes in the same
millisecond, a client that sends no base, the cap of fifty remembered write ids, a failing `GET`,
the probes and thresholds of the offline detection.

### Board

A file is the lines of its open and of its done section; a line has an item (what it says), an
indentation, a status and a stamp (the date a finished line ends in). Families of tasks, subtasks
and notes exist in the indentation only: `BlockEnd`, `Parent`, `Above`, `TopOf` read them as the
parser does. Operations name a line by number and text and are refused when the file does not
have it there, so one that is accepted acts on a line as it is.

`WriteStatus` is the status write with everything it brings: subtasks, the copy a recurring task
leaves behind, the stamp, the move between the sections. `Create`, `AddNote`, `DeleteNote`,
`Move`, `Promote`, `Reparent`, `MoveToProject` and `Sweep` are the routes of the same names.
`MoveToProject` writes two files: the first write may be undone when the second fails, the undo may
fail, and the hub may die in between. `VaultTicks` is the user ticking a box with another
program; `Sweep` then finds it.

Not modelled: the layout of markdown (headings, blank lines, fences, placeholders), titles,
priorities and dates, the guards `ensureRelations` and `ensureLinesKept` (they only refuse),
delegation of a task, links by matching texts.

### Trail

`total` counts the turns of each transcript, `told` how often the block of a session in the file
of each day tells a turn. `queue`, `woken` and `work` are the serial worker: `Schedule` merges a
trigger with one that waits for the same session (forced, and the end of a session, win), `Drain`
takes the next job, `Read` reads transcript, checkpoint and block, `ModelAnswers` is one window,
`WriteBlock` the write through the queue of `second-brain.ts`, `Checkpoint` the row of
`trail_state`. `ModelFails` and `WriteFails` are the error paths; `Crash` loses the queue;
`Midnight` changes the file.

Not modelled: the contention of several processes for the lock of the file, a write torn by a
crash, edits of a block by the user during a summary, rewriting a block over its cap, the
settings that turn the trail off, the texts, and a store that fails as `saveTrailState` writes the
checkpoint: the block is then written and its turns are told again by the next pass, as after a crash.

### Tunnel

`state`, `child` and `generation` are `runtime`; `call` is where each `startTunnel` is: installing,
listing processes, closing them one by one, waiting for the one it has started. `proc` holds the
ngrok processes with the hub that started each; `pidfile` and `reap` are what the next hub finds
after a crash. `wanted` is history: whether the last command was a start. An event of a process
(`Address`, `Event`) may come when its hub has moved on to another one. `Deadline` is the fifteen
seconds of a start, `Quit` an orderly end of the hub, `Crash` any other.

Not modelled: the settings, the log lines kept for the interface, ngrok processes of somebody else
(the code closes them as well), `spawn` or the write of the pid file throwing once the state is
`starting` (`tunnel.ts:440-443`): nothing then takes the tunnel out of that state but a stop.

### Usage

A transcript (`log`) is its lines; `size` is how much of it is written, in thirds of a line: a part
that does not parse, the line without its newline, the newline. `cuts` are the places a write may
end. `cache` is `fileCache`: for each file the size the listing had seen (`size`), how far it was
read (`offset`), what was made of it (`kept`: records and meta) and the parser (`live`), which
dies with the hub. `Feed` is the feeding of the lines between two offsets to the two parsers:
messages of Claude replace those of the same id, counts of Codex are dropped when the total
repeats. `queue` is the chain of scans together with `inflight`; its head is the scan under way
(`scan`). `StartScan` takes the listing, `SkipFile`, `ReadFile` and `ReadFails` are `refresh`,
`EndScan` prunes; `Deliver` are the callers going on (`compute`, the rescan route), by which time
the next scan may have dropped the cache, which is what the generation is for. `responses` keeps of
`responseCache` the generation. `StartWrite`, `EndWrite` and `WriteFails` are the writes of the
cache file, which replace it as a whole. `torn` is history: a parser was fed by a failed read.

Not modelled: the aggregation by day, project and model, the window of days of a record, the cut
at 45 days, a file that is touched without growing (it is read anew) or replaced by another.
`failures` of the route is left out: a scan never rejects.

## Runs

| Run | Bounds | Shows |
| --- | --- | --- |
| `delegation_runs` | 2 tasks, 2 runs, a git and another repository, clients that ask for a worktree or for nothing, 2 port blocks, a date, failing store and launches, crashes | `OneRunInFlight`, `TaskFollowsLastRun`, `NoLostAgent`, `RunningIsCancellable`, `AbortIsFinal`, `VerdictsStand`; what a launch decides from the tasks in flight: `LaunchedPortsDistinct`, `LaunchedApart`, `OneDailyGeneration`; and that `Delegation` implements `TaskLedger` (`KeepsLedger`) |
| `delegation_live` | 2 tasks, 2 runs, both runners, archiving | `EveryRunEnds`, `AbortTakesEffect` under fairness, `RemembersSession` |
| `commands` | one of: 2 tasks, 1 request and a restart (`Worktrees`); 2 starts at a time, 2 processes, 3 starts and stops, 2 hubs (`Tunnel`); 2 tasks, 1 continuation, 2 faults (`ShareTasks`); 1 session, `MaxTurns` of 4 turns, 1 of them silent, windows of 1 turn, 2 windows a trigger, 2 days, 1 fault (`Trail`) | `PublicOnlyAsAsked`, `OneImplementation`, `TurnsOnce`, `NoTurnSkipped`, and under fairness `NeverWedged`, `StartSettles`, `RequestSettles`, `EndIsSummarised` |
| `requests` | one of: 2 askers, 2 questions, 3 processes, a restart (`Shares`); 2 tasks, one conflicting, 2 requests, a restart (`Worktrees`) | `RunningIsPending`, `OneQuestionAtATime`, `NoStrayProcess`, `ForkWasConfirmed`, `DeletedKeepsNoFork`, `QuietWhenClosed`; `MergesAlone`, `MergedIsSafe`, `NothingLeftBehind` |
| `sessions_end` | 1 session with a subagent and a claim, 2 processes, one of them delegated, 3 posts and workers under way | `EndStopsAgents`, `EndReleasesClaims`, and `CountsStayHonest` under fairness |
| `vault` | one of: 2 windows, 3 texts and writes, 1 fault (`Notes`); every tree of four lines with a repeating task, a note and subtasks, in 2 files, 2 operations, 1 fault (`Board`); a transcript of 3 lines in 2 writes, 3 requests, a restart, 1 fault (`Usage`) | `BlindOnlyOverWindows`, `BoxesMeant`; `NothingLost`, `FamiliesKept`, `OccurrencesKept`; `CountsOnce` |
| `delegation_ports` | 2 tasks, 3 runs | finding: `ParallelTasksNeverCollide` is violated by `Continue` |
| `delegation_resume` | 1 task, 3 runs | finding: `ContinueResumes` is violated after a crash |
| `worktrees_discard` | 1 task, 1 request | finding: `WorktreeOutlivesRun` is violated |
| `shares_late` | 2 askers, 2 questions, 3 processes | finding: `AnswersItsQuestion` is violated |
| `sessions_resume` | 2 sessions, 2 processes, 2 posts and workers under way | finding: `LiveOnesLeftAlone` is violated |
| `vault_stale` | 2 windows, 4 texts and writes, no faults | finding: `VaultEditsStand` is violated |

Why the bounds are enough. Two tasks are what every property of the launch relates; what depends
on longer chains of runs is proved for any number of them. Two port blocks suffice for two tasks,
and the list limit of 2 keeps every task in the list (the real one is 500: beyond 500 tasks updated
more recently, a running task would no longer count). Two merges can only meet in a lock and a
checkout, and one of each kind of branch is present. Two questions of two askers with three
processes cover a question that restarts after a first one that stored the fork; the longest chain (a fork
that is gone, an owner's session that is gone, a fresh session) takes a fourth process and is left to
the theorems, which have any number. A client that asks for the shared checkout, as the theorems have it, is
left out of `delegation_runs`: such a task is exempt from `LaunchedApart`. Sessions meet only in
processes and claims, so one session that moves from a process to another, delegated or not, with
three posts on their way to overtake each other, has what the three properties relate. A start of
the tunnel can be overtaken by a stop and another start within three generations, and one hub
can leave a process for the next. Two faults let a transaction fail and the hub die for the same
implementation. Four turns, the first without text, are more than the two windows of a trigger can
tell, so that capped, failing and complete passes follow each other, and one midnight falls
between any two of their steps. Three writes of a note are a write that a window has not heard of,
one over it and the save in question; the theorems have any number. Four lines are a task with a
note and two more, at every depth, so that each operation meets lines above, below and beside its
block; a second operation acts on what the first one left. Three
scans are a first read, one that fails and one that resumes; a restart may come between any of
them, and the write that ends within a line, before its newline or after it is there for each
kind of parser's state. Except for `FamiliesKept` of
the board, the safety properties are proved without these bounds (see below). The runs with liveness properties use no symmetry.

Every run has `CHECK_DEADLOCK FALSE`: a run may end with all identifiers used up, and a hub where
nothing is asked for does nothing.

### Fairness

`Delegation`: the timeout of a run fires if one is set, an agent that was sent a signal closes
and its close settles the run, a promise chain goes on to its end, and a hub that is down is started
again. An agent that is not
aborted need never end. `Worktrees`: a git command ends; an agent ends; a client that is refused
because of the lock asks again (strong fairness: the lock is free again and again). `Sessions`: the
interval timer of the sweep fires, a hook script ends within its two seconds, a worker ends;
nothing is assumed of a process, which need never exit, nor of a post, which need never arrive.
`ShareTasks`: a run ends, at the latest by its timeout, and an asker polls its task as the
document of the share tells it to. `Tunnel`: an installation, a list of processes, the closing of
one and a start are each given up after the times in the code, and a process that was signalled
ends; `Trail`: the event loop comes round, files are read and written, a call to the model is
killed after 90 seconds. `MCCommands` repeats the fairness of each part for the behaviours of that
part. `Shares`, `Notes`, `Board` and `Usage` are checked for safety only: `RunningIsPending` says that
whatever is running has a runner, whose timer ends it; a window that never hears of a write need
never show it.

## What is proved

Every theorem holds for any number of tasks, runs, requests, askers, processes, windows, texts,
turns, transcripts and restarts, from the assumption on the constants that its module names; three
theorems of `DelegationProofs` add the condition stated there. Where a part is checked inside a
composition (`MCCommands`, `MCRequests`, `MCVault`), a theorem is also stated for the composition,
whose constants stay free. An instance has its own copy of every definition: where the proofs are in a
module of their own (`UsageProofs`, `BoardProofs`, `WorktreesProofs`) the copies are first shown to be the same, action
by action, and the invariant is then carried over by the lemmas of that module.

- `DelegationProofs`: `Inductive` is `Spec => []RunsInv`. `RunsInv` is the conjunction of the
  safety invariants with what makes them inductive: `RowsOK` (a run row belongs to a task, and the
  order of the runs of a task has no cycle), `InFlightIsLast` (the run in flight is the newest of
  its task), `ControllersOK` (a controller belongs to a run in flight, whose agent is alive or could not
  be spawned, or to the run whose chain is at its `.catch`) and `SettlingOK` (there is one such run,
  the newest of its task). Without `RowsOK` a new run could come before an old one; without
  `InFlightIsLast` a settled run would not determine its task's status; without `SettlingOK` a `.catch`
  could overwrite the status of a task that has gone on. From it `TypeCorrect`, `AtMostOneRun`, `StatusFollows`,
  `AgentsAreHeld`, `Cancellable`, `AbortedNeverSucceeds`, the action property
  `VerdictsNeverChange` (no step changes a verdict but the `.catch` of the run's own chain, to failed), and
  `KeepsTheLedger`, the refinement of `TaskLedger` from initial state to initial state and from step to
  step or stutter. A run is closed in the ledger when its chain or a restart lets go of it, not when its
  first verdict is stored: what the ledger promises is that this last verdict stays.
- Also in `DelegationProofs`, what a launch decides. `LaunchedInv` adds to `RunsInv` that `newer` never relates
  a task to itself (`NewerOK`), which is why the list of tasks is complete while there are no more
  tasks than `ListLimit` (`ListComplete`): the ports and the checkouts in use are then seen. A step
  launches one task or none, and every other task is `Kept`: it does not become a fresh launch, and
  its port and checkout stay. From it, for `Cardinality(Tasks) <= ListLimit`,
  `LaunchesHaveTheirPorts` and `LaunchesAreApart`. `OneGeneration` needs no limit:
  `activeDailyTask` reads all rows of its day. `SessionsAreRemembered` is for a store that does not
  fail (`~StoreMayFail`): a failed transaction of `finishRun` loses the session, in the code too.
- `SessionsProofs`: `TypeCorrect`; `WslClaimsNameTheSession` is `Spec => []SessionsInv`: every post
  about a session in WSL is without a process id (its file is empty, it has no worker), hence its row
  has none and a claim that names a process is never booked to it. The raw hook releases no claims: those it
  leaves behind are the ones made in the name of the session, which `EndReleasesClaims` leaves out.
  `AgentsEndWithSession` and `ClaimsEndWithSession` are the action properties, by a case per action
  that writes a row, an agent or a claim.
- `WorktreesProofs`: `WInv` says with the types that the lock is held exactly while one handler is
  between two commands of a merge (`Alone`), that what the handler has seen of the branch and the
  base still holds at each of its steps (`Safe`), and where the base is checked out meanwhile
  (`Clean`). From it `MergesAreAlone`, `MergedWorkIsSafe`, `MergesCleanUp`; and in `SharesProofs`, of
  the composition with the questions, `RequestsMergeAlone`, `RequestsMergeSafely`, `RequestsCleanUp`.
- `SharesProofs`: `SInv` says with the types that rows, runners and the map of runners agree
  (`Asked`), that a living process is the child of its runner and the newest process of its asker,
  that process numbers are used without gaps and that a runner which has heard an `init` calls its session
  by a name that was confirmed (`Started`, `Named`), and what of a closed share may remain (`Kept`). A late
  line is harmless to the map because only the newest process can be the child; a fork is stored only
  from a runner that has heard `init`, and where that `init` came late from a process that was gone, a
  process of the asker is `stray`. From it the six invariants of the run `requests`:
  `RunningIsAnswered`, `OneAtATime`, `NoProcessStrays`, `ForksAreConfirmed`,
  `DeletedSharesKeepNothing`, `ClosedSharesAreQuiet`.
- `CommandsProofs`, of the composition `CommandsSpec`: `RowsGuardRuns` is the invariant that an implementation at work (not aborted,
  not continued by the owner) has its row on record as running, through failed settlements and
  restarts, unless the row could not be written (`Recorded`), and at most one row is. The row is what
  `implementShare` looks at, so `OneImplementationAtATime` follows.
  For the tunnel the invariant `Shown` adds to `PublicOnlyAsAsked` that a start that is current
  (its generation is the newest) and has not yet started ngrok finds no process of this hub alive,
  and that only one such start is current. `TunnelTyped` and `PublicAsAsked` follow.
- `NotesProofs`: `NotesCorrect` is `Spec => []NotesInv`: what windows show, requests carry and
  events announce are versions of the note up to the present one, a window whose base is the
  present note has its box right, and a write of the vault is not the hub's last. From it
  `BlindSaves` and, as an action property, `BoxesAreMeant`.
- Also in `CommandsProofs`, of the trail: `TrailTyped`, `NoTurnIsSkipped` and `TurnsAreToldOnce`. The
  invariant `TrailInv` says what the worker holds between two awaits (`Pass`): its row is still where it
  was read, because one pass works at a time; its working list contains all that the block of its
  file has, and every turn of its window; at the checkpoint block and list are the same. The turns
  up to the checkpoint are then told in some file. As long as the hub has not died no file is
  ahead of the checkpoint but the one just written (`TrailFresh`), so that the next pass tells nothing
  again. The sessions are assumed to be finitely many; how many turns each may have (`MaxTurns`) is free, in the
  composition too.
- `UsageProofs`, and `NotesProofs` for the composition: `MessagesCountOnce`. The invariant `UsageInv` is
  about every copy of an entry there is, in memory, being written and on disk: it has been read as
  far as some length that the file has had since it was listed, its parser is the one a single read
  up to there would give, and one that a failed read has fed holds the same messages in the same
  places, with numbers that are old only where a line still to be read has newer ones (`Told`). A
  scan that resumes adds the rest of the lines, whatever parts they were written in: the offsets
  never fall within a line that was fed (`Offset`, `Begun`, `Lines`). What a parser is after n lines
  is defined by recursion; where an argument goes from one line to the next, it takes the first line
  of which the claim would fail, since every set of natural numbers has a least one. `Usage` assumes
  of the transcripts that lengths are numbers and lines of the four kinds.
- `BoardProofs`, and `NotesProofs` for the composition: `NothingIsLost`. The invariant `BoardInv` says
  that a section begins with a line that is not indented and that a note is indented (`Rooted`), so
  that every line hangs under a task; that what was written is said in some file; and, as long as no
  move between files was broken off, that the lines that are live say nothing twice, in a section,
  between the sections of a file (`OnceIn`) or between files. A line is live (`Alive`) when the line
  at the root of its family is not a finished occurrence: that this root is where the stack of the
  parser ends (`TopOf`) is what makes it the same as `Editable`. Three lemmas per edit carry the invariant: a block that is cut
  out is whole (`Taken`), one that is put between families or below a line is taken in as it is
  (`Given`), and what a status write, a recurrence or a step of the sweep makes of a file keeps it
  (`Keeps`); `Move` exchanges two neighbours, `DeleteNote` drops lines that it also takes off the
  record. Without `Rooted` it fails (TLC finds three steps): a
  recurring task that is indented under nothing is top-level for the parser, its finished copy
  keeps the indentation, and the next block put on top of the done section takes the copy in and
  makes it live again. Files are assumed to begin like that and to say nothing twice
  (`StartAssumption`); the operations are proved to keep it.
- `OccurrencesAreKept`, in the same two modules, is the action property that a finished occurrence
  stays with every line below it. A line is over (`Over`) when it is not live, and what one step
  makes of a file carries what is over (`Carries`): a map takes each such line to a line that is
  over and says the same, no two to one, the next line of a family to the next line, and the last
  of a family to a last one. So no line is lost from an occurrence, none is changed, and none
  is put in between or at its end; the maps of two edits compose (`PastOn`), as the sweep needs.
  A block may go in where a family begins, or below a line that is live (`Fitting`); the blocks that are
  cut out and the lines that are rewritten are live, by the guard that `Editable` is, or in the open
  section, where nothing is over. `StepKept` says the same of each operation beside `BoardInv`, and what
  an occurrence is follows from where its block ends (`OccurrenceStays`); one injection per block says how
  often (`FinishesStay`).
Each property was model-checked on a small instance before it was proved.

Only model-checked: the liveness properties (liveness under fairness is outside of what TLAPS
proves), and of the board the action property `FamiliesKept`. The liveness properties are `EveryRunEnds`, `AbortTakesEffect`,
`CountsStayHonest`, `NeverWedged`, `StartSettles`, `RequestSettles` and `EndIsSummarised`. That a move or a
new indentation leaves every other line under its task (`FamiliesKept`) is checked on every tree of
four lines. The findings are counterexamples of TLC.

## Findings

1. `delegation_ports`: a task that is continued starts in the port block of its launch; while it
   was finished the block may have been given to another task. `DELEGATION.md` promises that
   parallel tasks never collide.
2. `delegation_resume`: when the hub dies before the first run of a task is settled, the task
   has no session although its run has one, and continue launches it afresh.
3. `worktrees_discard`: a task continued while its worktree is being discarded loses it.
4. `shares_late`: the answer of a process killed for its timeout can settle the next question.
5. `sessions_resume`: a session that is resumed in the window of its old process is posted with the
   old process id, because the remembered file is good as long as the window is. The sweep ends the
   session at work, again and again. `DELEGATION.md` says that sessions are ended whose process is
   gone, and a test that live ones are left alone.
6. `vault_stale`: a window that still shows the note from before an edit in the vault may save over
   that edit without a conflict, once another window has saved: the hub then takes the note for its
   own. `DELEGATION.md` promises a 409 on a conflicting external edit. `BlindOnlyOverWindows` is
   what does hold: never directly over the edit.

### What the code does not guarantee

Behaviour met while modelling that no property claims, so that nobody reads a guarantee into the
runs:

- Delegation: a verdict that is stored becomes `failed` when ending the session of the run or settling
  the share request throws after it (`delegation-launch.ts:265-285`, `finishRun` has no guard on the
  status). `VerdictsStand` leaves that one step out.
- Delegation: a launch that throws between `beginRun` and the spawn leaves a run without an agent: its
  timeout aborts nothing, cancel answers that it was stopped, and only a restart ends it.
- Delegation: a worktree stays behind when the port allocation throws after it was added;
  `mergedAt` stays set when a merged task is continued.
- Shares: an exit event that overtakes the last line of the output makes a runner report a failure
  where a stale session was the reason (`share-runner.ts:182`).
- Shares: a late line of a process that is gone is taken for one of its successor (`share-runner.ts:169`,
  `:238-244`). When it is the `init` line, or names a session before one, and the successor fails before its own,
  a fork may be stored that no process has confirmed, which `DELEGATION.md:142-144` excludes.
  `ForkWasConfirmed` leaves the asker of such a process out.
- ShareTasks: when the row of a request cannot be written once its run was begun
  (`share-service.ts:355-378`), the asker is told of a failure while the agent works, and the next
  implementation is admitted beside it. Closing the share still aborts both. `OneImplementation` counts the runs
  with a row.
- ShareTasks: a second transaction that fails overwrites a verdict already stored with `failed`;
  an implementation interrupted by a restart stays on record as running until somebody polls; a
  continuation by the owner may run beside a new implementation.
- Sessions: a claim made by a process whose new session the hub has not heard of yet goes to the
  session it had before, or to none (`index.ts:469`).
- Sessions: a claim made in the name of a session in WSL survives its end, which comes by `/hook/raw`,
  until it expires (`index.ts:133-137`). `EndReleasesClaims` leaves such claims out.
- Worktrees: after a crash between `git worktree add` and `remove`, later merges go into the temporary
  worktree that was left behind and never remove it (`worktrees.ts:225-229`). They come to an end
  (`NeverWedged`), but `NothingLeftBehind` holds only as long as the hub does not die.
- Notes: the answer to a `GET` replaces what was typed meanwhile (`applyLoaded`), and may clear the
  box of a conflict; a stream that is down for less than five seconds loses its events and nothing
  is loaded again; a recovery is ignored while the window is saving or dirty. Windows therefore
  need not show the same text in the end.
- Board: a finished copy of a recurring task that was indented under nothing is live again once another
  block is put above it in the done section; files are assumed not to begin like that.
- Board: deleting a note hands tasks nested below it to whatever task is above
  (`deleteBoardNote` does not check it, the other operations do); `FamiliesKept` leaves that out.
- Board: a repeating task that was ticked and dated by hand in the open section is moved to done by a
  sweep, or by the last tick below it, and its family is a finished occurrence from then on.
  `FamiliesKept` is about live lines, so no file of the run begins with such a date.
- Trail: a crash between the block and the checkpoint tells the turns of that pass again;
  `TurnsOnce` leaves that out.
- Usage: a read that fails half way has fed the parser kept in memory, but not moved the offset;
  the next read feeds the same lines again (`usage.ts:704`). Messages with an id are unharmed,
  counts of Codex and messages without an id are counted twice until a rescan. `CountsOnce` leaves
  that out. The file is missing in the answer of the scan in which the read failed.
- Tunnel: the exit event of an old process removes the pid file of the new one, so that a process
  left by a crash is not found by the next hub; a start that is outdated may still be closing
  processes and close a newer one.

## Not modelled

Provider limits (`limits.ts`): what is kept is replaced by the next answer and nothing else
depends on it. Codex sessions, the scans of second brain and workspaces: a result computed from
files, without behaviour over time. The views of the UI except for the note of the day, the
landing page and the desktop shell: layout over the hub's API. Installers, autostart, hooks
configuration: they write a settings file. The build and release scripts are not part of the
running system. What a modelled component leaves out is at the end of its section above.

Composing `Delegation` with `Worktrees` (a launch that fails after its worktree was added;
continue against discard with the runs in full) and `Notes` with `Board` (several tasks in one
note) would be the next modules: today they meet through one variable each.
