-------------------------------- MODULE Usage --------------------------------
(***************************************************************************)
(* The counts of tokens (usage.ts, usage-routes.ts).  Transcripts grow     *)
(* while they are read; a scan reads of each file what was added since the *)
(* last one and feeds it to the parser it has kept for the file, in memory *)
(* or, after a restart, in the cache on disk.  Scans queue up: requests    *)
(* for the same window share one, and a rescan drops everything first.     *)
(***************************************************************************)
EXTENDS Naturals, Sequences, FiniteSetsExt

CONSTANTS
  Files,        \* transcripts
  Logs,         \* what may be written in each of them, and in which parts
  Windows,      \* values of days
  DEFAULT_DAYS,
  MaxAsks,      \* bound: requests
  MaxRestarts,  \* bound: restarts of the hub
  MaxFaults,    \* bound: reads and writes that fail
  None

Kinds == {"message", "count", "model", "session"}

\* Of a line that is being written there is a part, which does not parse, then
\* all of it, then its newline.
Pieces == 3

UsageAssumption ==
  /\ \A l \in Logs, f \in Files :
       /\ Len(l[f].lines) \in Nat /\ \A i \in 1..Len(l[f].lines) : l[f].lines[i].kind \in Kinds
       /\ l[f].cuts # {} /\ l[f].cuts \subseteq 0..Pieces * Len(l[f].lines)
  /\ DEFAULT_DAYS \in Windows
  /\ None \notin Windows
  /\ MaxAsks \in Nat /\ MaxRestarts \in Nat /\ MaxFaults \in Nat

VARIABLES
  log,        \* the lines of each transcript and where a write may end
  size,       \* how much of it is written
  present,    \* the transcripts that are not deleted
  cache,      \* fileCache
  loaded,     \* cacheLoaded
  generation, \* scanStats.generation
  queue,      \* queue and inflight: the scan under way comes first
  scan,       \* runScan
  done,       \* a scan that has resolved and whose callers have not gone on
  responses,  \* responseCache: the generation of the value kept for a window
  background,
  dirty,      \* persistDirty
  writing,    \* persistCache: what it is writing
  saved,      \* usage-cache.json
  asks, restarts, faults

files    == <<log, size, present>>
memory   == <<cache, loaded, generation>>
requests == <<queue, done, responses, background>>
disk     == <<dirty, writing, saved>>
bounds   == <<asks, restarts, faults>>
vars     == <<files, memory, scan, requests, disk, bounds>>

Empty == [f \in Files |-> None]

-----------------------------------------------------------------------------
(* Parsers *)

\* A line is a message of Claude, which streams the same id again with new
\* numbers, or has none, or of Codex: a count, which repeats a total when
\* nothing was used, or the session or the model of the counts that follow.
\* torn is history: the parser was fed by a read that failed.
NewParser ==
  [turns |-> <<>>, anonymous |-> 0, previous |-> None, model |-> None, session |-> None,
   torn |-> FALSE]

\* byMessage.set: a key that is known keeps its place.
Put(turns, turn) ==
  LET Same(i) == turns[i].key = turn.key
  IN  IF \E i \in DOMAIN turns : Same(i)
      THEN [i \in DOMAIN turns |-> IF Same(i) THEN turn ELSE turns[i]]
      ELSE Append(turns, turn)

WithMessage(p, line) ==
  LET key == IF line.id = None THEN <<"anonymous", p.anonymous>> ELSE <<"id", line.id>>
  IN  [p EXCEPT !.anonymous = IF line.id = None THEN @ + 1 ELSE @,
                !.turns = Put(@, [key |-> key, value |-> line.value, model |-> None])]

WithCount(p, line) ==
  IF line.id # None /\ line.id = p.previous THEN p
  ELSE [p EXCEPT !.previous = line.id,
                 !.turns = Append(@, [key |-> <<"total", line.id>>, value |-> line.value,
                                      model |-> p.model])]

Fed(p, line) ==
  CASE line.kind = "message" -> WithMessage(p, line)
    [] line.kind = "count"   -> WithCount(p, line)
    [] line.kind = "model"   -> [p EXCEPT !.model = line.value]
    [] line.kind = "session" -> [p EXCEPT !.session = IF @ = None THEN line.value ELSE @]

\* The lines of which all is there, and those of which something is.
Lines(n) == (n + 1) \div Pieces
Begun(n) == (n + 2) \div Pieces

\* Mutant of Offset: the half-written line counts as read.
Offset_All(n) == n

\* feedFile leaves a last line alone that does not parse yet.
Offset(n) == IF n % Pieces = 1 THEN n - 1 ELSE n

\* What a parser becomes of the lines after one up to another, in their order.
After(p, lines, first, last) ==
  LET fed[n \in 0..last] == IF n <= first THEN p ELSE Fed(fed[n - 1], lines[n])
  IN  fed[last]

\* A parser that has read from one offset to another: the rest of a line that
\* was begun before does not parse.
Feed(p, f, from, to) == After(p, log[f].lines, Begun(from), Lines(to))

Report(p) == <<p.turns, p.session>>

-----------------------------------------------------------------------------
(* Transcripts *)

Write(f) ==
  /\ f \in present
  /\ \E n \in log[f].cuts :
       /\ n > size[f] /\ \A k \in log[f].cuts : k > size[f] => n <= k
       /\ size' = [size EXCEPT ![f] = n]
  /\ UNCHANGED <<log, present, memory, scan, requests, disk, bounds>>

Delete(f) ==
  /\ f \in present
  /\ present' = present \ {f}
  /\ UNCHANGED <<log, size, memory, scan, requests, disk, bounds>>

-----------------------------------------------------------------------------
(* Requests *)

NewJob(w, drop, waiter) == [window |-> w, drop |-> drop, waiters |-> {waiter}]

\* collectUsage: the last scan asked for with this window, or a new one.
Collect(q, w, waiter) ==
  LET same == {i \in DOMAIN q : q[i].window = w}
      last == CHOOSE i \in same : \A j \in same : j <= i
  IN  IF same = {} THEN Append(q, NewJob(w, FALSE, waiter))
      ELSE [q EXCEPT ![last].waiters = @ \cup {waiter}]

\* GET / when nothing recent is kept, and warmUsage.
Ask(w) ==
  /\ asks < MaxAsks
  /\ w \notin background
  /\ background' = background \cup {w}
  /\ queue' = Collect(queue, w, "background")
  /\ asks' = asks + 1
  /\ UNCHANGED <<files, memory, scan, done, responses, disk, restarts, faults>>

AskFresh(w) ==
  /\ asks < MaxAsks
  /\ queue' = Collect(queue, w, "fresh")
  /\ asks' = asks + 1
  /\ UNCHANGED <<files, memory, scan, done, responses, background, disk, restarts, faults>>

Rescan ==
  /\ asks < MaxAsks
  /\ queue' = Append(queue, NewJob(DEFAULT_DAYS, TRUE, "rescan"))
  /\ asks' = asks + 1
  /\ UNCHANGED <<files, memory, scan, done, responses, background, disk, restarts, faults>>

-----------------------------------------------------------------------------
(* Scans *)

\* An entry of the cache keeps what the last whole read has made of the file
\* (records and meta), and the parser, which is not written to disk.
Restored(entry) == IF entry = None THEN None ELSE [entry EXCEPT !.live = None]

CacheAtStart(drop) ==
  IF drop THEN Empty
  ELSE IF ~loaded /\ cache = Empty /\ saved # None THEN saved
  ELSE cache

\* The listing, in which a file may be shorter than when it is read.
NewScan(number) ==
  [listed |-> present, todo |-> present, sizes |-> size, parsed |-> FALSE, value |-> Empty,
   generation |-> number]

\* beforeScan, the cache on disk unless something is known already, the listing.
StartScan ==
  /\ scan = None /\ queue # <<>>
  /\ LET drop == Head(queue).drop IN
       /\ cache' = CacheAtStart(drop)
       /\ generation' = IF drop THEN generation + 1 ELSE generation
  /\ loaded' = TRUE
  /\ scan' = NewScan(generation')
  /\ UNCHANGED <<files, requests, disk, bounds>>

Unchanged(f) == cache[f] # None /\ cache[f].size = scan.sizes[f]

\* resumableParser: where a read of a file that has changed begins, and with
\* which parser.
Resumes(f) == cache[f] # None /\ scan.sizes[f] > cache[f].size
From(f)    == IF Resumes(f) THEN cache[f].offset ELSE 0
Parser(f)  ==
  IF ~Resumes(f) THEN NewParser
  ELSE IF cache[f].live # None THEN cache[f].live ELSE cache[f].kept

Reported(f, p) == [report |-> Report(p), torn |-> p.torn, looked |-> scan.sizes[f]]

SkipFile(f) ==
  /\ scan # None /\ f \in scan.todo
  /\ Unchanged(f)
  /\ scan' = [scan EXCEPT !.todo = @ \ {f}, !.value[f] = Reported(f, cache[f].kept)]
  /\ UNCHANGED <<files, memory, requests, disk, bounds>>

\* A read goes on to the end of the file, which may be past the size that the
\* listing has seen.
ReadFile(f) ==
  /\ scan # None /\ f \in scan.todo
  /\ ~Unchanged(f) /\ f \in present
  /\ LET p == Feed(Parser(f), f, From(f), size[f]) IN
       /\ cache' = [cache EXCEPT ![f] = [size |-> scan.sizes[f], offset |-> Offset(size[f]),
                                         kept |-> p, live |-> p]]
       /\ scan' = [scan EXCEPT !.todo = @ \ {f}, !.parsed = TRUE, !.value[f] = Reported(f, p)]
  /\ UNCHANGED <<files, loaded, generation, requests, disk, bounds>>

\* A read that fails, having fed some whole lines: a parser in memory has changed, its
\* entry has not.  The scan goes on without the file.
ReadFails(f) ==
  /\ scan # None /\ f \in scan.todo
  /\ ~Unchanged(f)
  /\ scan' = [scan EXCEPT !.todo = @ \ {f}]
  /\ \/ f \notin present /\ UNCHANGED <<cache, faults>>
     \/ /\ faults < MaxFaults
        /\ faults' = faults + 1
        /\ \E to \in {From(f)} \cup {n \in From(f)..size[f] : n % Pieces = 0} :
             cache' = IF Resumes(f) /\ cache[f].live # None
                      THEN [cache EXCEPT ![f].live = [Feed(@, f, From(f), to) EXCEPT !.torn = TRUE]]
                      ELSE cache
  /\ UNCHANGED <<files, loaded, generation, requests, disk, asks, restarts>>

\* Entries of files that are gone go; the queue moves on.
EndScan ==
  /\ scan # None /\ scan.todo = {} /\ done = None
  /\ cache' = [f \in Files |-> IF f \in scan.listed THEN cache[f] ELSE None]
  /\ dirty' = (dirty \/ scan.parsed \/ cache' # cache)
  /\ done' = [window |-> Head(queue).window, waiters |-> Head(queue).waiters,
              generation |-> scan.generation, value |-> scan.value]
  /\ queue' = Tail(queue)
  /\ scan' = None
  /\ UNCHANGED <<files, loaded, generation, responses, background, writing, saved, bounds>>

\* The callers go on, perhaps after the next scan has begun: a rescan clears the
\* responses and computes its own, a value counted before a drop is not kept.
Deliver ==
  /\ done # None
  /\ LET rescanned == "rescan" \in done.waiters
         computed  == done.waiters \ {"rescan"} # {} /\ done.generation = generation
         others    == IF rescanned THEN [w \in Windows |-> None] ELSE responses
     IN  /\ responses' =
              IF computed
              THEN [others EXCEPT ![done.window] = generation]
              ELSE others
         /\ queue' = IF rescanned THEN Collect(queue, DEFAULT_DAYS, "fresh") ELSE queue
  /\ background' = IF "background" \in done.waiters THEN background \ {done.window} ELSE background
  /\ done' = None
  /\ UNCHANGED <<files, memory, scan, disk, bounds>>

-----------------------------------------------------------------------------
(* The cache on disk *)

\* writePersisted, one write after the other.
StartWrite ==
  /\ dirty /\ writing = None
  /\ dirty' = FALSE
  /\ writing' = [f \in Files |-> Restored(cache[f])]
  /\ UNCHANGED <<files, memory, scan, requests, saved, bounds>>

EndWrite ==
  /\ writing # None
  /\ writing' = None
  /\ saved' = writing
  /\ UNCHANGED <<files, memory, scan, requests, dirty, bounds>>

WriteFails ==
  /\ writing # None /\ faults < MaxFaults
  /\ faults' = faults + 1
  /\ writing' = None
  /\ UNCHANGED <<files, memory, scan, requests, dirty, saved, asks, restarts>>

Restart ==
  /\ restarts < MaxRestarts
  /\ restarts' = restarts + 1
  /\ cache' = Empty /\ loaded' = FALSE /\ generation' = 0
  /\ queue' = <<>> /\ scan' = None /\ done' = None
  /\ responses' = [w \in Windows |-> None] /\ background' = {}
  /\ dirty' = FALSE /\ writing' = None
  /\ UNCHANGED <<files, saved, asks, faults>>

-----------------------------------------------------------------------------
Init ==
  /\ log \in Logs
  /\ size = [f \in Files |-> Min(log[f].cuts)] /\ present = Files
  /\ cache = Empty /\ loaded = FALSE /\ generation = 0
  /\ queue = <<>> /\ scan = None /\ done = None
  /\ responses = [w \in Windows |-> None] /\ background = {}
  /\ dirty = FALSE /\ writing = None /\ saved = None
  /\ asks = 0 /\ restarts = 0 /\ faults = 0

Next ==
  \/ \E f \in Files : Write(f) \/ Delete(f) \/ SkipFile(f) \/ ReadFile(f) \/ ReadFails(f)
  \/ \E w \in Windows : Ask(w) \/ AskFresh(w)
  \/ Rescan \/ StartScan \/ EndScan \/ Deliver
  \/ StartWrite \/ EndWrite \/ WriteFails \/ Restart

Spec == Init /\ [][Next]_vars

-----------------------------------------------------------------------------
(* Properties *)

\* Feeding lines again changes nothing, as every message has its id.
Refeeds(f) ==
  \A i \in 1..Len(log[f].lines) : log[f].lines[i].kind = "message" /\ log[f].lines[i].id # None

\* An answer counts of each transcript every message once, with its last
\* numbers: it is what one read from the start would make of the lines that
\* were there at some moment since the listing, however the lines were cut by
\* the ends of earlier reads, by restarts, failed writes of the cache and
\* rescans (feedFile, resumableParser, restore).  Excepted are files of other
\* lines, of which a failed read may make the next one count some twice.
CountsOnce ==
  done # None => \A f \in {g \in Files : done.value[g] # None} :
    \/ done.value[f].torn /\ ~Refeeds(f)
    \/ \E n \in Lines(done.value[f].looked)..Lines(size[f]) :
         done.value[f].report = Report(After(NewParser, log[f].lines, 0, n))
=============================================================================
