------------------------------- MODULE MCVault -------------------------------
(* Instances for TLC of the three parts that work on files of others: the    *)
(* daily note and the files of the board in the vault, and the transcripts   *)
(* that the usage is counted from.  A behaviour is one of a part, and the    *)
(* others stay as they are: what the first two share is the status of a      *)
(* task, which Notes has a variable of its own for.                          *)
EXTENDS Notes, TLC
CONSTANTS win1, win2, proj1, proj2, daily, item1, item2, remark, item3
CONSTANTS Projects, Items, Remarks, Recurring, Statuses, Start, MaxDepth, MaxLines, MaxOps
CONSTANTS Files, Logs, Periods, DEFAULT_DAYS, MaxAsks, MaxRestarts

Windows == Permutations({win1, win2})

Lines(items, depths, statuses) ==
  [k \in 1..Len(items) |->
     [item |-> items[k], depth |-> depths[k], status |-> statuses[k], stamp |-> FALSE]]
File(open) == proj1 :> [open |-> open, done |-> <<>>] @@ proj2 :> [s \in {"open", "done"} |-> <<>>]

Forest == {d \in [1..4 -> 0..2] : d[1] = 0 /\ \A k \in 2..4 : d[k] <= d[k - 1] + 1}
Ticks  == {<<"todo", "todo", "todo", "todo">>, <<"done", "todo", "todo", "todo">>}

\* Every tree of four lines, the repeating task first, in which the note is a
\* note of a task.
Trees ==
  {File(Lines(o, d, st)) : o \in {<<daily, item1, remark, item2>>}, d \in {e \in Forest : e[3] > 0}, st \in Ticks}
  \cup
  {File(Lines(o, d, st)) : o \in {<<daily, remark, item1, item2>>}, d \in {e \in Forest : e[2] > 0}, st \in Ticks}

Line(kind, id, value) == [kind |-> kind, id |-> id, value |-> value]
Said(id, value)       == Line("message", id, value)
Count(total)          == Line("count", total, total)

\* Transcripts of which the first write ends within the second line, or before
\* its newline: messages without ids, a second header of a session, messages
\* that are streamed, a count that is repeated.
Transcripts ==
  {item1 :> [lines |-> l, cuts |-> {4, 9}] :
     l \in {<<Said(None, 1), Said(1, 2), Said(None, 3)>>,
            <<Line("session", None, 1), Count(1), Line("session", None, 2)>>}}
  \cup
  {item1 :> [lines |-> l, cuts |-> {5, 9}] :
     l \in {<<Said(1, 1), Said(2, 2), Said(1, 3)>>,
            <<Line("model", None, 1), Count(1), Count(1)>>}}

VARIABLES part, doc, asked, written, failures, ops
VARIABLES
  log, size, present, cache, loaded, generation, queue, scan, done, responses,
  background, dirty, writing, saved, asks, restarts, ioFaults

V == INSTANCE Board WITH Notes <- Remarks, faults <- failures

U == INSTANCE Usage WITH Windows <- Periods, faults <- ioFaults

ASSUME BoardPart == V!BoardAssumption
ASSUME BoardFiles == V!StartAssumption
ASSUME UsagePart == U!UsageAssumption

boards == <<doc, asked, written, failures, ops>>
usage  == <<log, size, present, cache, loaded, generation, queue, scan, done, responses,
            background, dirty, writing, saved, asks, restarts, ioFaults>>

VaultInit ==
  /\ part \in {"board", "notes", "usage"}
  /\ IF part = "board" THEN V!Init
     ELSE doc = None /\ asked = None /\ written = {} /\ failures = 0 /\ ops = 0
  /\ Init /\ (part = "notes" \/ marks = <<>>)
  /\ IF part = "usage" THEN U!Init
     ELSE /\ log = None /\ size = None /\ present = None /\ cache = None /\ loaded = None
          /\ generation = None /\ queue = None /\ scan = None /\ done = None
          /\ responses = None /\ background = None /\ dirty = None /\ writing = None
          /\ saved = None /\ asks = None /\ restarts = None /\ ioFaults = None

VaultNext ==
  \/ part = "notes" /\ UNCHANGED <<part, boards, usage>> /\ Next
  \/ part = "board" /\ UNCHANGED <<part, vars, usage>> /\ V!Next
  \/ part = "usage" /\ UNCHANGED <<part, vars, boards>> /\ U!Next

VaultSpec == VaultInit /\ [][VaultNext]_<<part, vars, boards, usage>>

NothingLost     == part = "board" => V!NothingLost
FamiliesKept    == V!FamiliesKept
OccurrencesKept == V!OccurrencesKept
CountsOnce      == part = "usage" => U!CountsOnce
=============================================================================
