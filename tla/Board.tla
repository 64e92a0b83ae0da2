-------------------------------- MODULE Board --------------------------------
(***************************************************************************)
(* The tasks board (tasks-board.ts): markdown files, one per project, that *)
(* the hub edits as documents.  A file is known by the lines of its open   *)
(* and of its done section; a line has its indentation, and the tree of    *)
(* tasks, subtasks and notes exists only in the indentations.  Blank lines,*)
(* sub-headings, fences and placeholders are layout and left out, and so   *)
(* is what a line says: it is known by its item.                           *)
(*                                                                         *)
(* An operation names a line by number and text and is refused unless the  *)
(* file has that text there, so one that is accepted acts on a line as it  *)
(* is now; it runs from the read to the write of the file without a break. *)
(* Only a move to another project writes two files.                        *)
(***************************************************************************)
EXTENDS Naturals, Sequences, FiniteSets, FiniteSetsExt

CONSTANTS
  Projects,  \* the files of the board
  Items,     \* the tasks and notes that may be written, by what they say
  Notes,     \* those of them that are notes
  Recurring, \* the tasks that carry a repeat rule
  Start,     \* the files as the user may have written them
  Statuses,  \* "todo", "done" and what else is used; the others are prefixes
  MaxDepth,  \* bound: depth of a line
  MaxLines,  \* bound: lines of a file
  MaxFaults, \* bound: hub deaths and failed writes in a move between files
  MaxOps,    \* bound: operations
  None

Sections == {"open", "done"}

\* stamp: the line ends in the date it was finished on.
Line == [item : Items, depth : 0..MaxDepth, status : Statuses, stamp : BOOLEAN]

BoardAssumption ==
  /\ Notes \subseteq Items /\ Recurring \subseteq Items \ Notes
  /\ {"todo", "done"} \subseteq Statuses
  /\ MaxDepth \in Nat /\ MaxLines \in Nat /\ MaxFaults \in Nat /\ MaxOps \in Nat
  /\ None \notin Items
  /\ Start \subseteq [Projects -> [Sections -> Seq(Line)]]

VARIABLES
  doc,     \* the files
  asked,   \* history: the item the last step was about
  written, \* history: what was written and not deleted since
  faults,
  ops      \* operations so far

vars == <<doc, asked, written, faults, ops>>

TypeOK ==
  /\ doc \in [Projects -> [Sections -> Seq(Line)]]
  /\ \A p \in Projects, s \in Sections : Len(doc[p][s]) <= MaxLines
  /\ asked \in Items \cup {None}
  /\ written \subseteq Items
  /\ faults \in 0..MaxFaults /\ ops \in 0..MaxOps

InFiles == UNION {{doc[p][s][i].item : i \in DOMAIN doc[p][s]} : p \in Projects, s \in Sections}

Init ==
  /\ doc \in Start
  /\ asked = None /\ faults = 0 /\ ops = 0
  /\ written = InFiles

-----------------------------------------------------------------------------
(* What the indentation says *)

IsNote(line) == line.item \in Notes

\* Mutant of BlockEnd: a line as deep as the first one belongs to the block.
BlockEnd_Loose(lines, i) ==
  CHOOSE j \in i..Len(lines) :
    /\ \A k \in (i + 1)..j : lines[k].depth >= lines[i].depth
    /\ j = Len(lines) \/ lines[j + 1].depth < lines[i].depth

\* The block of a line: the deeper lines that follow it.
BlockEnd(lines, i) ==
  CHOOSE j \in i..Len(lines) :
    /\ \A k \in (i + 1)..j : lines[k].depth > lines[i].depth
    /\ j = Len(lines) \/ lines[j + 1].depth <= lines[i].depth

Block(lines, i) == SubSeq(lines, i, BlockEnd(lines, i))
Cut(lines, i)   == SubSeq(lines, 1, i - 1) \o SubSeq(lines, BlockEnd(lines, i) + 1, Len(lines))

\* The tasks a line hangs under, as the stack of the parser keeps them.
Above(lines, i) ==
  {j \in 1..(i - 1) : ~IsNote(lines[j]) /\ i <= BlockEnd(lines, j)}

Parent(lines, i) == IF Above(lines, i) = {} THEN 0 ELSE Max(Above(lines, i))
IsTop(lines, i)  == ~IsNote(lines[i]) /\ Above(lines, i) = {}
TopOf(lines, i)  == Min(Above(lines, i) \cup {i})

\* isFinished: done with every subtask.
Finished(lines, i) ==
  \A j \in i..BlockEnd(lines, i) : ~IsNote(lines[j]) => lines[j].status = "done"

\* A finished occurrence of a recurring task, which the hub leaves alone, and
\* one that was ticked and waits to be copied.
IsOccurrence(file, s, i) ==
  /\ s = "done" /\ IsTop(file[s], i)
  /\ file[s][i].item \in Recurring /\ file[s][i].stamp

IsPending(lines, i) ==
  /\ IsTop(lines, i) /\ lines[i].item \in Recurring
  /\ lines[i].status = "done" /\ ~lines[i].stamp

\* Mutant of Editable: only the first line of an occurrence is looked at.
Editable_TopOnly(file, s, i) == ~IsOccurrence(file, s, i)

\* ensureNotOccurrence: of the line and of the task it belongs to.
Editable(file, s, i) == ~IsOccurrence(file, s, TopOf(file[s], i))

\* Files as the hub keeps them: a section begins with a line that is not
\* indented, a note is below something, and nothing is said twice but in
\* finished occurrences.
StartAssumption ==
  \A files \in Start :
    /\ \A p \in Projects, s \in Sections : LET lines == files[p][s] IN
         /\ lines # <<>> => lines[1].depth = 0
         /\ \A i \in DOMAIN lines : IsNote(lines[i]) => lines[i].depth > 0
    /\ \A p, q \in Projects, s, t \in Sections :
         \A i \in DOMAIN files[p][s], j \in DOMAIN files[q][t] :
           /\ Editable(files[p], s, i) /\ Editable(files[q], t, j)
           /\ files[p][s][i].item = files[q][t][j].item
           => p = q /\ s = t /\ i = j

-----------------------------------------------------------------------------
(* Edits of a file *)

InsertedAt(lines, at, block) == SubSeq(lines, 1, at - 1) \o block \o SubSeq(lines, at, Len(lines))

Without(lines, gone) ==
  LET left[k \in 0..Len(lines)] ==
        IF k = 0 THEN <<>> ELSE IF k \in gone THEN left[k - 1] ELSE Append(left[k - 1], lines[k])
  IN  left[Len(lines)]

\* insertIntoDone and insertIntoOpenEnd.
IntoDone(file, block) == [file EXCEPT !["done"] = block \o @]
IntoOpen(file, block) == [file EXCEPT !["open"] = @ \o block]

Stamped(block, stamp) == [block EXCEPT ![1].stamp = stamp]

\* Mutant of MovedToDone: the lines below the task are left behind.
MovedToDone_FirstLine(file, i) ==
  IntoDone([file EXCEPT !["open"] = SubSeq(@, 1, i - 1) \o SubSeq(@, i + 1, Len(@))],
           <<[file["open"][i] EXCEPT !.stamp = TRUE]>>)

MovedToDone(file, i) ==
  IntoDone([file EXCEPT !["open"] = Cut(@, i)], Stamped(Block(file["open"], i), TRUE))

MovedToOpen(file, i) ==
  IntoOpen([file EXCEPT !["done"] = Cut(@, i)], Stamped(Block(file["done"], i), FALSE))

\* setTaskMark: the mark of a task with a prefix does not change its status.
Marked(line, status) ==
  IF IsNote(line) \/ line.status \notin {"todo", "doing", "done"} THEN line
  ELSE [line EXCEPT !.status = status]

\* recurBlock: a stamped copy goes to the done section, the task starts over.
Recurred(file, i) ==
  LET block == Block(file["open"], i)
      copy  == [k \in DOMAIN block |->
                  IF k = 1 THEN [block[k] EXCEPT !.status = "done", !.stamp = TRUE]
                           ELSE Marked(block[k], "done")]
      again == [k \in DOMAIN block |->
                  IF k = 1 THEN [block[k] EXCEPT !.status = "todo"]
                           ELSE Marked(block[k], "todo")]
  IN IntoDone([file EXCEPT !["open"] = InsertedAt(Cut(@, i), i, again)], copy)

\* writeBoardTask, once the line is rewritten: a recurring task is copied, a
\* family that is finished moves to done, one that is taken up again to open.
Settled(file, s, i, was) ==
  LET lines == file[s]  top == TopOf(lines, i) IN
  IF s = "open" /\ lines[i].status = "done" /\ IsPending(lines, i) THEN Recurred(file, i)
  ELSE IF s = "open" /\ ~IsPending(lines, top) /\ Finished(lines, top) THEN MovedToDone(file, top)
  ELSE IF s = "done" /\ lines[i].status \notin {"done", was} THEN MovedToOpen(file, top)
  ELSE file

\* childIndent and noteIndent: as the shallowest task, or line, of the block.
Depths(lines, i, T)   == {lines[j].depth : j \in {k \in (i + 1)..BlockEnd(lines, i) : lines[k].item \in T}}
IndentFor(lines, i, T) ==
  IF Depths(lines, i, T) # {} THEN Min(Depths(lines, i, T)) ELSE lines[i].depth + 1
ChildIndent(lines, i) == IndentFor(lines, i, Items \ Notes)
NoteIndent(lines, i)  ==
  IF Depths(lines, i, Items) # {} THEN IndentFor(lines, i, Items) ELSE ChildIndent(lines, i)

\* Mutant of Rebased: only the first line is indented anew.
Rebased_RootOnly(block, depth) == [block EXCEPT ![1].depth = depth]

Rebased(block, depth) ==
  [k \in DOMAIN block |-> [block[k] EXCEPT !.depth = (@ + depth) - block[1].depth]]

Deepest(block) == Max({block[k].depth : k \in DOMAIN block})

Under(lines, i, block) == InsertedAt(lines, BlockEnd(lines, i) + 1, block)

\* sweepDocument: the last pending occurrence, or else the last finished task.
SweepStep(file) ==
  LET lines   == file["open"]
      pending == {i \in DOMAIN lines : IsPending(lines, i)}
      over    == {i \in DOMAIN lines : IsTop(lines, i) /\ ~IsPending(lines, i) /\ Finished(lines, i)}
  IN IF pending # {} THEN Recurred(file, Max(pending))
     ELSE IF over # {} THEN MovedToDone(file, Max(over))
     ELSE file

Swept(file) ==
  LET after[n \in 0..(2 * MaxLines)] == IF n = 0 THEN file ELSE SweepStep(after[n - 1])
  IN  after[2 * MaxLines]

-----------------------------------------------------------------------------
(* Operations *)

Places(p) == {w \in Sections \X (1..MaxLines) : w[2] \in DOMAIN doc[p][w[1]]}
Task(p, s, i) == ~IsNote(doc[p][s][i]) /\ Editable(doc[p], s, i)
Owned(p, s, i) == IsNote(doc[p][s][i]) /\ Above(doc[p][s], i) # {}

\* The bounds of the model.
Fits(file) == \A s \in Sections :
  /\ Len(file[s]) <= MaxLines
  /\ \A i \in DOMAIN file[s] : file[s][i].depth <= MaxDepth

Tick == ops < MaxOps /\ ops' = ops + 1

Commit(p, file, item) ==
  /\ Tick /\ Fits(file)
  /\ doc' = [doc EXCEPT ![p] = file]
  /\ asked' = item

\* PATCH /tasks: the status of a task.
WriteStatus(p, s, i, status) ==
  /\ Task(p, s, i)
  /\ Commit(p, Settled([doc[p] EXCEPT ![s][i].status = status], s, i, doc[p][s][i].status),
            doc[p][s][i].item)
  /\ UNCHANGED <<written, faults>>

NewLine(x, depth, status) == [item |-> x, depth |-> depth, status |-> status, stamp |-> FALSE]

\* POST /tasks: at the end of the open section, on top of the done one, or
\* below a task.
Create(p, x, status) ==
  /\ x \in Items \ (Notes \cup InFiles)
  /\ \/ Commit(p, IF status = "done" THEN IntoDone(doc[p], <<[NewLine(x, 0, status) EXCEPT !.stamp = TRUE]>>)
                 ELSE IntoOpen(doc[p], <<NewLine(x, 0, status)>>), x)
     \/ \E w \in Places(p) : LET s == w[1]  i == w[2] IN
          /\ Task(p, s, i)
          /\ Commit(p, [doc[p] EXCEPT ![s] = Under(@, i, <<NewLine(x, ChildIndent(@, i), status)>>)], x)
  /\ written' = written \cup {x}
  /\ UNCHANGED faults

\* POST /tasks/notes: refused when the line would not be a note of the task.
AddNote(p, s, i, x) ==
  LET file == [doc[p] EXCEPT ![s] = Under(@, i, <<NewLine(x, NoteIndent(@, i), "todo")>>)] IN
  /\ x \in Notes \ InFiles /\ Task(p, s, i)
  /\ Parent(file[s], BlockEnd(doc[p][s], i) + 1) = i
  /\ Commit(p, file, x)
  /\ written' = written \cup {x}
  /\ UNCHANGED faults

\* DELETE /tasks/notes: with the lines below it, down to the tasks among them.
DeleteNote(p, s, i) ==
  LET lines == doc[p][s]
      kept  == {k \in (i + 1)..BlockEnd(lines, i) :
                  \E j \in (i + 1)..k : ~IsNote(lines[j]) /\ k <= BlockEnd(lines, j)}
      gone  == i..BlockEnd(lines, i) \ kept
  IN
  /\ Owned(p, s, i) /\ Editable(doc[p], s, i)
  /\ Commit(p, [doc[p] EXCEPT ![s] = Without(lines, gone)], lines[i].item)
  /\ written' = written \ {lines[k].item : k \in gone}
  /\ UNCHANGED faults

\* POST /tasks/move: two neighbours of one family change places.
Move(p, s, i, j) ==
  LET lines == doc[p][s] IN
  /\ Tick /\ j = BlockEnd(lines, i) + 1 /\ j <= Len(lines)
  /\ lines[i].depth = lines[j].depth /\ Parent(lines, i) = Parent(lines, j)
  /\ \A k \in {i, j} : IsNote(lines[k]) => Owned(p, s, k)
  /\ \E k \in {i, j} : Editable(doc[p], s, k) /\ asked' = lines[k].item
  /\ doc' = [doc EXCEPT ![p][s] = SubSeq(lines, 1, i - 1) \o Block(lines, j) \o Block(lines, i)
                                  \o SubSeq(lines, BlockEnd(lines, j) + 1, Len(lines))]
  /\ UNCHANGED <<written, faults>>

\* POST /tasks/reparent to the top level: right below the task it was under.
Promote(p, s, i) ==
  LET lines == doc[p][s]  top == TopOf(lines, i)  block == Block(lines, i) IN
  /\ Task(p, s, i) /\ Above(lines, i) # {}
  /\ Commit(p, [doc[p] EXCEPT ![s] = Under(Cut(@, i), top, Rebased(block, 0))], lines[i].item)
  /\ UNCHANGED <<written, faults>>

\* POST /tasks/reparent below another task of the file.
Reparent(p, s, i, t, j) ==
  LET block  == Block(doc[p][s], i)
      parent == doc[p][t][j]
      cut    == [doc[p] EXCEPT ![s] = Cut(@, i)]
      at     == IF s = t /\ j > i THEN j - Len(block) ELSE j
  IN
  /\ Task(p, s, i) /\ Task(p, t, j)
  /\ ~(s = t /\ j \in i..BlockEnd(doc[p][s], i))
  /\ ~(s = t /\ j = Parent(doc[p][s], i) /\ BlockEnd(doc[p][s], j) = BlockEnd(doc[p][s], i))
  /\ Deepest(Rebased(block, ChildIndent(doc[p][t], j))) <= MaxDepth
  /\ Commit(p, [cut EXCEPT ![t] = Under(@, at, Rebased(block, ChildIndent(doc[p][t], j)))], block[1].item)
  /\ UNCHANGED <<written, faults>>

\* Where moveTaskToProject puts a block in the other file.
Placed(p, s, i, q, w) ==
  LET block == Block(doc[p][s], i) IN
  IF w # None THEN [doc[q] EXCEPT ![w[1]] = Under(@, w[2], Rebased(block, ChildIndent(@, w[2])))]
  ELSE IF s = "done" /\ IsTop(doc[p][s], i) /\ block[1].stamp THEN IntoDone(doc[q], Rebased(block, 0))
  ELSE IntoOpen(doc[q], Rebased(block, 0))

\* Mutant of Written: the file the task leaves is written first.
Written_SourceFirst(p, source, q, target) ==
  [doc EXCEPT ![p] = source]

\* The files between the two writes of a move.
Written(p, source, q, target) ==
  [doc EXCEPT ![q] = target]

\* POST /tasks/move-to-project: the target is written, then the source.  When
\* that fails the target is put back, unless that fails too or the hub died.
MoveToProject(p, s, i, q, w) ==
  LET source == [doc[p] EXCEPT ![s] = Cut(@, i)]
      target == Placed(p, s, i, q, w)
  IN
  /\ Tick /\ p # q /\ Task(p, s, i)
  /\ w # None => Task(q, w[1], w[2])
  /\ Fits(target)
  /\ asked' = doc[p][s][i].item
  /\ \/ doc' = [doc EXCEPT ![p] = source, ![q] = target] /\ UNCHANGED faults
     \/ /\ faults < MaxFaults /\ faults' = faults + 1
        /\ doc' = Written(p, source, q, target)
  /\ UNCHANGED written

\* POST /tasks/sweep.
Sweep(p) ==
  /\ Commit(p, Swept(doc[p]), None)
  /\ UNCHANGED <<written, faults>>

\* The user ticks a task of the open section in the vault.
VaultTicks(p, i, status) ==
  /\ i \in DOMAIN doc[p]["open"] /\ ~IsNote(doc[p]["open"][i])
  /\ Commit(p, [doc[p] EXCEPT !["open"][i].status = status], doc[p]["open"][i].item)
  /\ UNCHANGED <<written, faults>>

-----------------------------------------------------------------------------
Everywhere == {w \in Projects \X Sections \X (1..MaxLines) : w[3] \in DOMAIN doc[w[1]][w[2]]}

Next ==
  \/ \E p \in Projects, x \in Items, status \in Statuses : Create(p, x, status)
  \/ \E w \in Everywhere, status \in Statuses : WriteStatus(w[1], w[2], w[3], status)
  \/ \E w \in Everywhere, x \in Items : AddNote(w[1], w[2], w[3], x)
  \/ \E w \in Everywhere : DeleteNote(w[1], w[2], w[3])
  \/ \E w \in Everywhere, j \in 1..MaxLines : Move(w[1], w[2], w[3], j)
  \/ \E w \in Everywhere : Promote(w[1], w[2], w[3])
  \/ \E w \in Everywhere : \E v \in Places(w[1]) : Reparent(w[1], w[2], w[3], v[1], v[2])
  \/ \E w \in Everywhere, q \in Projects : \E v \in Places(q) \cup {None} :
       MoveToProject(w[1], w[2], w[3], q, v)
  \/ \E p \in Projects : Sweep(p)
  \/ \E p \in Projects, i \in 1..MaxLines, status \in {"todo", "done"} : VaultTicks(p, i, status)

Spec == Init /\ [][Next]_vars

-----------------------------------------------------------------------------
(* Properties *)

\* The lines outside finished occurrences.
Live == {w \in Everywhere : Editable(doc[w[1]], w[2], w[3])}

Copies(x) == Cardinality({w \in Live : doc[w[1]][w[2]][w[3]].item = x})

\* What was written is in a file until it is deleted, and nowhere twice: the
\* copies that a recurring task leaves behind are apart, and a move between
\* files that failed may leave a second copy of what it moved, never none (the
\* order of the two writes of moveTaskToProject).
NothingLost ==
  /\ written \subseteq InFiles
  /\ faults = 0 => \A x \in Items : Copies(x) <= IF x \in written THEN 1 ELSE 0

\* The lines below a note.
UnderNote(lines) ==
  {k \in DOMAIN lines : \E i \in 1..(k - 1) : IsNote(lines[i]) /\ k <= BlockEnd(lines, i)}

\* The task an item hangs under, for the lines outside finished occurrences.
Family(w) == LET lines == doc[w[1]][w[2]]  up == Parent(lines, w[3]) IN
             <<lines[w[3]].item, IF up = 0 THEN None ELSE lines[up].item>>
Families  == {Family(w) : w \in Live}
Plain     == {Family(w) : w \in {v \in Live : v[3] \notin UnderNote(doc[v[1]][v[2]])}}

\* No operation tears a family apart or brings two together: apart from the
\* item a request is about, every line keeps the task it hangs under, whatever
\* block is moved, copied, indented anew or put in front of it ("the change
\* would alter other items of the file, nothing was written",
\* tasks-board.ts:328, which only some of the operations check).  Left out is
\* what the user has indented below a note, where deleteBoardNote does not
\* check it.
FamiliesKept ==
  [][doc' # doc =>
       \A x \in Plain : x[1] # asked' /\ x[1] \in written' => x \in Families']_vars

Occurrences(p) ==
  LET lines == doc[p]["done"] IN
  [b \in {Block(lines, i) : i \in {k \in DOMAIN lines : IsOccurrence(doc[p], "done", k)}} |->
     Cardinality({i \in DOMAIN lines : IsOccurrence(doc[p], "done", i) /\ Block(lines, i) = b})]

\* What was finished of a recurring task stays as it was, with every line
\* below it, through all that the hub does to the file (ensureNotOccurrence).
OccurrencesKept ==
  [][doc' # doc => \A p \in Projects :
       \A b \in DOMAIN Occurrences(p) :
         b \in DOMAIN Occurrences(p)' /\ Occurrences(p)'[b] >= Occurrences(p)[b]]_vars

=============================================================================
