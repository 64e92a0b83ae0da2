-------------------------------- MODULE Notes --------------------------------
(***************************************************************************)
(* The note of today (daily.ts, DailyView.tsx): one file that editors of   *)
(* the hub, the vault (Obsidian) and the hub itself write.  An editor      *)
(* saves with the time of the file it was shown and the hub refuses what   *)
(* it takes for a conflict; every write is announced on the event stream.  *)
(* The box of a task in the note and its status on the board mirror each   *)
(* other (tasks-board.ts).                                                 *)
(*                                                                         *)
(* A text is known by a number, and says whether the box is ticked; a time *)
(* is the number of the write, no two in the same millisecond.  A request  *)
(* of an editor and its answer take their time and may overtake others;    *)
(* the hub serves one at a time, without a break.                          *)
(***************************************************************************)
EXTENDS Naturals, Sequences, FiniteSets

CONSTANTS
  Editors,    \* windows of the interface that show the note
  MaxTexts,   \* bound: texts ever written
  MaxWrites,  \* bound: writes of the file
  MaxNet,     \* bound: requests and answers of an editor under way
  MaxFaults,  \* bound: failed requests, lost streams and restarts of the hub
  None

ASSUME NotesAssumption ==
  /\ Editors \cap {"hub", "vault"} = {}
  /\ {MaxTexts, MaxWrites} \subseteq Nat \ {0} /\ {MaxNet, MaxFaults} \subseteq Nat
  /\ None \notin Nat

VARIABLES
  marks,  \* the texts written so far: is the box ticked?
  file,   \* the note: its text, when and by whom it was written
  hub,    \* what the hub knows of its writes: lastHubHash, lastServerWriteAt
  watch,  \* the watcher has an event to look at
  board,  \* the task is done
  editor, \* the state of each window
  stream, \* events on their way to each window; None: the stream is down
  net,    \* requests and answers under way
  edited, \* history: when the vault last changed the note
  seen,   \* history: the last write of the note each window was told of
  faults

vars == <<marks, file, hub, watch, board, editor, stream, net, edited, seen, faults>>

Texts  == 1..MaxTexts
Times  == 0..MaxWrites
Event  == [at : Times, by : Editors \cup {"hub", "vault"}]
\* text 0: an empty window; base 0: the window knows of no file.
Editor == [text : 0..MaxTexts, saved : 0..MaxTexts, base : Times, saving : BOOLEAN,
           conflict : Times \cup {None}, pending : Event \cup {None}]
Message == [kind : {"put", "get", "ok", "conflict", "failed", "got"}, text : 0..MaxTexts, at : Times,
            meant : BOOLEAN]

TypeOK ==
  /\ marks \in Seq(BOOLEAN) /\ Len(marks) <= MaxTexts
  /\ file \in [text : 0..MaxTexts, at : Times, by : Editors \cup {"hub", "vault"}]
  /\ hub \in [hash : 0..MaxTexts \cup {None}, at : Times]
  /\ watch \in BOOLEAN /\ board \in BOOLEAN
  /\ editor \in [Editors -> Editor]
  /\ stream \in [Editors -> Seq(Event) \cup {None}]
  /\ net \in [Editors -> SUBSET Message]
  /\ edited \in Times /\ seen \in [Editors -> Times]
  /\ faults \in 0..MaxFaults

Exists == file.at > 0
Ticked(text) == text > 0 /\ marks[text]

Init ==
  /\ \/ marks = <<FALSE>> /\ file = [text |-> 1, at |-> 1, by |-> "vault"]
     \/ marks = <<>> /\ file = [text |-> 0, at |-> 0, by |-> "vault"]
  /\ hub = [hash |-> None, at |-> 0]
  /\ watch = FALSE /\ board = FALSE
  /\ editor = [c \in Editors |->
       [text |-> file.text, saved |-> file.text, base |-> file.at, saving |-> FALSE,
        conflict |-> None, pending |-> None]]
  /\ stream = [c \in Editors |-> <<>>]
  /\ net = [c \in Editors |-> {}]
  /\ edited = file.at /\ seen = [c \in Editors |-> file.at]
  /\ faults = 0

-----------------------------------------------------------------------------
(* Writing the note *)

NewText(ticked) == Len(marks) < MaxTexts /\ marks' = Append(marks, ticked)
LastText == Len(marks) + 1

Announce(at, by) ==
  stream' = [c \in Editors |-> IF stream[c] = None THEN None
                               ELSE Append(stream[c], [at |-> at, by |-> by])]

\* writeDaily, once it has decided to write.
Write(text, by) ==
  /\ file.at < MaxWrites
  /\ file' = [text |-> text, at |-> file.at + 1, by |-> by]
  /\ hub' = [hash |-> text, at |-> IF by = "hub" THEN file.at + 1 ELSE hub.at]
  /\ watch' = TRUE
  /\ Announce(file.at + 1, by)

\* Mutant of Conflict: what the hub wrote itself is not looked at.
Conflict_NoServerTime(base) ==
  /\ base > 0 /\ Exists
  /\ file.at # base /\ hub.hash # file.text

\* The write of a window is refused: its base is older than a write of the hub
\* itself, or the file is newer and not the hub's last write.
Conflict(base) ==
  /\ base > 0 /\ Exists
  /\ \/ base < hub.at
     \/ file.at # base /\ hub.hash # file.text

\* The vault changes the note, or creates it.
VaultEdit ==
  /\ file.at < MaxWrites
  /\ \E ticked \in BOOLEAN : NewText(ticked)
  /\ file' = [text |-> LastText, at |-> file.at + 1, by |-> "vault"]
  /\ edited' = file.at + 1
  /\ watch' = TRUE
  /\ UNCHANGED <<hub, board, editor, stream, net, seen, faults>>

Watched == hub.hash # file.text

\* handleDailyFsEvent, 300 ms after the last change.
Watch ==
  /\ watch /\ watch' = FALSE
  /\ IF Watched THEN Announce(file.at, "vault") ELSE UNCHANGED stream
  /\ UNCHANGED <<marks, file, hub, board, editor, net, edited, seen, faults>>

\* A status is written on the board, and mirrored in the note; an error of
\* that is swallowed.
BoardWrite(done) ==
  /\ board # done /\ board' = done
  /\ IF Exists /\ Ticked(file.text) # done
     THEN \/ NewText(done) /\ Write(LastText, "hub") /\ UNCHANGED faults
          \/ /\ faults < MaxFaults /\ faults' = faults + 1
             /\ UNCHANGED <<marks, file, hub, watch, stream>>
     ELSE UNCHANGED <<marks, file, hub, watch, stream, faults>>
  /\ UNCHANGED <<editor, net, edited, seen>>

\* "Sync from the daily": the board takes over what the box says.
SyncFromDaily ==
  /\ Exists /\ board # Ticked(file.text) /\ board' = Ticked(file.text)
  /\ UNCHANGED <<marks, file, hub, watch, editor, stream, net, edited, seen, faults>>

\* "Sync to the daily": the box takes over what the board says.
SyncToDaily ==
  /\ Exists /\ board # Ticked(file.text)
  /\ NewText(board) /\ Write(LastText, "hub")
  /\ UNCHANGED <<board, editor, net, edited, seen, faults>>

-----------------------------------------------------------------------------
(* Requests *)

Send(c, m)    == Cardinality(net[c]) < MaxNet /\ net' = [net EXCEPT ![c] = @ \cup {m}]
Answer(c, m, a) == net' = [net EXCEPT ![c] = (@ \ {m}) \cup {a}]
Told(c, at)   == seen' = [seen EXCEPT ![c] = IF at > @ THEN at ELSE @]

Get == [kind |-> "get", text |-> 0, at |-> 0, meant |-> FALSE]
Reply(kind, text, at) == [kind |-> kind, text |-> text, at |-> at, meant |-> FALSE]

ServeGet(c) ==
  /\ Get \in net[c]
  /\ Answer(c, Get, Reply("got", file.text, file.at))
  /\ UNCHANGED <<marks, file, hub, watch, board, editor, stream, edited, seen, faults>>

\* Mutant of Mirrored: the boxes that differ from the board are mirrored,
\* whether the write has changed them or not.
Mirrored_All(before, after) ==
  IF before > 0 /\ board # Ticked(after)
  THEN board' = Ticked(after) /\ UNCHANGED faults
  ELSE UNCHANGED <<board, faults>>

\* syncTasksFromDaily: the board follows a box that the write changed; an error
\* of that is swallowed.
Mirrored(before, after) ==
  IF before > 0 /\ board # Ticked(after) /\ Ticked(before) # Ticked(after)
  THEN \/ board' = Ticked(after) /\ UNCHANGED faults
       \/ faults < MaxFaults /\ faults' = faults + 1 /\ UNCHANGED board
  ELSE UNCHANGED <<board, faults>>

\* PUT /daily/:date.
Accept(c, m) ==
  /\ m \in net[c] /\ m.kind = "put" /\ ~Conflict(m.at)
  /\ Write(m.text, c)
  /\ Mirrored(file.text, m.text)
  /\ Answer(c, m, Reply("ok", m.text, file.at + 1))
  /\ Told(c, file.at + 1)
  /\ UNCHANGED <<marks, editor, edited>>

Refuse(c, m) ==
  /\ m \in net[c] /\ m.kind = "put" /\ Conflict(m.at)
  /\ Answer(c, m, Reply("conflict", 0, file.at))
  /\ UNCHANGED <<marks, file, hub, watch, board, editor, stream, edited, seen, faults>>

\* A save fails, or the answer to it gets lost.
Fail(c, m) ==
  /\ faults < MaxFaults /\ faults' = faults + 1
  /\ m \in net[c] /\ m.kind \in {"put", "ok"}
  /\ Answer(c, m, Reply("failed", m.text, 0))
  /\ UNCHANGED <<marks, file, hub, watch, board, editor, stream, edited, seen>>

\* The hub dies and is started again: what it knew of its writes is gone, with
\* the events and the requests under way.
Restart ==
  /\ faults < MaxFaults /\ faults' = faults + 1
  /\ hub' = [hash |-> None, at |-> 0] /\ watch' = FALSE
  /\ stream' = [c \in Editors |-> None]
  /\ net' = [c \in Editors |->
       {IF m.kind = "put" THEN Reply("failed", m.text, 0) ELSE m : m \in net[c] \ {Get}}]
  /\ UNCHANGED <<marks, file, board, editor, edited, seen>>

-----------------------------------------------------------------------------
(* The window *)

Dirty(c) == editor[c].text # editor[c].saved

\* save: with the time of the file that is shown, or that the user was told of;
\* "meant": the user has changed the box, or insists on the text.
Save(c, w, base, meant) ==
  /\ Send(c, [kind |-> "put", text |-> w.text, at |-> base, meant |-> meant])
  /\ editor' = [editor EXCEPT ![c] = [w EXCEPT !.saving = TRUE]]
  /\ UNCHANGED <<file, hub, watch, board, stream, edited, seen, faults>>

Type(c) ==
  /\ NewText(Ticked(editor[c].text))
  /\ editor' = [editor EXCEPT ![c].text = LastText]
  /\ UNCHANGED <<file, hub, watch, board, stream, net, edited, seen, faults>>

\* 800 ms after the last key, or when the editor is left.
AutoSave(c) ==
  /\ Dirty(c) /\ editor[c].conflict = None
  /\ Save(c, editor[c], editor[c].base, Ticked(editor[c].text) # Ticked(editor[c].saved))
  /\ UNCHANGED marks

\* handleToggle: the user ticks the box of the preview, which saves at once.
Toggle(c) ==
  /\ editor[c].text > 0 /\ NewText(~Ticked(editor[c].text))
  /\ Save(c, [editor[c] EXCEPT !.text = LastText], editor[c].base,
          Ticked(editor[c].text) = Ticked(editor[c].saved))

KeepMine(c) ==
  /\ editor[c].conflict # None
  /\ Save(c, [editor[c] EXCEPT !.conflict = None], editor[c].conflict, TRUE)
  /\ UNCHANGED marks

Reload(c) ==
  /\ editor[c].conflict # None /\ Send(c, Get)
  /\ UNCHANGED <<marks, file, hub, watch, board, editor, stream, edited, seen, faults>>

\* applyDailyDecision, of an event that is not deferred: the box of the
\* conflict is shown, the note is loaded again, or it was our own write.
Decide(c, w, event, dirty) ==
  IF event.by = c
  THEN /\ editor' = [editor EXCEPT ![c] = [w EXCEPT !.base = event.at]]
       /\ UNCHANGED seen
  ELSE IF dirty
  THEN /\ editor' = [editor EXCEPT ![c] = [w EXCEPT !.conflict = event.at]]
       /\ Told(c, event.at)
  ELSE editor' = [editor EXCEPT ![c] = w] /\ UNCHANGED seen

Reloads(c, event, dirty) == event.by # c /\ ~dirty

\* decideDailyEvent.
Receive(c) ==
  /\ stream[c] # None /\ stream[c] # <<>>
  /\ LET event == Head(stream[c]) w == editor[c] IN
     /\ stream' = [stream EXCEPT ![c] = Tail(@)]
     /\ IF event.by # c /\ w.saving
        THEN /\ editor' = [editor EXCEPT ![c].pending = event]
             /\ UNCHANGED <<seen, net>>
        ELSE /\ Decide(c, w, event, Dirty(c))
             /\ IF Reloads(c, event, Dirty(c)) THEN Send(c, Get) ELSE UNCHANGED net
  /\ UNCHANGED <<marks, file, hub, watch, board, edited, faults>>

\* resolvePendingEvent, when a save has ended; "settled" is what was saved.
Resolve(c, m, w, settled) ==
  IF w.pending = None
  THEN /\ editor' = [editor EXCEPT ![c] = w]
       /\ net' = [net EXCEPT ![c] = @ \ {m}] /\ UNCHANGED seen
  ELSE LET dirty == w.text # settled IN
       /\ Decide(c, [w EXCEPT !.pending = None], w.pending, dirty)
       /\ net' = [net EXCEPT ![c] = (@ \ {m}) \cup (IF Reloads(c, w.pending, dirty) THEN {Get} ELSE {})]

Saved(c, m) ==
  /\ m \in net[c] /\ m.kind = "ok"
  /\ Resolve(c, m, [editor[c] EXCEPT !.saved = m.text, !.base = m.at, !.saving = FALSE], m.text)
  /\ UNCHANGED <<marks, file, hub, watch, board, stream, edited, faults>>

NotSaved(c, m) ==
  /\ m \in net[c] /\ m.kind = "failed"
  /\ Resolve(c, m, [editor[c] EXCEPT !.saving = FALSE], m.text)
  /\ UNCHANGED <<marks, file, hub, watch, board, stream, edited, faults>>

Refused(c, m) ==
  /\ m \in net[c] /\ m.kind = "conflict"
  /\ editor' = [editor EXCEPT ![c].conflict = m.at, ![c].saving = FALSE, ![c].pending = None]
  /\ net' = [net EXCEPT ![c] = @ \ {m}]
  /\ Told(c, m.at)
  /\ UNCHANGED <<marks, file, hub, watch, board, stream, edited, faults>>

\* applyLoaded, whatever has been typed since the note was asked for.
Loaded(c, m) ==
  /\ m \in net[c] /\ m.kind = "got"
  /\ editor' = [editor EXCEPT ![c].text = m.text, ![c].saved = m.text, ![c].base = m.at,
                              ![c].saving = FALSE, ![c].conflict = None]
  /\ net' = [net EXCEPT ![c] = @ \ {m}]
  /\ Told(c, m.at)
  /\ UNCHANGED <<marks, file, hub, watch, board, stream, edited, faults>>

\* The stream breaks, and what was on it is lost.
Drop(c) ==
  /\ stream[c] # None /\ faults < MaxFaults /\ faults' = faults + 1
  /\ stream' = [stream EXCEPT ![c] = None]
  /\ UNCHANGED <<marks, file, hub, watch, board, editor, net, edited, seen>>

\* It is back.  The note is loaded again when the hub had counted as offline
\* (justRecovered) and nothing is being written.
Reconnect(c) ==
  /\ stream[c] = None /\ stream' = [stream EXCEPT ![c] = <<>>]
  /\ \/ ~Dirty(c) /\ ~editor[c].saving /\ Send(c, Get)
     \/ UNCHANGED net
  /\ UNCHANGED <<marks, file, hub, watch, board, editor, edited, seen, faults>>

-----------------------------------------------------------------------------
Next ==
  \/ VaultEdit
  \/ Watch
  \/ \E done \in BOOLEAN : BoardWrite(done)
  \/ SyncFromDaily
  \/ SyncToDaily
  \/ Restart
  \/ \E c \in Editors : Type(c)
  \/ \E c \in Editors : Toggle(c)
  \/ \E c \in Editors : AutoSave(c)
  \/ \E c \in Editors : KeepMine(c)
  \/ \E c \in Editors : Reload(c)
  \/ \E c \in Editors : Receive(c)
  \/ \E c \in Editors : Drop(c)
  \/ \E c \in Editors : Reconnect(c)
  \/ \E c \in Editors : ServeGet(c)
  \/ \E c \in Editors : \E m \in net[c] : Accept(c, m)
  \/ \E c \in Editors : \E m \in net[c] : Refuse(c, m)
  \/ \E c \in Editors : \E m \in net[c] : Fail(c, m)
  \/ \E c \in Editors : \E m \in net[c] : Saved(c, m)
  \/ \E c \in Editors : \E m \in net[c] : NotSaved(c, m)
  \/ \E c \in Editors : \E m \in net[c] : Refused(c, m)
  \/ \E c \in Editors : \E m \in net[c] : Loaded(c, m)

Spec == Init /\ [][Next]_vars

-----------------------------------------------------------------------------
(* Properties *)

\* The save of a window is accepted over a write of the note that the window
\* was never told of, although it knew of the note.
Blind(c) == \E m \in net[c] : m.kind = "put" /\ m.at > 0 /\ ~Conflict(m.at) /\ seen[c] < file.at

\* Only what another window wrote is overwritten like that: what the vault
\* wrote last, or the hub itself, is refused with a conflict first, whatever is
\* under way, and also after a restart of the hub (writeDaily).
BlindOnlyOverWindows == \A c \in Editors : Blind(c) => file.by \in Editors

\* The saves of a window that a step accepts.
Accepted(c) ==
  {m \in net[c] \ net'[c] : m.kind = "put" /\ Reply("ok", m.text, file'.at) \in net'[c]}

\* The status of a task changes with a save only when its user changed the box
\* or insisted: what the board or the vault put into the note in the meantime
\* is not taken for the user's wish and undone (syncTasksFromDaily), unless
\* another window has written the note since.
BoxesMeant ==
  [][\A c \in Editors : \A m \in Accepted(c) :
       board' # board => m.meant \/ m.at = 0 \/ file.by \in Editors]_vars

\* An edit in the vault is never overwritten by a save whose window was not
\* told of it: "409 on a conflicting external edit" (DELEGATION.md:327).
VaultEditsStand == \A c \in Editors : Blind(c) => seen[c] >= edited

=============================================================================
