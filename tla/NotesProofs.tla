----------------------------- MODULE NotesProofs -----------------------------
(***************************************************************************)
(* What holds of Notes for any number of windows, texts and writes         *)
(***************************************************************************)
EXTENDS MCVault, TLAPS, SequenceTheorems

USE NotesAssumption

-----------------------------------------------------------------------------
(* Types *)

LEMMA MessagesTyped ==
  /\ Get \in Message
  /\ \A kind \in {"put", "get", "ok", "conflict", "failed", "got"}, text \in 0..MaxTexts, at \in Times :
       Reply(kind, text, at) \in Message
  BY DEF Get, Reply, Message, Times

\* The fields of a window, as the handlers change them.
LEMMA WindowTyped ==
  ASSUME NEW w \in Editor
  PROVE  /\ \A text \in 0..MaxTexts : [w EXCEPT !.text = text] \in Editor
         /\ \A at \in Times : [w EXCEPT !.base = at] \in Editor
         /\ \A at \in Times : [w EXCEPT !.conflict = at] \in Editor
         /\ [w EXCEPT !.conflict = None] \in Editor
         /\ \A e \in Event : [w EXCEPT !.pending = e] \in Editor
         /\ [w EXCEPT !.pending = None] \in Editor
         /\ [w EXCEPT !.saving = TRUE] \in Editor
         /\ [w EXCEPT !.saving = FALSE] \in Editor
         /\ \A text \in 0..MaxTexts, at \in Times : [w EXCEPT !.saved = text, !.base = at, !.saving = FALSE] \in Editor
         /\ \A at \in Times : [w EXCEPT !.conflict = at, !.saving = FALSE, !.pending = None] \in Editor
         /\ \A text \in 0..MaxTexts, at \in Times :
             [w EXCEPT !.text = text, !.saved = text, !.base = at, !.saving = FALSE, !.conflict = None] \in Editor
<1>1. \A text \in 0..MaxTexts : [w EXCEPT !.text = text] \in Editor
  BY Zenon DEF Editor
<1>2. \A at \in Times : [w EXCEPT !.base = at] \in Editor
  BY Zenon DEF Editor
<1>3. \A at \in Times : [w EXCEPT !.conflict = at] \in Editor
  BY Zenon DEF Editor
<1>4. [w EXCEPT !.conflict = None] \in Editor
  BY Zenon DEF Editor
<1>5. \A e \in Event : [w EXCEPT !.pending = e] \in Editor
  BY Zenon DEF Editor
<1>6. [w EXCEPT !.pending = None] \in Editor
  BY Zenon DEF Editor
<1>7. [w EXCEPT !.saving = TRUE] \in Editor
  BY Zenon DEF Editor
<1>8. [w EXCEPT !.saving = FALSE] \in Editor
  BY Zenon DEF Editor
<1>9. \A text \in 0..MaxTexts, at \in Times : [w EXCEPT !.saved = text, !.base = at, !.saving = FALSE] \in Editor
  BY Zenon DEF Editor
<1>10. \A at \in Times : [w EXCEPT !.conflict = at, !.saving = FALSE, !.pending = None] \in Editor
  BY Zenon DEF Editor
<1>11. \A text \in 0..MaxTexts, at \in Times :
         [w EXCEPT !.text = text, !.saved = text, !.base = at, !.saving = FALSE, !.conflict = None] \in Editor
  BY Zenon DEF Editor
<1> QED BY <1>1, <1>2, <1>3, <1>4, <1>5, <1>6, <1>7, <1>8, <1>9, <1>10, <1>11

LEMMA TickedTyped == \A text : Ticked(text) \in BOOLEAN
  BY DEF Ticked

LEMMA NewTextTyped ==
  ASSUME TypeOK, NEW ticked \in BOOLEAN, NewText(ticked)
  PROVE  /\ marks' \in Seq(BOOLEAN) /\ Len(marks') <= MaxTexts
         /\ LastText \in Texts /\ LastText = Len(marks')
         /\ \A i \in 1..Len(marks) : marks'[i] = marks[i]
         /\ marks'[LastText] = ticked
  BY DEF TypeOK, NewText, LastText, Texts

LEMMA AnnounceTyped ==
  ASSUME TypeOK, NEW at \in Times, NEW by \in Editors \cup {"hub", "vault"}, Announce(at, by)
  PROVE  stream' \in [Editors -> Seq(Event) \cup {None}]
<1> DEFINE e == [at |-> at, by |-> by]
<1>1. e \in Event
  BY DEF Event
<1>2. SUFFICES ASSUME NEW c \in Editors, stream[c] # None
      PROVE  Append(stream[c], e) \in Seq(Event)
  BY DEF TypeOK, Announce
<1>3. stream[c] \in Seq(Event)
  BY <1>2 DEF TypeOK
<1> QED BY <1>1, <1>3, AppendProperties

LEMMA WriteTyped ==
  ASSUME TypeOK, NEW text \in 0..MaxTexts, NEW by \in Editors \cup {"hub"}, Write(text, by)
  PROVE  /\ file' \in [text : 0..MaxTexts, at : Times, by : Editors \cup {"hub", "vault"}]
         /\ hub' \in [hash : 0..MaxTexts \cup {None}, at : Times]
         /\ watch' \in BOOLEAN
         /\ stream' \in [Editors -> Seq(Event) \cup {None}]
         /\ file'.at = file.at + 1 /\ file.at + 1 \in Times
<1>1. file.at \in Times /\ file.at + 1 \in Times
  BY DEF TypeOK, Write, Times
<1>2. stream' \in [Editors -> Seq(Event) \cup {None}]
  BY <1>1, AnnounceTyped DEF Write
<1> QED BY <1>1, <1>2 DEF TypeOK, Write, Texts

LEMMA SendTyped ==
  ASSUME TypeOK, NEW c \in Editors, NEW m \in Message, Send(c, m)
  PROVE  net' \in [Editors -> SUBSET Message]
  BY DEF TypeOK, Send

LEMMA AnswerTyped ==
  ASSUME TypeOK, NEW c \in Editors, NEW m, NEW a \in Message, Answer(c, m, a)
  PROVE  net' \in [Editors -> SUBSET Message]
  BY DEF TypeOK, Answer

LEMMA ToldTyped ==
  ASSUME TypeOK, NEW c \in Editors, NEW at \in Times, Told(c, at)
  PROVE  seen' \in [Editors -> Times]
  BY DEF TypeOK, Told

LEMMA SaveTyped ==
  ASSUME TypeOK, NEW c \in Editors, NEW w \in Editor, NEW base \in Times, NEW meant \in BOOLEAN,
         Save(c, w, base, meant)
  PROVE  net' \in [Editors -> SUBSET Message] /\ editor' \in [Editors -> Editor]
<1> DEFINE m == [kind |-> "put", text |-> w.text, at |-> base, meant |-> meant]
<1>1. m \in Message
  BY DEF Message, Editor
<1>2. net' \in [Editors -> SUBSET Message]
  BY <1>1, SendTyped DEF Save
<1>3. editor' \in [Editors -> Editor]
  BY DEF Save, TypeOK, Editor
<1> QED BY <1>2, <1>3

LEMMA DecideTyped ==
  ASSUME TypeOK, NEW c \in Editors, NEW w \in Editor, NEW event \in Event, NEW unsaved, Decide(c, w, event, unsaved)
  PROVE  editor' \in [Editors -> Editor] /\ seen' \in [Editors -> Times]
<1>1. event.at \in Times
  BY DEF Event
<1> DEFINE after == IF event.by = c THEN [w EXCEPT !.base = event.at]
                    ELSE IF unsaved THEN [w EXCEPT !.conflict = event.at] ELSE w
<1>a. after \in Editor
  BY <1>1, WindowTyped
<1>b. editor' = [editor EXCEPT ![c] = after]
  BY DEF Decide
<1>2. editor' \in [Editors -> Editor]
  BY <1>a, <1>b DEF TypeOK
<1>3. seen' \in [Editors -> Times]
  BY <1>1, ToldTyped DEF Decide, TypeOK
<1> QED BY <1>2, <1>3

LEMMA ResolveTyped ==
  ASSUME TypeOK, NEW c \in Editors, NEW w \in Editor, NEW m \in Message, NEW settled, Resolve(c, m, w, settled)
  PROVE  /\ editor' \in [Editors -> Editor] /\ seen' \in [Editors -> Times]
         /\ net' \in [Editors -> SUBSET Message]
<1>1. CASE w.pending = None
  <2>1. editor' = [editor EXCEPT ![c] = w] /\ net' = [net EXCEPT ![c] = @ \ {m}] /\ UNCHANGED seen
    BY <1>1 DEF Resolve
  <2> QED BY <2>1 DEF TypeOK
<1>2. CASE w.pending # None
  <2>1. w.pending \in Event /\ [w EXCEPT !.pending = None] \in Editor
    <3>1. [w EXCEPT !.pending = None] \in Editor
      BY WindowTyped
    <3>2. w.pending \in Event
      BY <1>2 DEF Editor
    <3> QED BY <3>1, <3>2
  <2>2. editor' \in [Editors -> Editor] /\ seen' \in [Editors -> Times]
    BY <1>2, <2>1, DecideTyped DEF Resolve
  <2>3. net' \in [Editors -> SUBSET Message]
    BY <1>2, MessagesTyped DEF Resolve, TypeOK
  <2> QED BY <2>2, <2>3
<1> QED BY <1>1, <1>2

LEMMA InitTyped == Init => TypeOK
<1> SUFFICES ASSUME Init PROVE TypeOK
  OBVIOUS
<1>0. /\ <<>> \in Seq(BOOLEAN) /\ Len(<<>>) = 0
      /\ <<FALSE>> \in Seq(BOOLEAN) /\ Len(<<FALSE>>) = 1
  <2>1. FALSE \in BOOLEAN
    BY Zenon
  <2> QED BY <2>1
<1>a. 0 \in 0..MaxTexts /\ 1 \in 0..MaxTexts /\ 0 \in Times /\ 1 \in Times
  BY DEF Times
<1>1. marks \in Seq(BOOLEAN) /\ Len(marks) <= MaxTexts
  <2>1. marks = <<>> \/ marks = <<FALSE>>
    BY Zenon DEF Init
  <2>2. CASE marks = <<>>
    BY <1>0, <2>2
  <2>3. CASE marks = <<FALSE>>
    BY <1>0, <1>a, <2>3
  <2> QED BY <2>1, <2>2, <2>3
<1>2. file \in [text : 0..MaxTexts, at : Times, by : Editors \cup {"hub", "vault"}]
  <2>1. \/ file = [text |-> 1, at |-> 1, by |-> "vault"]
        \/ file = [text |-> 0, at |-> 0, by |-> "vault"]
    BY Zenon DEF Init
  <2> QED BY <1>a, <2>1
<1>3. editor \in [Editors -> Editor]
  <2>1. file.text \in 0..MaxTexts /\ file.at \in Times
    BY <1>2
  <2>2. [text |-> file.text, saved |-> file.text, base |-> file.at, saving |-> FALSE,
         conflict |-> None, pending |-> None] \in Editor
    BY <2>1, Zenon DEF Editor
  <2> QED BY <2>2 DEF Init
<1>4. stream \in [Editors -> Seq(Event) \cup {None}]
  BY DEF Init
<1>5. net \in [Editors -> SUBSET Message]
  BY DEF Init
<1>6. edited \in Times /\ seen \in [Editors -> Times]
  BY <1>2 DEF Init
<1>7. hub \in [hash : 0..MaxTexts \cup {None}, at : Times]
  BY DEF Init, Times
<1>8. watch \in BOOLEAN /\ board \in BOOLEAN
  BY Zenon DEF Init
<1>9. faults \in 0..MaxFaults
  BY DEF Init
<1> QED BY <1>1, <1>2, <1>3, <1>4, <1>5, <1>6, <1>7, <1>8, <1>9 DEF TypeOK

LEMMA NextTyped == TypeOK /\ [Next]_vars => TypeOK'
<1> SUFFICES ASSUME TypeOK, [Next]_vars PROVE TypeOK'
  OBVIOUS
<1>1. CASE VaultEdit
  <2> PICK ticked \in BOOLEAN : NewText(ticked)
    BY <1>1 DEF VaultEdit
  <2>1. marks' \in Seq(BOOLEAN) /\ Len(marks') <= MaxTexts /\ LastText \in 0..MaxTexts
    BY NewTextTyped DEF Texts
  <2>2. file.at + 1 \in Times
    BY <1>1 DEF VaultEdit, TypeOK, Times
  <2>3. file' \in [text : 0..MaxTexts, at : Times, by : Editors \cup {"hub", "vault"}]
    BY <1>1, <2>1, <2>2 DEF VaultEdit
  <2>4. edited' \in Times /\ watch' \in BOOLEAN
    BY <1>1, <2>2 DEF VaultEdit
  <2>5. UNCHANGED <<hub, board, editor, stream, net, seen, faults>>
    BY <1>1 DEF VaultEdit
  <2> QED BY <2>1, <2>3, <2>4, <2>5 DEF TypeOK
<1>2. CASE Watch
  <2>1. stream' \in [Editors -> Seq(Event) \cup {None}]
    BY <1>2, AnnounceTyped DEF Watch, TypeOK
  <2> QED BY <1>2, <2>1 DEF Watch, TypeOK
<1>3. ASSUME NEW ticked \in BOOLEAN, BoardWrite(ticked) PROVE TypeOK'
  <2>1. CASE NewText(ticked) /\ Write(LastText, "hub") /\ UNCHANGED faults
    BY <1>3, <2>1, NewTextTyped, WriteTyped DEF BoardWrite, TypeOK
  <2>2. CASE UNCHANGED <<marks, file, hub, watch, stream>>
    BY <1>3, <2>2 DEF BoardWrite, TypeOK
  <2> QED BY <1>3, <2>1, <2>2 DEF BoardWrite
<1>4. CASE SyncFromDaily
  BY <1>4 DEF SyncFromDaily, TypeOK, Ticked
<1>5. CASE SyncToDaily
  <2>1. board \in BOOLEAN
    BY DEF TypeOK
  <2> QED BY <1>5, <2>1, NewTextTyped, WriteTyped DEF SyncToDaily, TypeOK
<1>6. CASE Restart
  <2>1. net' \in [Editors -> SUBSET Message]
    <3>1. \A c \in Editors : \A m \in net[c] : m \in Message /\ Reply("failed", m.text, 0) \in Message
      <4> SUFFICES ASSUME NEW c \in Editors, NEW m \in net[c] PROVE m \in Message /\ Reply("failed", m.text, 0) \in Message
        OBVIOUS
      <4>1. m \in Message
        BY DEF TypeOK
      <4>2. m.text \in 0..MaxTexts /\ 0 \in Times
        BY <4>1 DEF Message, Times
      <4> QED BY <4>1, <4>2, MessagesTyped
    <3> QED BY <1>6, <3>1 DEF Restart
  <2>2. hub' \in [hash : 0..MaxTexts \cup {None}, at : Times]
    BY <1>6 DEF Restart, Times
  <2>3. stream' \in [Editors -> Seq(Event) \cup {None}] /\ watch' \in BOOLEAN
    BY <1>6 DEF Restart
  <2>4. faults' \in 0..MaxFaults
    BY <1>6 DEF Restart, TypeOK
  <2> QED BY <1>6, <2>1, <2>2, <2>3, <2>4 DEF Restart, TypeOK
<1>7. ASSUME NEW c \in Editors, Type(c) PROVE TypeOK'
  <2>1. editor[c].text \in 0..MaxTexts
    BY DEF TypeOK, Editor
  <2>2. NewText(Ticked(editor[c].text)) /\ Ticked(editor[c].text) \in BOOLEAN
    BY <1>7, <2>1 DEF Type, Ticked
  <2>3. editor' \in [Editors -> Editor]
    <3>1. editor[c] \in Editor /\ LastText \in 0..MaxTexts
      BY <2>2, NewTextTyped DEF TypeOK, Texts
    <3>2. [editor[c] EXCEPT !.text = LastText] \in Editor
      BY <3>1, WindowTyped
    <3>3. editor' = [editor EXCEPT ![c] = [editor[c] EXCEPT !.text = LastText]]
      BY <1>7 DEF Type
    <3> QED BY <3>2, <3>3 DEF TypeOK
  <2> QED BY <1>7, <2>2, <2>3, NewTextTyped DEF Type, TypeOK
<1>8. ASSUME NEW c \in Editors, Toggle(c) PROVE TypeOK'
  <2> DEFINE w == [editor[c] EXCEPT !.text = LastText]
  <2>a. (~Ticked(editor[c].text)) \in BOOLEAN
    BY DEF Ticked
  <2>1. NewText(~Ticked(editor[c].text))
    BY <1>8 DEF Toggle
  <2>2. w \in Editor /\ editor[c].base \in Times
    <3>1. editor[c] \in Editor /\ LastText \in 0..MaxTexts
      <4>1. LastText \in Texts
        BY <2>a, <2>1, NewTextTyped
      <4> QED BY <4>1 DEF TypeOK, Texts
    <3> QED BY <3>1, WindowTyped DEF Editor
  <2>3. Save(c, w, editor[c].base, Ticked(editor[c].text) = Ticked(editor[c].saved))
    BY <1>8 DEF Toggle
  <2>4. net' \in [Editors -> SUBSET Message] /\ editor' \in [Editors -> Editor]
    BY <2>2, <2>3, SaveTyped
  <2> QED BY <2>a, <2>1, <2>3, <2>4, NewTextTyped DEF Save, TypeOK
<1>9. ASSUME NEW c \in Editors, AutoSave(c) PROVE TypeOK'
  <2>1. editor[c] \in Editor /\ editor[c].base \in Times
    BY DEF TypeOK, Editor
  <2>2. net' \in [Editors -> SUBSET Message] /\ editor' \in [Editors -> Editor]
    BY <1>9, <2>1, SaveTyped DEF AutoSave
  <2> QED BY <1>9, <2>2 DEF AutoSave, Save, TypeOK
<1>10. ASSUME NEW c \in Editors, KeepMine(c) PROVE TypeOK'
  <2>1. [editor[c] EXCEPT !.conflict = None] \in Editor /\ editor[c].conflict \in Times
    <3>1. editor[c] \in Editor
      BY DEF TypeOK
    <3> QED BY <1>10, <3>1, WindowTyped DEF KeepMine, Editor
  <2>2. net' \in [Editors -> SUBSET Message] /\ editor' \in [Editors -> Editor]
    BY <1>10, <2>1, SaveTyped DEF KeepMine
  <2> QED BY <1>10, <2>2 DEF KeepMine, Save, TypeOK
<1>11. ASSUME NEW c \in Editors, Reload(c) PROVE TypeOK'
  BY <1>11, MessagesTyped, SendTyped DEF Reload, TypeOK
<1>12. ASSUME NEW c \in Editors, Receive(c) PROVE TypeOK'
  <2> DEFINE event == Head(stream[c])
  <2>1. stream[c] \in Seq(Event) /\ stream[c] # <<>>
    BY <1>12 DEF Receive, TypeOK
  <2>2. event \in Event /\ Tail(stream[c]) \in Seq(Event)
    BY <2>1, HeadTailProperties
  <2>3. stream' \in [Editors -> Seq(Event) \cup {None}]
    BY <1>12, <2>2 DEF Receive, TypeOK
  <2>4. editor[c] \in Editor
    BY DEF TypeOK
  <2>5. /\ editor' \in [Editors -> Editor] /\ seen' \in [Editors -> Times]
        /\ net' \in [Editors -> SUBSET Message]
    <3>1. CASE event.by # c /\ editor[c].saving
      <4>1. editor' = [editor EXCEPT ![c] = [editor[c] EXCEPT !.pending = event]] /\ UNCHANGED <<seen, net>>
        BY <1>12, <3>1 DEF Receive
      <4>2. [editor[c] EXCEPT !.pending = event] \in Editor
        BY <2>2, <2>4, WindowTyped
      <4> QED BY <4>1, <4>2 DEF TypeOK
    <3>2. CASE ~(event.by # c /\ editor[c].saving)
      <4>1. /\ Decide(c, editor[c], event, Dirty(c))
            /\ Send(c, Get) \/ UNCHANGED net
        BY <1>12, <3>2 DEF Receive
      <4> QED BY <4>1, <2>2, <2>4, DecideTyped, MessagesTyped, SendTyped DEF TypeOK
    <3> QED BY <3>1, <3>2
  <2> QED BY <1>12, <2>3, <2>5 DEF Receive, TypeOK
<1>13. ASSUME NEW c \in Editors, Drop(c) PROVE TypeOK'
  BY <1>13 DEF Drop, TypeOK
<1>14. ASSUME NEW c \in Editors, Reconnect(c) PROVE TypeOK'
  <2>1. net' \in [Editors -> SUBSET Message]
    BY <1>14, MessagesTyped, SendTyped DEF Reconnect, TypeOK
  <2>2. stream' \in [Editors -> Seq(Event) \cup {None}]
    BY <1>14 DEF Reconnect, TypeOK
  <2> QED BY <1>14, <2>1, <2>2 DEF Reconnect, TypeOK
<1>15. ASSUME NEW c \in Editors, ServeGet(c) PROVE TypeOK'
  <2>1. Reply("got", file.text, file.at) \in Message
    BY MessagesTyped DEF TypeOK
  <2> QED BY <1>15, <2>1, AnswerTyped DEF ServeGet, TypeOK
<1>16. ASSUME NEW c \in Editors, NEW m \in net[c], Accept(c, m) PROVE TypeOK'
  <2>1. m \in Message /\ m.text \in 0..MaxTexts
    BY DEF TypeOK, Message
  <2>2. Write(m.text, c) /\ Answer(c, m, Reply("ok", m.text, file.at + 1)) /\ Told(c, file.at + 1)
    BY <1>16 DEF Accept
  <2>3. /\ file' \in [text : 0..MaxTexts, at : Times, by : Editors \cup {"hub", "vault"}]
        /\ hub' \in [hash : 0..MaxTexts \cup {None}, at : Times]
        /\ watch' \in BOOLEAN
        /\ stream' \in [Editors -> Seq(Event) \cup {None}]
        /\ file.at + 1 \in Times
    BY <2>1, <2>2, WriteTyped
  <2>4. Reply("ok", m.text, file.at + 1) \in Message
    BY <2>1, <2>3, MessagesTyped
  <2>5. net' \in [Editors -> SUBSET Message] /\ seen' \in [Editors -> Times]
    BY <2>2, <2>3, <2>4, AnswerTyped, ToldTyped
  <2>6. board' \in BOOLEAN /\ faults' \in 0..MaxFaults
    BY <1>16, TickedTyped DEF Accept, Mirrored, TypeOK
  <2> QED BY <1>16, <2>3, <2>5, <2>6 DEF Accept, TypeOK
<1>17. ASSUME NEW c \in Editors, NEW m \in net[c], Refuse(c, m) PROVE TypeOK'
  <2>1. Reply("conflict", 0, file.at) \in Message
    BY MessagesTyped DEF TypeOK
  <2> QED BY <1>17, <2>1, AnswerTyped DEF Refuse, TypeOK
<1>18. ASSUME NEW c \in Editors, NEW m \in net[c], Fail(c, m) PROVE TypeOK'
  <2>1. Reply("failed", m.text, 0) \in Message
    <3>1. m \in Message
      BY DEF TypeOK
    <3>2. m.text \in 0..MaxTexts /\ 0 \in Times
      BY <3>1 DEF Message, Times
    <3> QED BY <3>2, MessagesTyped
  <2> QED BY <1>18, <2>1, AnswerTyped DEF Fail, TypeOK
<1>19. ASSUME NEW c \in Editors, NEW m \in net[c], Saved(c, m) PROVE TypeOK'
  <2>1. m \in Message
    BY DEF TypeOK
  <2>2. [editor[c] EXCEPT !.saved = m.text, !.base = m.at, !.saving = FALSE] \in Editor
    <3>1. editor[c] \in Editor /\ m.text \in 0..MaxTexts /\ m.at \in Times
      BY <2>1 DEF TypeOK, Message
    <3> QED BY <3>1, WindowTyped
  <2> QED BY <1>19, <2>1, <2>2, ResolveTyped DEF Saved, TypeOK
<1>20. ASSUME NEW c \in Editors, NEW m \in net[c], NotSaved(c, m) PROVE TypeOK'
  <2>1. m \in Message /\ [editor[c] EXCEPT !.saving = FALSE] \in Editor
    BY WindowTyped DEF TypeOK
  <2> QED BY <1>20, <2>1, ResolveTyped DEF NotSaved, TypeOK
<1>21. ASSUME NEW c \in Editors, NEW m \in net[c], Refused(c, m) PROVE TypeOK'
  <2>1. m.at \in Times
    BY DEF TypeOK, Message
  <2>2. editor' \in [Editors -> Editor]
    <3>1. [editor[c] EXCEPT !.conflict = m.at, !.saving = FALSE, !.pending = None] \in Editor
      BY <2>1, WindowTyped DEF TypeOK
    <3>2. editor' = [editor EXCEPT ![c] = [editor[c] EXCEPT !.conflict = m.at, !.saving = FALSE, !.pending = None]]
      BY <1>21 DEF Refused, TypeOK
    <3> QED BY <3>1, <3>2 DEF TypeOK
  <2> QED BY <1>21, <2>1, <2>2, ToldTyped DEF Refused, TypeOK
<1>22. ASSUME NEW c \in Editors, NEW m \in net[c], Loaded(c, m) PROVE TypeOK'
  <2>1. m.at \in Times /\ m.text \in 0..MaxTexts
    BY DEF TypeOK, Message
  <2>2. editor' \in [Editors -> Editor]
    <3>1. [editor[c] EXCEPT !.text = m.text, !.saved = m.text, !.base = m.at, !.saving = FALSE, !.conflict = None] \in Editor
      BY <2>1, WindowTyped DEF TypeOK
    <3>2. editor' = [editor EXCEPT ![c] = [editor[c] EXCEPT !.text = m.text, !.saved = m.text, !.base = m.at, !.saving = FALSE, !.conflict = None]]
      BY <1>22 DEF Loaded, TypeOK
    <3> QED BY <3>1, <3>2 DEF TypeOK
  <2> QED BY <1>22, <2>1, <2>2, ToldTyped DEF Loaded, TypeOK
<1>23. CASE UNCHANGED vars
  BY <1>23 DEF vars, TypeOK
<1> QED
  BY <1>1, <1>2, <1>3, <1>4, <1>5, <1>6, <1>7, <1>8, <1>9, <1>10, <1>11, <1>12, <1>13, <1>14,
     <1>15, <1>16, <1>17, <1>18, <1>19, <1>20, <1>21, <1>22, <1>23 DEF Next

\* Every variable keeps its type.
THEOREM TypeCorrect == Spec => []TypeOK
  BY InitTyped, NextTyped, PTL DEF Spec

-----------------------------------------------------------------------------
(* What a window and the hub know of the note *)

\* The hub can tell its own last write and the vault's from any other.
FileOK ==
  /\ file.text <= Len(marks)
  /\ file.text > 0 => file.at > 0
  /\ hub.hash # None => hub.hash <= Len(marks)
  /\ file.by = "vault" => hub.hash # file.text
  /\ file.by = "hub" /\ hub.hash # None => hub.at = file.at

\* A time at which the note was last written, and not by a window.
Latest(at) == at = file.at /\ file.by \notin Editors

\* A save names a time its window was told of.  When that is the last write,
\* its box is the one of the note unless its user has changed it.
MessageOK(c, m) ==
  /\ m.text <= Len(marks) /\ m.at <= file.at
  /\ m.kind \in {"put", "ok"} => m.at <= seen[c]
  /\ Latest(m.at) =>
       /\ m.kind # "ok"
       /\ m.kind = "got" => m.text = file.text
       /\ m.kind = "put" /\ ~m.meant => (Ticked(m.text) <=> Ticked(file.text))

EventOK(c, e) ==
  /\ e.at <= file.at
  /\ e.by = c => e.at <= seen[c] /\ ~Latest(e.at)

WindowOK(c, w) ==
  /\ w.text <= Len(marks) /\ w.saved <= Len(marks)
  /\ w.base <= seen[c]
  /\ w.conflict # None => w.conflict <= seen[c]
  /\ w.pending # None => EventOK(c, w.pending)
  /\ Latest(w.base) => (Ticked(w.saved) <=> Ticked(file.text))

NotesInv ==
  /\ TypeOK
  /\ FileOK
  /\ \A c \in Editors :
       /\ seen[c] <= file.at
       /\ WindowOK(c, editor[c])
       /\ \A m \in net[c] : MessageOK(c, m)
       /\ stream[c] # None => \A i \in 1..Len(stream[c]) : EventOK(c, stream[c][i])

\* What every step does to what the facts above are about.
Grows ==
  /\ Len(marks) <= Len(marks') /\ \A i \in 1..Len(marks) : marks'[i] = marks[i]
  /\ file' = file \/ file'.at = file.at + 1
  /\ \A c \in Editors : seen[c] <= seen'[c]

LEMMA TickedKept ==
  ASSUME TypeOK, Grows, NEW text \in Nat, text <= Len(marks)
  PROVE  text <= Len(marks') /\ (Ticked(text)' <=> Ticked(text))
<1>1. Len(marks) \in Nat
  BY LenProperties DEF TypeOK
<1> QED BY <1>1 DEF Grows, Ticked

LEMMA LatestKept ==
  ASSUME TypeOK, Grows, NEW at \in Times, at <= file.at, Latest(at)'
  PROVE  file' = file /\ Latest(at)
<1>1. file.at \in Nat /\ at \in Nat
  BY DEF TypeOK, Times
<1> QED BY <1>1 DEF Grows, Latest

LEMMA MessageKept ==
  ASSUME TypeOK, TypeOK', Grows, FileOK, NEW c \in Editors, NEW m \in Message, MessageOK(c, m)
  PROVE  MessageOK(c, m)'
<1>1. /\ m.text \in Nat /\ m.at \in Times /\ m.at \in Nat /\ file.at \in Nat /\ file'.at \in Nat /\ file.text \in Nat
      /\ seen[c] \in Nat /\ seen'[c] \in Nat /\ Len(marks) \in Nat /\ Len(marks') \in Nat
  BY LenProperties DEF TypeOK, Times, Message
<1>2. m.text <= Len(marks') /\ m.at <= file'.at /\ (m.kind \in {"put", "ok"} => m.at <= seen'[c])
  BY <1>1, SMTT(60) DEF MessageOK, Grows
<1>3. ASSUME Latest(m.at)'
      PROVE  /\ m.kind # "ok"
             /\ m.kind = "got" => m.text = file'.text
             /\ m.kind = "put" /\ ~m.meant => (Ticked(m.text)' <=> Ticked(file.text)')
  <2>1. file' = file /\ Latest(m.at)
    BY <1>1, <1>3, LatestKept DEF MessageOK
  <2>2. (Ticked(m.text)' <=> Ticked(m.text)) /\ (Ticked(file.text)' <=> Ticked(file.text))
    <3>1. \A text \in Nat : text <= Len(marks) => (text > 0 /\ marks'[text]) <=> (text > 0 /\ marks[text])
      BY TickedKept DEF Ticked
    <3> QED BY <1>1, <2>1, <3>1 DEF MessageOK, FileOK, Ticked
  <2> QED BY <2>1, <2>2 DEF MessageOK
<1> QED BY <1>2, <1>3 DEF MessageOK

LEMMA EventKept ==
  ASSUME TypeOK, TypeOK', Grows, NEW c \in Editors, NEW e \in Event, EventOK(c, e)
  PROVE  EventOK(c, e)'
<1>1. /\ e.at \in Times /\ e.at \in Nat /\ file.at \in Nat /\ file'.at \in Nat
      /\ seen[c] \in Nat /\ seen'[c] \in Nat
  BY DEF TypeOK, Times, Event
<1>2. e.at <= file'.at /\ (e.by = c => e.at <= seen'[c])
  BY <1>1 DEF EventOK, Grows
<1>3. e.by = c => ~Latest(e.at)'
  BY <1>1, LatestKept DEF EventOK
<1> QED BY <1>2, <1>3 DEF EventOK

LEMMA WindowKept ==
  ASSUME TypeOK, TypeOK', Grows, FileOK, NEW c \in Editors, seen[c] <= file.at, NEW w \in Editor, WindowOK(c, w)
  PROVE  WindowOK(c, w)'
<1>1. /\ w.text \in Nat /\ w.saved \in Nat /\ w.base \in Times /\ w.base \in Nat
      /\ (w.conflict # None => w.conflict \in Nat) /\ (w.pending # None => w.pending \in Event)
      /\ file.at \in Nat /\ file'.at \in Nat /\ file.text \in Nat
      /\ seen[c] \in Nat /\ seen'[c] \in Nat /\ Len(marks) \in Nat /\ Len(marks') \in Nat
  BY LenProperties DEF TypeOK, Times, Editor
<1>2. /\ w.text <= Len(marks') /\ w.saved <= Len(marks') /\ w.base <= seen'[c]
      /\ w.conflict # None => w.conflict <= seen'[c]
  BY <1>1, SMTT(60) DEF WindowOK, Grows
<1>3. w.pending # None => EventOK(c, w.pending)'
  BY <1>1, EventKept DEF WindowOK
<1>4. ASSUME Latest(w.base)' PROVE Ticked(w.saved)' <=> Ticked(file.text)'
  <2>1. file' = file /\ Latest(w.base)
    BY <1>1, <1>4, LatestKept, SMTT(60) DEF WindowOK
  <2>2. (Ticked(w.saved)' <=> Ticked(w.saved)) /\ (Ticked(file.text)' <=> Ticked(file.text))
    <3>1. \A text \in Nat : text <= Len(marks) => (text > 0 /\ marks'[text]) <=> (text > 0 /\ marks[text])
      BY TickedKept DEF Ticked
    <3> QED BY <1>1, <2>1, <3>1 DEF WindowOK, FileOK, Ticked
  <2> QED BY <2>1, <2>2 DEF WindowOK
<1> QED BY <1>2, <1>3, <1>4 DEF WindowOK

\* An event that a window had not yet received.
OldEvent(c, e) == stream[c] # None /\ \E j \in 1..Len(stream[c]) : e = stream[c][j]

\* What is left to show of a step: what it adds.
LEMMA Carried ==
  ASSUME NotesInv, TypeOK', Grows, FileOK',
         \A c \in Editors : seen'[c] <= file'.at,
         \A c \in Editors : editor'[c] = editor[c] \/ WindowOK(c, editor[c])',
         \A c \in Editors : \A m \in net'[c] : m \in net[c] \/ MessageOK(c, m)',
         \A c \in Editors : stream'[c] # None => \A i \in 1..Len(stream'[c]) :
           OldEvent(c, stream'[c][i]) \/ EventOK(c, stream[c][i])'
  PROVE  NotesInv'
<1> SUFFICES ASSUME NEW c \in Editors
    PROVE  /\ WindowOK(c, editor[c])'
           /\ \A m \in net'[c] : MessageOK(c, m)'
           /\ stream'[c] # None => \A i \in 1..Len(stream'[c]) : EventOK(c, stream[c][i])'
  BY DEF NotesInv
<1>1. TypeOK /\ FileOK /\ seen[c] <= file.at
  BY DEF NotesInv
<1>2. WindowOK(c, editor[c])'
  <2>1. CASE WindowOK(c, editor[c])'
    BY <2>1
  <2>2. CASE editor'[c] = editor[c]
    <3>1. editor[c] \in Editor /\ WindowOK(c, editor[c])
      BY DEF NotesInv, TypeOK
    <3>2. PICK w \in Editor : w = editor[c]
      BY <3>1
    <3>3. WindowOK(c, w)'
      BY <1>1, <3>1, <3>2, WindowKept
    <3> QED BY <2>2, <3>2, <3>3 DEF WindowOK
  <2> QED BY <2>1, <2>2
<1>3. \A m \in net'[c] : MessageOK(c, m)'
  <2> SUFFICES ASSUME NEW m \in net'[c], m \in net[c] PROVE MessageOK(c, m)'
    OBVIOUS
  <2>1. m \in Message /\ MessageOK(c, m)
    BY DEF NotesInv, TypeOK
  <2> QED BY <1>1, <2>1, MessageKept
<1>4. ASSUME stream'[c] # None, NEW i \in 1..Len(stream'[c]) PROVE EventOK(c, stream[c][i])'
  <2>1. CASE OldEvent(c, stream'[c][i])
    <3>1. PICK j \in 1..Len(stream[c]) : stream'[c][i] = stream[c][j]
      BY <2>1 DEF OldEvent
    <3>2. stream[c] # None /\ stream[c] \in Seq(Event)
      BY <2>1 DEF OldEvent, NotesInv, TypeOK
    <3>3. stream[c][j] \in Event /\ EventOK(c, stream[c][j])
      BY <3>2, ElementOfSeq DEF NotesInv
    <3>4. PICK e \in Event : e = stream[c][j]
      BY <3>3
    <3>5. EventOK(c, e)'
      BY <1>1, <3>3, <3>4, EventKept
    <3> QED BY <3>1, <3>4, <3>5 DEF EventOK
  <2> QED BY <1>4, <2>1
<1> QED BY <1>2, <1>3, <1>4

\* The facts of numbers that the steps below use.
LEMMA Numbers ==
  ASSUME TypeOK
  PROVE  /\ file.at \in Nat /\ file.text \in Nat /\ Len(marks) \in Nat
         /\ hub.hash # None => hub.hash \in Nat
         /\ \A c \in Editors : seen[c] \in Nat
<1>1. file.at \in Nat /\ file.text \in Nat /\ \A c \in Editors : seen[c] \in Nat
  BY DEF TypeOK, Times
<1>2. Len(marks) \in Nat
  BY LenProperties DEF TypeOK
<1>3. hub.hash \in 0..MaxTexts \cup {None}
  BY DEF TypeOK
<1> QED BY <1>1, <1>2, <1>3

LEMMA WindowNumbers ==
  ASSUME TypeOK, NEW c \in Editors
  PROVE  /\ editor[c] \in Editor
         /\ editor[c].text \in Nat /\ editor[c].saved \in Nat /\ editor[c].base \in Nat
         /\ editor[c].conflict # None => editor[c].conflict \in Nat
         /\ editor[c].pending # None => editor[c].pending \in Event
  BY SMTT(60) DEF TypeOK, Times, Editor

LEMMA MessageNumbers ==
  ASSUME NEW m \in Message
  PROVE  m.text \in Nat /\ m.at \in Nat /\ m.at \in Times /\ m.text \in 0..MaxTexts
  BY DEF Message, Times

LEMMA ToldGrows ==
  ASSUME TypeOK, NEW c \in Editors, NEW at \in Nat, Told(c, at)
  PROVE  /\ \A d \in Editors : seen[d] <= seen'[d]
         /\ at <= seen'[c]
         /\ \A d \in Editors : seen'[d] = seen[d] \/ seen'[d] = at
<1>1. \A d \in Editors : seen[d] \in Nat
  BY DEF TypeOK, Times
<1> QED BY <1>1 DEF Told, TypeOK

LEMMA NewTextGrows ==
  ASSUME TypeOK, NEW ticked \in BOOLEAN, NewText(ticked)
  PROVE  /\ Len(marks) \in Nat /\ LastText = Len(marks) + 1 /\ Len(marks') = LastText
         /\ \A i \in 1..Len(marks) : marks'[i] = marks[i]
         /\ marks'[LastText] = ticked
  BY LenProperties DEF TypeOK, NewText, LastText

\* The events that a write puts on the streams.
LEMMA Announced ==
  ASSUME TypeOK, NEW at \in Times, NEW by \in Editors \cup {"hub", "vault"}, Announce(at, by),
         NEW c \in Editors, stream'[c] # None, NEW i \in 1..Len(stream'[c])
  PROVE  OldEvent(c, stream'[c][i]) \/ stream'[c][i] = [at |-> at, by |-> by]
<1>1. stream[c] # None /\ stream[c] \in Seq(Event) /\ stream'[c] = Append(stream[c], [at |-> at, by |-> by])
  BY DEF TypeOK, Announce
<1>2. CASE i = Len(stream[c]) + 1
  BY <1>1, <1>2
<1>3. CASE i \in 1..Len(stream[c])
  BY <1>1, <1>3 DEF OldEvent
<1>4. i \in 1..(Len(stream[c]) + 1) /\ Len(stream[c]) \in Nat
  BY <1>1
<1> QED BY <1>2, <1>3, <1>4

LEMMA SameStream ==
  ASSUME stream' = stream
  PROVE  \A c \in Editors : stream'[c] # None => \A i \in 1..Len(stream'[c]) :
           OldEvent(c, stream'[c][i]) \/ EventOK(c, stream[c][i])'
  BY DEF OldEvent

\* A step that neither writes the note nor tells a window anything.
LEMMA QuietGrows ==
  ASSUME NotesInv, UNCHANGED <<marks, file, seen>>
  PROVE  /\ Grows /\ \A c \in Editors : seen'[c] <= file'.at
         /\ hub' = hub => FileOK'
<1>1. Len(marks) \in Nat /\ \A c \in Editors : seen[c] \in Nat /\ seen[c] <= file.at
  BY LenProperties DEF NotesInv, TypeOK, Times
<1> QED BY <1>1 DEF NotesInv, Grows, FileOK

LEMMA InitNotes == Init => NotesInv
<1> SUFFICES ASSUME Init PROVE NotesInv
  OBVIOUS
<1>1. TypeOK
  BY InitTyped
<1>2. hub.hash = None
  BY DEF Init
<1>3. /\ file.by = "vault" /\ file.text \in Nat /\ file.text <= Len(marks)
      /\ file.text > 0 => file.at > 0
  <2>1. \/ marks = <<FALSE>> /\ file = [text |-> 1, at |-> 1, by |-> "vault"]
        \/ marks = <<>> /\ file = [text |-> 0, at |-> 0, by |-> "vault"]
    BY Zenon DEF Init
  <2>2. CASE marks = <<FALSE>> /\ file = [text |-> 1, at |-> 1, by |-> "vault"]
    <3>1. Len(marks) = 1
      BY <2>2
    <3> QED BY <2>2, <3>1
  <2>3. CASE marks = <<>> /\ file = [text |-> 0, at |-> 0, by |-> "vault"]
    BY <2>3
  <2> QED BY <2>1, <2>2, <2>3
<1>a. FileOK
  BY <1>2, <1>3 DEF FileOK
<1> SUFFICES ASSUME NEW c \in Editors
    PROVE  /\ seen[c] <= file.at /\ WindowOK(c, editor[c])
           /\ \A m \in net[c] : MessageOK(c, m)
           /\ stream[c] # None => \A i \in 1..Len(stream[c]) : EventOK(c, stream[c][i])
  BY <1>1, <1>a DEF NotesInv
<1>4. /\ seen[c] = file.at /\ net[c] = {} /\ stream[c] = <<>>
      /\ editor[c].text = file.text /\ editor[c].saved = file.text /\ editor[c].base = file.at
      /\ editor[c].conflict = None /\ editor[c].pending = None
  BY DEF Init
<1>5. WindowOK(c, editor[c])
  <2>1. file.text <= Len(marks) /\ file.at <= file.at
    BY <1>1, <1>3, Numbers
  <2> QED BY <1>4, <2>1 DEF WindowOK
<1>6. seen[c] <= file.at
  BY <1>1, <1>4, Numbers
<1> QED BY <1>4, <1>5, <1>6

-----------------------------------------------------------------------------
(* The steps that write the note *)

LEMMA VaultEditKeeps ==
  ASSUME NotesInv, TypeOK', VaultEdit
  PROVE  NotesInv'
<1>1. PICK ticked \in BOOLEAN : NewText(ticked)
  BY DEF VaultEdit
<1>2. TypeOK /\ FileOK /\ file.at \in Nat /\ (hub.hash # None => hub.hash \in Nat)
  BY Numbers DEF NotesInv
<1>3. file'.at = file.at + 1 /\ file'.text = LastText /\ file'.by = "vault" /\ hub' = hub
      /\ UNCHANGED <<editor, stream, net, seen>>
  BY DEF VaultEdit
<1>4. Grows
  BY <1>1, <1>2, <1>3, NewTextGrows, SMTT(60) DEF Grows, NotesInv, TypeOK, Times
<1>5. FileOK'
  BY <1>1, <1>2, <1>3, NewTextGrows DEF FileOK
<1>6. \A c \in Editors : seen'[c] <= file'.at
  <2>1. \A c \in Editors : seen[c] \in Nat /\ seen[c] <= file.at
    BY <1>2, Numbers DEF NotesInv
  <2> QED BY <1>2, <1>3, <2>1
<1> QED BY <1>3, <1>4, <1>5, <1>6, SameStream, Carried

\* The hub writes the box of a task.
LEMMA HubWriteKeeps ==
  ASSUME NotesInv, TypeOK', NEW ticked \in BOOLEAN, NewText(ticked), Write(LastText, "hub"),
         UNCHANGED <<editor, net, seen>>
  PROVE  NotesInv'
<1>1. TypeOK /\ FileOK /\ file.at \in Nat
  BY Numbers DEF NotesInv
<1>2. /\ file'.at = file.at + 1 /\ file'.text = LastText /\ file'.by = "hub"
      /\ hub'.hash = LastText /\ hub'.at = file.at + 1 /\ Announce(file.at + 1, "hub")
      /\ file.at + 1 \in Times
  BY <1>1 DEF Write, Times
<1>3. Grows
  BY <1>1, <1>2, NewTextGrows, SMTT(60) DEF Grows, NotesInv, TypeOK, Times
<1>4. FileOK'
  BY <1>1, <1>2, NewTextGrows DEF FileOK
<1>5. \A c \in Editors : seen'[c] <= file'.at
  <2>1. \A c \in Editors : seen[c] \in Nat /\ seen[c] <= file.at
    BY <1>1, Numbers DEF NotesInv
  <2> QED BY <1>1, <1>2, <2>1
<1>6. ASSUME NEW c \in Editors, stream'[c] # None, NEW i \in 1..Len(stream'[c])
      PROVE  OldEvent(c, stream'[c][i]) \/ EventOK(c, stream[c][i])'
  <2>1. OldEvent(c, stream'[c][i]) \/ stream'[c][i] = [at |-> file.at + 1, by |-> "hub"]
    BY <1>1, <1>2, <1>6, Announced
  <2> QED BY <1>1, <1>2, <2>1 DEF EventOK
<1> QED BY <1>3, <1>4, <1>5, <1>6, Carried

LEMMA AcceptKeeps ==
  ASSUME NotesInv, TypeOK', NEW c \in Editors, NEW m \in net[c], Accept(c, m)
  PROVE  NotesInv'
<1>0. TypeOK /\ m \in Message
  BY DEF NotesInv, TypeOK
<1>1. TypeOK /\ FileOK /\ file.at \in Nat /\ m \in Message /\ MessageOK(c, m) /\ m.text \in Nat
  BY <1>0, Numbers, MessageNumbers DEF NotesInv
<1>2. /\ file'.at = file.at + 1 /\ file'.text = m.text /\ file'.by = c
      /\ hub'.hash = m.text /\ Announce(file.at + 1, c) /\ Told(c, file.at + 1)
      /\ file.at + 1 \in Times /\ UNCHANGED <<marks, editor>>
  BY <1>1 DEF Accept, Write, Times
<1>3. Grows
  BY <1>1, <1>2, ToldGrows, LenProperties DEF Grows, TypeOK
<1>4. FileOK'
  BY <1>1, <1>2 DEF FileOK, MessageOK
<1>5. \A d \in Editors : seen'[d] <= file'.at
  <2>1. \A d \in Editors : seen[d] \in Nat /\ seen[d] <= file.at
    BY <1>1, Numbers DEF NotesInv
  <2>2. \A d \in Editors : seen'[d] = seen[d] \/ seen'[d] = file.at + 1
    <3>1. file.at + 1 \in Nat /\ Told(c, file.at + 1) /\ TypeOK
      BY <1>1, <1>2
    <3> QED BY <3>1, ToldGrows, Zenon
  <2> QED BY <1>1, <1>2, <2>1, <2>2
<1>6. ASSUME NEW d \in Editors, stream'[d] # None, NEW i \in 1..Len(stream'[d])
      PROVE  OldEvent(d, stream'[d][i]) \/ EventOK(d, stream[d][i])'
  <2>1. OldEvent(d, stream'[d][i]) \/ stream'[d][i] = [at |-> file.at + 1, by |-> c]
    BY <1>1, <1>2, <1>6, Announced
  <2>2. file.at + 1 <= seen'[c]
    BY <1>1, <1>2, ToldGrows
  <2> QED BY <1>1, <1>2, <2>1, <2>2 DEF EventOK, Latest
<1>7. ASSUME NEW d \in Editors, NEW n \in net'[d] PROVE n \in net[d] \/ MessageOK(d, n)'
  <2>1. n \in net[d] \/ (d = c /\ n = Reply("ok", m.text, file.at + 1))
    BY <1>1, <1>7 DEF Accept, Answer, TypeOK
  <2>2. file.at + 1 <= seen'[c]
    BY <1>1, <1>2, ToldGrows
  <2> QED BY <1>1, <1>2, <2>1, <2>2 DEF MessageOK, Reply, Latest
<1> QED BY <1>2, <1>3, <1>4, <1>5, <1>6, <1>7, Carried

-----------------------------------------------------------------------------
(* The hub's answers *)

LEMMA ReplyKept ==
  ASSUME NotesInv, NEW c \in Editors, UNCHANGED <<marks, file, seen>>
  PROVE  /\ \A text \in Nat : text <= Len(marks) => MessageOK(c, Reply("failed", text, 0))'
         /\ MessageOK(c, Reply("got", file.text, file.at))'
         /\ MessageOK(c, Reply("conflict", 0, file.at))'
         /\ MessageOK(c, Get)'
<1>1. TypeOK /\ file.text <= Len(marks)
  BY DEF NotesInv, FileOK
<1>2. file.at \in Nat /\ Len(marks) \in Nat
  BY <1>1, Numbers
<1> QED BY <1>1, <1>2 DEF MessageOK, Reply, Get, Latest

\* A step that only changes what is under way to and from one window.
LEMMA AnswerKeeps ==
  ASSUME NotesInv, TypeOK', NEW c \in Editors, UNCHANGED <<marks, file, hub, seen, editor, stream>>,
         \A d \in Editors : \A m \in net'[d] : m \in net[d] \/ (d = c /\ MessageOK(c, m)')
  PROVE  NotesInv'
  BY QuietGrows, SameStream, Carried DEF MessageOK, Latest, Ticked

LEMMA ServeGetKeeps ==
  ASSUME NotesInv, TypeOK', NEW c \in Editors, ServeGet(c)
  PROVE  NotesInv'
<1>1. UNCHANGED <<marks, file, hub, seen, editor, stream>>
  BY DEF ServeGet
<1>2. ASSUME NEW d \in Editors, NEW m \in net'[d]
      PROVE  m \in net[d] \/ (d = c /\ m = Reply("got", file.text, file.at))
  BY <1>2 DEF ServeGet, Answer, NotesInv, TypeOK
<1>3. MessageOK(c, Reply("got", file.text, file.at))'
  BY <1>1, ReplyKept
<1>4. ASSUME NEW d \in Editors, NEW m \in net'[d] PROVE m \in net[d] \/ (d = c /\ MessageOK(c, m)')
  BY <1>1, <1>2, <1>3, <1>4 DEF MessageOK
<1> QED BY <1>1, <1>4, AnswerKeeps

LEMMA RefuseKeeps ==
  ASSUME NotesInv, TypeOK', NEW c \in Editors, NEW p \in net[c], Refuse(c, p)
  PROVE  NotesInv'
<1>1. UNCHANGED <<marks, file, hub, seen, editor, stream>>
  BY DEF Refuse
<1>2. ASSUME NEW d \in Editors, NEW m \in net'[d]
      PROVE  m \in net[d] \/ (d = c /\ m = Reply("conflict", 0, file.at))
  BY <1>2 DEF Refuse, Answer, NotesInv, TypeOK
<1>3. MessageOK(c, Reply("conflict", 0, file.at))'
  BY <1>1, ReplyKept
<1>4. ASSUME NEW d \in Editors, NEW m \in net'[d] PROVE m \in net[d] \/ (d = c /\ MessageOK(c, m)')
  BY <1>1, <1>2, <1>3, <1>4 DEF MessageOK
<1> QED BY <1>1, <1>4, AnswerKeeps

LEMMA FailKeeps ==
  ASSUME NotesInv, TypeOK', NEW c \in Editors, NEW p \in net[c], Fail(c, p)
  PROVE  NotesInv'
<1>1. UNCHANGED <<marks, file, hub, seen, editor, stream>>
  BY DEF Fail
<1>2. ASSUME NEW d \in Editors, NEW m \in net'[d]
      PROVE  m \in net[d] \/ (d = c /\ m = Reply("failed", p.text, 0))
  BY <1>2 DEF Fail, Answer, NotesInv, TypeOK
<1>3. p \in Message /\ p.text <= Len(marks)
  BY DEF NotesInv, TypeOK, MessageOK
<1>4. MessageOK(c, Reply("failed", p.text, 0))'
  BY <1>1, <1>3, MessageNumbers, ReplyKept
<1>5. ASSUME NEW d \in Editors, NEW m \in net'[d] PROVE m \in net[d] \/ (d = c /\ MessageOK(c, m)')
  BY <1>1, <1>2, <1>4, <1>5 DEF MessageOK
<1> QED BY <1>1, <1>5, AnswerKeeps

LEMMA ReloadKeeps ==
  ASSUME NotesInv, TypeOK', NEW c \in Editors, Send(c, Get),
         UNCHANGED <<marks, file, hub, seen, editor, stream>>
  PROVE  NotesInv'
<1>1. ASSUME NEW d \in Editors, NEW m \in net'[d] PROVE m \in net[d] \/ (d = c /\ m = Get)
  BY <1>1 DEF Send, NotesInv, TypeOK
<1>2. MessageOK(c, Get)'
  BY ReplyKept
<1>3. ASSUME NEW d \in Editors, NEW m \in net'[d] PROVE m \in net[d] \/ (d = c /\ MessageOK(c, m)')
  BY <1>1, <1>2, <1>3 DEF MessageOK
<1> QED BY <1>3, AnswerKeeps

LEMMA RestartKeeps ==
  ASSUME NotesInv, TypeOK', Restart
  PROVE  NotesInv'
<1>1. UNCHANGED <<marks, file, seen, editor>> /\ hub'.hash = None /\ \A c \in Editors : stream'[c] = None
  BY DEF Restart
<1>2. Grows /\ \A c \in Editors : seen'[c] <= file'.at
  BY <1>1, QuietGrows
<1>3. FileOK'
  <2>1. TypeOK /\ FileOK
    BY DEF NotesInv
  <2>2. file.text # None
    BY <2>1, Numbers
  <2> QED BY <1>1, <2>1, <2>2 DEF FileOK
<1>4. ASSUME NEW c \in Editors, NEW m \in net'[c] PROVE m \in net[c] \/ MessageOK(c, m)'
  <2>1. m \in net[c] \/ \E p \in net[c] : m = Reply("failed", p.text, 0)
    BY <1>4 DEF Restart
  <2>2. ASSUME NEW p \in net[c], m = Reply("failed", p.text, 0) PROVE MessageOK(c, m)'
    <3>1. p \in Message /\ p.text <= Len(marks)
      BY DEF NotesInv, TypeOK, MessageOK
    <3>2. MessageOK(c, Reply("failed", p.text, 0))'
      BY <1>1, <3>1, MessageNumbers, ReplyKept
    <3> QED BY <1>1, <2>2, <3>2 DEF MessageOK
  <2> QED BY <2>1, <2>2
<1> QED BY <1>1, <1>2, <1>3, <1>4, Carried

LEMMA WatchKeeps ==
  ASSUME NotesInv, TypeOK', Watch
  PROVE  NotesInv'
<1>1. UNCHANGED <<marks, file, hub, seen, editor, net>>
  BY DEF Watch
<1>2. TypeOK /\ file.at \in Times /\ file.at \in Nat
  BY Numbers DEF NotesInv, TypeOK
<1>3. ASSUME NEW c \in Editors, stream'[c] # None, NEW i \in 1..Len(stream'[c])
      PROVE  OldEvent(c, stream'[c][i]) \/ EventOK(c, stream[c][i])'
  <2>1. CASE stream' = stream
    BY <1>3, <2>1, SameStream
  <2>2. CASE Announce(file.at, "vault")
    <3>1. OldEvent(c, stream'[c][i]) \/ stream'[c][i] = [at |-> file.at, by |-> "vault"]
      BY <1>2, <1>3, <2>2, Announced
    <3> QED BY <1>1, <1>2, <3>1 DEF EventOK
  <2> QED BY <2>1, <2>2 DEF Watch
<1> QED BY <1>1, <1>3, QuietGrows, Carried

-----------------------------------------------------------------------------
(* The window *)

LEMMA TypeKeeps ==
  ASSUME NotesInv, TypeOK', NEW c \in Editors, Type(c)
  PROVE  NotesInv'
<1> DEFINE ticked == Ticked(editor[c].text)
<1>1. NewText(ticked) /\ ticked \in BOOLEAN /\ UNCHANGED <<file, hub, seen, net, stream>>
  BY TickedTyped DEF Type
<1>2. TypeOK /\ FileOK /\ WindowOK(c, editor[c])
  BY DEF NotesInv
<1>3. Grows /\ \A d \in Editors : seen'[d] <= file'.at
  BY <1>1, <1>2, NewTextGrows, Numbers DEF NotesInv, Grows
<1>4. FileOK'
  BY <1>1, <1>2, NewTextGrows, Numbers DEF FileOK
<1>5. ASSUME NEW d \in Editors PROVE editor'[d] = editor[d] \/ WindowOK(d, editor[d])'
  <2>1. d # c => editor'[d] = editor[d]
    BY DEF Type, NotesInv, TypeOK
  <2>2. PICK w \in Editor : w = editor[c]
    BY <1>2, WindowNumbers
  <2>3. WindowOK(c, w)'
    BY <1>2, <1>3, <2>2, WindowKept DEF NotesInv
  <2>4. editor'[c] = [w EXCEPT !.text = LastText]
    BY <2>2 DEF Type, NotesInv, TypeOK
  <2>5. /\ editor'[c].text = LastText /\ editor'[c].saved = w.saved /\ editor'[c].base = w.base
        /\ editor'[c].conflict = w.conflict /\ editor'[c].pending = w.pending
    BY <2>4 DEF Editor
  <2>6. LastText <= Len(marks')
    BY <1>1, <1>2, NewTextGrows
  <2>7. WindowOK(c, editor[c])'
    BY <2>3, <2>5, <2>6 DEF WindowOK
  <2> QED BY <2>1, <2>7
<1> QED BY <1>1, <1>3, <1>4, <1>5, SameStream, Carried

\* A save is in order when the text and the base are: the base is one the
\* window was told of, and when that is the last write, the box is that of the
\* note unless the user means it.
LEMMA SaveKeeps ==
  ASSUME NotesInv, TypeOK', NEW c \in Editors, NEW w \in Editor, NEW base \in Times, NEW meant \in BOOLEAN,
         Save(c, w, base, meant), Grows, FileOK', WindowOK(c, w)', base <= seen[c],
         Latest(base) /\ ~meant => (Ticked(w.text)' <=> Ticked(file.text)')
  PROVE  NotesInv'
<1> DEFINE sent == [kind |-> "put", text |-> w.text, at |-> base, meant |-> meant]
<1>1. UNCHANGED <<file, hub, seen, stream>>
  BY DEF Save
<1>2. /\ TypeOK /\ file.at \in Nat /\ base \in Nat
      /\ \A d \in Editors : seen[d] \in Nat /\ seen[d] <= file.at
  BY Numbers DEF NotesInv, Times
<1>3. ASSUME NEW d \in Editors, NEW m \in net'[d] PROVE m \in net[d] \/ MessageOK(d, m)'
  <2>1. m \in net[d] \/ (d = c /\ m = sent)
    BY <1>2, <1>3 DEF Save, Send, TypeOK
  <2>2. CASE d = c /\ m = sent
    <3>1. m.text = w.text /\ m.at = base /\ m.kind = "put" /\ m.meant = meant
      BY <2>2
    <3>2. m.text <= Len(marks') /\ m.at <= file.at /\ m.at <= seen[c]
      BY <1>2, <3>1 DEF WindowOK
    <3>3. Latest(m.at) /\ ~m.meant => (Ticked(m.text)' <=> Ticked(file.text)')
      BY <3>1 DEF Latest, Ticked
    <3> QED BY <1>1, <2>2, <3>1, <3>2, <3>3 DEF MessageOK, Latest
  <2> QED BY <2>1, <2>2
<1>4. ASSUME NEW d \in Editors PROVE editor'[d] = editor[d] \/ WindowOK(d, editor[d])'
  <2>1. d # c => editor'[d] = editor[d]
    BY <1>2 DEF Save, TypeOK
  <2>2. editor'[c] = [w EXCEPT !.saving = TRUE]
    BY <1>2 DEF Save, TypeOK
  <2>3. /\ editor'[c].text = w.text /\ editor'[c].saved = w.saved /\ editor'[c].base = w.base
        /\ editor'[c].conflict = w.conflict /\ editor'[c].pending = w.pending
    BY <2>2 DEF Editor
  <2>4. WindowOK(c, editor[c])'
    BY <2>3 DEF WindowOK
  <2> QED BY <2>1, <2>4
<1>5. \A d \in Editors : seen'[d] <= file'.at
  BY <1>1, <1>2
<1> QED BY <1>1, <1>3, <1>4, <1>5, SameStream, Carried

LEMMA ToggleKeeps ==
  ASSUME NotesInv, TypeOK', NEW c \in Editors, Toggle(c)
  PROVE  NotesInv'
<1>1. PICK ticked \in BOOLEAN : ticked <=> ~Ticked(editor[c].text)
  BY TickedTyped, Zenon
<1>2. PICK meant \in BOOLEAN : meant <=> (Ticked(editor[c].text) = Ticked(editor[c].saved))
  BY Zenon
<1>3. TypeOK /\ FileOK /\ WindowOK(c, editor[c]) /\ seen[c] <= file.at
  BY DEF NotesInv
<1>4. NewText(ticked)
  <2>1. (~Ticked(editor[c].text)) \in BOOLEAN
    BY Zenon
  <2>2. ticked = ~Ticked(editor[c].text)
    BY <1>1, <2>1, Zenon
  <2> QED BY <2>2, Zenon DEF Toggle
<1>5. PICK v \in Editor : v = editor[c]
  BY <1>3, WindowNumbers
<1>6. LastText \in 0..MaxTexts /\ LastText \in Nat /\ LastText > 0 /\ LastText <= Len(marks') /\ marks'[LastText] = ticked
  BY <1>3, <1>4, NewTextTyped, NewTextGrows DEF Texts
<1>7. PICK w \in Editor : w = [v EXCEPT !.text = LastText]
  BY <1>6, WindowTyped
<1>8. Save(c, w, v.base, meant)
  <2>1. (Ticked(editor[c].text) = Ticked(editor[c].saved)) = meant
    BY <1>2, Zenon
  <2>2. Save(c, [v EXCEPT !.text = LastText], v.base, Ticked(editor[c].text) = Ticked(editor[c].saved))
    BY <1>5, Zenon DEF Toggle
  <2> QED BY <1>7, <2>1, <2>2, Zenon
<1>9. UNCHANGED <<file, hub, seen, stream>>
  BY <1>8 DEF Save
<1>10. Grows
  BY <1>3, <1>4, <1>9, NewTextGrows, Numbers DEF Grows
<1>11. FileOK'
  BY <1>3, <1>4, <1>9, NewTextGrows, Numbers DEF FileOK
<1>12. WindowOK(c, v)'
  BY <1>3, <1>5, <1>10, WindowKept
<1>13. /\ w.text = LastText /\ w.saved = v.saved /\ w.base = v.base
       /\ w.conflict = v.conflict /\ w.pending = v.pending
  BY <1>7 DEF Editor
<1>14. WindowOK(c, w)'
  BY <1>6, <1>12, <1>13 DEF WindowOK
<1>15. Ticked(w.text)' <=> ticked
  BY <1>6, <1>13 DEF Ticked
<1>16. ASSUME Latest(v.base), ~meant PROVE Ticked(w.text)' <=> Ticked(file.text)'
  <2>1. Ticked(editor[c].saved) <=> Ticked(file.text)
    BY <1>3, <1>5, <1>16 DEF WindowOK
  <2>2. Ticked(file.text)' <=> Ticked(file.text)
    <3>1. \A text \in Nat : text <= Len(marks) => (text > 0 /\ marks'[text]) <=> (text > 0 /\ marks[text])
      BY <1>3, <1>10, TickedKept DEF Ticked
    <3> QED BY <1>3, <1>9, <3>1, Numbers DEF FileOK, Ticked
  <2>3. ticked <=> Ticked(editor[c].saved)
    BY <1>1, <1>2, <1>16, TickedTyped, Zenon
  <2> QED BY <1>15, <2>1, <2>2, <2>3
<1>17. v.base \in Times /\ v.base <= seen[c]
  BY <1>3, <1>5 DEF WindowOK, Editor
<1> QED BY <1>8, <1>10, <1>11, <1>14, <1>16, <1>17, SaveKeeps

LEMMA AutoSaveKeeps ==
  ASSUME NotesInv, TypeOK', NEW c \in Editors, AutoSave(c)
  PROVE  NotesInv'
<1> DEFINE meant == Ticked(editor[c].text) # Ticked(editor[c].saved)
<1>1. Save(c, editor[c], editor[c].base, meant) /\ UNCHANGED marks
  BY DEF AutoSave
<1>2. TypeOK /\ FileOK /\ WindowOK(c, editor[c]) /\ seen[c] <= file.at
  BY DEF NotesInv
<1>3. UNCHANGED <<file, hub, seen, stream>>
  BY <1>1 DEF Save
<1>4. Grows /\ FileOK'
  BY <1>1, <1>3, QuietGrows
<1>5. PICK w \in Editor : w = editor[c]
  BY <1>2, WindowNumbers
<1>6. WindowOK(c, w)'
  BY <1>2, <1>4, <1>5, WindowKept
<1>7. meant \in BOOLEAN
  BY Zenon
<1>8. w.base \in Times /\ w.base <= seen[c]
  BY <1>2, <1>5 DEF WindowOK, Editor
<1>9. ASSUME Latest(w.base), ~meant PROVE Ticked(w.text)' <=> Ticked(file.text)'
  <2>1. Ticked(w.saved) <=> Ticked(file.text)
    BY <1>2, <1>5, <1>9 DEF WindowOK
  <2>2. Ticked(w.text) <=> Ticked(w.saved)
    BY <1>5, <1>9
  <2> QED BY <1>1, <1>3, <2>1, <2>2 DEF Ticked
<1> HIDE DEF meant
<1> QED BY <1>1, <1>4, <1>5, <1>6, <1>7, <1>8, <1>9, SaveKeeps

LEMMA KeepMineKeeps ==
  ASSUME NotesInv, TypeOK', NEW c \in Editors, KeepMine(c)
  PROVE  NotesInv'
<1>1. TypeOK /\ FileOK /\ WindowOK(c, editor[c]) /\ seen[c] <= file.at
  BY DEF NotesInv
<1>2. PICK v \in Editor : v = editor[c]
  BY <1>1, WindowNumbers
<1>3. PICK w \in Editor : w = [v EXCEPT !.conflict = None]
  BY WindowTyped
<1>4. Save(c, w, v.conflict, TRUE) /\ UNCHANGED marks /\ v.conflict # None
  BY <1>2, <1>3 DEF KeepMine
<1>5. UNCHANGED <<file, hub, seen, stream>>
  BY <1>4 DEF Save
<1>6. Grows /\ FileOK'
  BY <1>4, <1>5, QuietGrows
<1>7. WindowOK(c, v)'
  BY <1>1, <1>2, <1>6, WindowKept
<1>8. /\ w.text = v.text /\ w.saved = v.saved /\ w.base = v.base
      /\ w.conflict = None /\ w.pending = v.pending
  BY <1>3 DEF Editor
<1>9. WindowOK(c, w)'
  BY <1>7, <1>8 DEF WindowOK
<1>10. v.conflict \in Times /\ v.conflict <= seen[c]
  BY <1>1, <1>2, <1>4 DEF WindowOK, Editor
<1>11. TRUE \in BOOLEAN
  BY Zenon
<1> QED BY <1>4, <1>6, <1>9, <1>10, <1>11, SaveKeeps

-----------------------------------------------------------------------------
(* Events and answers *)

\* A window takes in an event or an answer: the window stays in order, and at
\* most a request to load the note is sent.
LEMMA TakeInKeeps ==
  ASSUME NotesInv, TypeOK', NEW c \in Editors, UNCHANGED <<marks, file, hub>>, Grows,
         \A d \in Editors : seen'[d] <= file.at,
         \A d \in Editors : editor'[d] = editor[d] \/ WindowOK(d, editor[d])',
         \A d \in Editors : \A m \in net'[d] : m \in net[d] \/ m = Get,
         \A d \in Editors : stream'[d] # None => \A i \in 1..Len(stream'[d]) : OldEvent(d, stream'[d][i])
  PROVE  NotesInv'
<1>1. FileOK' /\ file' = file
  BY DEF NotesInv, FileOK
<1>2. ASSUME NEW d \in Editors, NEW m \in net'[d] PROVE m \in net[d] \/ MessageOK(d, m)'
  <2>1. MessageOK(d, Get)'
    <3>1. /\ Get.text = 0 /\ Get.at = 0 /\ Get.kind = "get"
      BY DEF Get
    <3>2. Len(marks') \in Nat /\ file'.at \in Nat
      BY <1>1, Numbers DEF NotesInv
    <3> QED BY <3>1, <3>2 DEF MessageOK, Get
  <2>2. m = Get => MessageOK(d, m)'
    BY <2>1 DEF MessageOK, Get
  <2> QED BY <1>2, <2>2
<1> QED BY <1>1, <1>2, Carried

\* The streams of the other windows, and what is left of this one's.
LEMMA NoNewEvents ==
  ASSUME NotesInv, NEW c \in Editors,
         \/ stream' = stream
         \/ stream' = [stream EXCEPT ![c] = None]
         \/ stream' = [stream EXCEPT ![c] = <<>>]
         \/ stream[c] # None /\ stream[c] # <<>> /\ stream' = [stream EXCEPT ![c] = Tail(@)]
  PROVE  \A d \in Editors : stream'[d] # None => \A i \in 1..Len(stream'[d]) : OldEvent(d, stream'[d][i])
<1> SUFFICES ASSUME NEW d \in Editors, stream'[d] # None, NEW i \in 1..Len(stream'[d])
    PROVE  OldEvent(d, stream'[d][i])
  OBVIOUS
<1>1. stream \in [Editors -> Seq(Event) \cup {None}]
  BY DEF NotesInv, TypeOK
<1>2. CASE stream'[d] = stream[d]
  BY <1>2 DEF OldEvent
<1>3. CASE d = c /\ stream'[c] = <<>>
  BY <1>3
<1>4. CASE d = c /\ stream[c] # None /\ stream[c] # <<>> /\ stream'[c] = Tail(stream[c])
  <2>1. stream[c] \in Seq(Event)
    BY <1>1, <1>4
  <2>2. Len(stream[c]) \in Nat /\ Len(Tail(stream[c])) = Len(stream[c]) - 1
    BY <1>4, <2>1, HeadTailProperties, LenProperties
  <2>3. i + 1 \in 1..Len(stream[c]) /\ Tail(stream[c])[i] = stream[c][i + 1]
    BY <1>4, <2>1, <2>2, HeadTailProperties
  <2> QED BY <1>4, <2>3 DEF OldEvent
<1>5. \/ stream'[d] = stream[d]
      \/ d = c /\ stream'[c] = None
      \/ d = c /\ stream'[c] = <<>>
      \/ d = c /\ stream[c] # None /\ stream[c] # <<>> /\ stream'[c] = Tail(stream[c])
  BY <1>1
<1> QED BY <1>2, <1>3, <1>4, <1>5

LEMMA ToldKeeps ==
  ASSUME NotesInv, NEW c \in Editors, UNCHANGED <<marks, file>>, NEW at \in Nat, at <= file.at,
         Told(c, at) \/ UNCHANGED seen
  PROVE  Grows /\ \A d \in Editors : seen'[d] <= file.at
<1>1. TypeOK /\ Len(marks) \in Nat /\ \A d \in Editors : seen[d] \in Nat /\ seen[d] <= file.at
  BY Numbers DEF NotesInv
<1>2. \A d \in Editors : seen[d] <= seen'[d] /\ seen'[d] <= file.at
  BY <1>1, ToldGrows
<1> QED BY <1>1, <1>2 DEF Grows

LEMMA DecideKeeps ==
  ASSUME NotesInv, TypeOK', NEW c \in Editors, UNCHANGED <<marks, file, hub>>, NEW w \in Editor, WindowOK(c, w),
         NEW event \in Event, EventOK(c, event), NEW unsaved, Decide(c, w, event, unsaved)
  PROVE  /\ Grows /\ \A d \in Editors : seen'[d] <= file.at
         /\ \A d \in Editors : editor'[d] = editor[d] \/ WindowOK(d, editor[d])'
<1>1. TypeOK /\ FileOK /\ seen[c] <= file.at /\ file.at \in Nat /\ seen[c] \in Nat
      /\ event.at \in Nat /\ event.at <= file.at /\ (event.by = c => event.at <= seen[c] /\ ~Latest(event.at))
  BY Numbers DEF NotesInv, Event, Times, EventOK
<1>2. Told(c, event.at) \/ UNCHANGED seen
  BY DEF Decide
<1>3. Grows /\ \A d \in Editors : seen'[d] <= file.at
  BY <1>1, <1>2, ToldKeeps
<1>4. WindowOK(c, w)'
  BY <1>1, <1>3, WindowKept
<1>5. \A d \in Editors : d # c => editor'[d] = editor[d]
  BY <1>1 DEF Decide, TypeOK
<1>6. WindowOK(c, editor[c])'
  <2>1. CASE event.by = c
    <3>1. editor'[c] = [w EXCEPT !.base = event.at] /\ UNCHANGED seen
      BY <1>1, <2>1 DEF Decide, TypeOK
    <3>2. /\ editor'[c].text = w.text /\ editor'[c].saved = w.saved /\ editor'[c].base = event.at
          /\ editor'[c].conflict = w.conflict /\ editor'[c].pending = w.pending
      BY <3>1 DEF Editor
    <3>3. ~Latest(event.at)' /\ event.at <= seen'[c]
      BY <1>1, <2>1, <3>1 DEF Latest
    <3> QED BY <1>4, <3>2, <3>3 DEF WindowOK, Latest
  <2>2. CASE event.by # c /\ unsaved
    <3>1. editor'[c] = [w EXCEPT !.conflict = event.at] /\ Told(c, event.at)
      BY <1>1, <2>2 DEF Decide, TypeOK
    <3>2. /\ editor'[c].text = w.text /\ editor'[c].saved = w.saved /\ editor'[c].base = w.base
          /\ editor'[c].conflict = event.at /\ editor'[c].pending = w.pending
      BY <3>1 DEF Editor
    <3>3. event.at <= seen'[c]
      BY <1>1, <3>1, ToldGrows
    <3> QED BY <1>4, <3>2, <3>3 DEF WindowOK
  <2>3. CASE event.by # c /\ ~unsaved
    <3>1. editor'[c] = w
      BY <1>1, <2>3 DEF Decide, TypeOK
    <3> QED BY <1>4, <3>1 DEF WindowOK
  <2> QED BY <2>1, <2>2, <2>3
<1> QED BY <1>3, <1>5, <1>6

LEMMA ReceiveKeeps ==
  ASSUME NotesInv, TypeOK', NEW c \in Editors, Receive(c)
  PROVE  NotesInv'
<1>1. TypeOK /\ FileOK /\ WindowOK(c, editor[c]) /\ seen[c] <= file.at
  BY DEF NotesInv
<1>2. stream[c] # None /\ stream[c] # <<>> /\ stream[c] \in Seq(Event)
      /\ stream' = [stream EXCEPT ![c] = Tail(@)] /\ UNCHANGED <<marks, file, hub>>
  BY <1>1 DEF Receive, TypeOK
<1>3. PICK event \in Event : event = Head(stream[c]) /\ EventOK(c, event)
  <2>1. Len(stream[c]) \in Nat /\ 1 \in 1..Len(stream[c]) /\ stream[c][1] = Head(stream[c])
    BY <1>2, EmptySeq, LenProperties
  <2>2. EventOK(c, stream[c][1])
    BY <1>2, <2>1 DEF NotesInv
  <2>3. Head(stream[c]) \in Event
    BY <1>2, HeadTailProperties
  <2> QED BY <2>1, <2>2, <2>3
<1>4. \A d \in Editors : stream'[d] # None => \A i \in 1..Len(stream'[d]) : OldEvent(d, stream'[d][i])
  BY <1>2, NoNewEvents
<1>5. PICK w \in Editor : w = editor[c]
  BY <1>1, WindowNumbers
<1>6. CASE event.by # c /\ w.saving
  <2>1. editor' = [editor EXCEPT ![c] = [w EXCEPT !.pending = event]] /\ UNCHANGED <<seen, net>>
    BY <1>3, <1>5, <1>6 DEF Receive
  <2>2. Grows /\ \A d \in Editors : seen'[d] <= file.at
    BY <1>2, <2>1, QuietGrows
  <2>3. WindowOK(c, w)' /\ EventOK(c, event)'
    BY <1>1, <1>3, <1>5, <2>2, WindowKept, EventKept
  <2>4. editor'[c] = [w EXCEPT !.pending = event] /\ \A d \in Editors : d # c => editor'[d] = editor[d]
    BY <1>1, <2>1 DEF TypeOK
  <2>5. /\ editor'[c].text = w.text /\ editor'[c].saved = w.saved /\ editor'[c].base = w.base
        /\ editor'[c].conflict = w.conflict /\ editor'[c].pending = event
    BY <2>4 DEF Editor
  <2>6. WindowOK(c, editor[c])'
    BY <2>3, <2>5 DEF WindowOK, EventOK
  <2> QED BY <1>2, <1>4, <2>1, <2>2, <2>4, <2>6, TakeInKeeps
<1>7. CASE ~(event.by # c /\ w.saving)
  <2>1. Decide(c, w, event, Dirty(c)) /\ (Send(c, Get) \/ UNCHANGED net)
    BY <1>3, <1>5, <1>7 DEF Receive
  <2>2. /\ Grows /\ \A d \in Editors : seen'[d] <= file.at
        /\ \A d \in Editors : editor'[d] = editor[d] \/ WindowOK(d, editor[d])'
    BY <1>1, <1>2, <1>3, <1>5, <2>1, DecideKeeps
  <2>3. \A d \in Editors : \A m \in net'[d] : m \in net[d] \/ m = Get
    BY <1>1, <2>1 DEF Send, TypeOK
  <2> QED BY <1>2, <1>4, <2>2, <2>3, TakeInKeeps
<1> QED BY <1>6, <1>7

\* A save has ended.
LEMMA ResolveKeeps ==
  ASSUME NotesInv, TypeOK', NEW c \in Editors, NEW m \in net[c], NEW w \in Editor, WindowOK(c, w), NEW settled,
         Resolve(c, m, w, settled), UNCHANGED <<marks, file, hub, stream>>
  PROVE  NotesInv'
<1>1. TypeOK /\ FileOK /\ seen[c] <= file.at
  BY DEF NotesInv
<1>2. \A d \in Editors : stream'[d] # None => \A i \in 1..Len(stream'[d]) : OldEvent(d, stream'[d][i])
  BY NoNewEvents
<1>3. CASE w.pending = None
  <2>1. editor' = [editor EXCEPT ![c] = w] /\ net' = [net EXCEPT ![c] = @ \ {m}] /\ UNCHANGED seen
    BY <1>3 DEF Resolve
  <2>2. Grows /\ \A d \in Editors : seen'[d] <= file.at
    BY <2>1, QuietGrows
  <2>3. WindowOK(c, w)'
    BY <1>1, <2>2, WindowKept
  <2>4. editor'[c] = w /\ \A d \in Editors : d # c => editor'[d] = editor[d]
    BY <1>1, <2>1 DEF TypeOK
  <2>5. WindowOK(c, editor[c])'
    BY <2>3, <2>4 DEF WindowOK
  <2>6. \A d \in Editors : \A n \in net'[d] : n \in net[d] \/ n = Get
    BY <1>1, <2>1 DEF TypeOK
  <2> QED BY <1>2, <2>2, <2>4, <2>5, <2>6, TakeInKeeps
<1>4. CASE w.pending # None
  <2>1. PICK event \in Event : event = w.pending
    BY <1>4 DEF Editor
  <2>2. PICK v \in Editor : v = [w EXCEPT !.pending = None]
    BY WindowTyped
  <2>3. /\ v.text = w.text /\ v.saved = w.saved /\ v.base = w.base
        /\ v.conflict = w.conflict /\ v.pending = None
    BY <2>2 DEF Editor
  <2>4. WindowOK(c, v) /\ EventOK(c, event)
    BY <1>4, <2>1, <2>3 DEF WindowOK
  <2>5. Decide(c, v, event, w.text # settled)
    BY <1>4, <2>1, <2>2 DEF Resolve
  <2>6. /\ Grows /\ \A d \in Editors : seen'[d] <= file.at
        /\ \A d \in Editors : editor'[d] = editor[d] \/ WindowOK(d, editor[d])'
    BY <2>4, <2>5, DecideKeeps
  <2>7. \A d \in Editors : \A n \in net'[d] : n \in net[d] \/ n = Get
    BY <1>1, <1>4 DEF Resolve, TypeOK
  <2> QED BY <1>2, <2>6, <2>7, TakeInKeeps
<1> QED BY <1>3, <1>4

LEMMA SavedKeeps ==
  ASSUME NotesInv, TypeOK', NEW c \in Editors, NEW m \in net[c], Saved(c, m)
  PROVE  NotesInv'
<1>1. TypeOK /\ m \in Message /\ MessageOK(c, m) /\ m.kind = "ok" /\ WindowOK(c, editor[c])
  BY DEF NotesInv, TypeOK, Saved
<1>2. PICK v \in Editor : v = editor[c]
  BY <1>1, WindowNumbers
<1>3. PICK w \in Editor : w = [v EXCEPT !.saved = m.text, !.base = m.at, !.saving = FALSE]
  BY <1>1, MessageNumbers, WindowTyped
<1>4. /\ w.text = v.text /\ w.saved = m.text /\ w.base = m.at
      /\ w.conflict = v.conflict /\ w.pending = v.pending
  BY <1>3 DEF Editor
<1>5. WindowOK(c, w)
  BY <1>1, <1>2, <1>4 DEF WindowOK, MessageOK
<1>6. Resolve(c, m, w, m.text) /\ UNCHANGED <<marks, file, hub, stream>>
  BY <1>2, <1>3 DEF Saved
<1> QED BY <1>5, <1>6, ResolveKeeps

LEMMA NotSavedKeeps ==
  ASSUME NotesInv, TypeOK', NEW c \in Editors, NEW m \in net[c], NotSaved(c, m)
  PROVE  NotesInv'
<1>1. TypeOK /\ WindowOK(c, editor[c])
  BY DEF NotesInv
<1>2. PICK v \in Editor : v = editor[c]
  BY <1>1, WindowNumbers
<1>3. PICK w \in Editor : w = [v EXCEPT !.saving = FALSE]
  BY WindowTyped
<1>4. /\ w.text = v.text /\ w.saved = v.saved /\ w.base = v.base
      /\ w.conflict = v.conflict /\ w.pending = v.pending
  BY <1>3 DEF Editor
<1>5. WindowOK(c, w)
  BY <1>1, <1>2, <1>4 DEF WindowOK
<1>6. Resolve(c, m, w, m.text) /\ UNCHANGED <<marks, file, hub, stream>>
  BY <1>2, <1>3 DEF NotSaved
<1> QED BY <1>5, <1>6, ResolveKeeps

\* An answer tells the window a time, and the window becomes w.
LEMMA AnsweredKeeps ==
  ASSUME NotesInv, TypeOK', NEW c \in Editors, NEW m \in net[c], NEW w \in Editor,
         editor' = [editor EXCEPT ![c] = w], net' = [net EXCEPT ![c] = @ \ {m}], Told(c, m.at),
         UNCHANGED <<marks, file, hub, stream>>, Grows => WindowOK(c, w)'
  PROVE  NotesInv'
<1>1. TypeOK /\ m \in Message /\ m.at <= file.at
  BY DEF NotesInv, TypeOK, MessageOK
<1>2. Grows /\ \A d \in Editors : seen'[d] <= file.at
  BY <1>1, MessageNumbers, ToldKeeps
<1>3. editor'[c] = w /\ \A d \in Editors : d # c => editor'[d] = editor[d]
  BY <1>1 DEF TypeOK
<1>4. WindowOK(c, editor[c])'
  BY <1>2, <1>3 DEF WindowOK
<1>5. \A d \in Editors : \A n \in net'[d] : n \in net[d] \/ n = Get
  BY <1>1 DEF TypeOK
<1> QED BY <1>2, <1>3, <1>4, <1>5, NoNewEvents, TakeInKeeps

LEMMA RefusedKeeps ==
  ASSUME NotesInv, TypeOK', NEW c \in Editors, NEW m \in net[c], Refused(c, m)
  PROVE  NotesInv'
<1>1. TypeOK /\ FileOK /\ m \in Message /\ WindowOK(c, editor[c]) /\ seen[c] <= file.at
  BY DEF NotesInv, TypeOK
<1>2. PICK v \in Editor : v = editor[c]
  BY <1>1, WindowNumbers
<1>3. PICK w \in Editor : w = [v EXCEPT !.conflict = m.at, !.saving = FALSE, !.pending = None]
  BY <1>1, MessageNumbers, WindowTyped
<1>4. /\ w.text = v.text /\ w.saved = v.saved /\ w.base = v.base
      /\ w.conflict = m.at /\ w.pending = None
  BY <1>3 DEF Editor
<1>5. editor' = [editor EXCEPT ![c] = w] /\ net' = [net EXCEPT ![c] = @ \ {m}] /\ Told(c, m.at)
      /\ UNCHANGED <<marks, file, hub, stream>>
  BY <1>1, <1>2, <1>3 DEF Refused, TypeOK
<1>6. ASSUME Grows PROVE WindowOK(c, w)'
  <2>1. WindowOK(c, v)'
    BY <1>1, <1>2, <1>6, WindowKept
  <2>2. m.at <= seen'[c]
    BY <1>1, <1>5, MessageNumbers, ToldGrows
  <2> QED BY <1>4, <2>1, <2>2 DEF WindowOK
<1> QED BY <1>5, <1>6, AnsweredKeeps

LEMMA LoadedKeeps ==
  ASSUME NotesInv, TypeOK', NEW c \in Editors, NEW m \in net[c], Loaded(c, m)
  PROVE  NotesInv'
<1>1. TypeOK /\ FileOK /\ m \in Message /\ MessageOK(c, m) /\ m.kind = "got"
      /\ WindowOK(c, editor[c]) /\ seen[c] <= file.at
  BY DEF NotesInv, TypeOK, Loaded
<1>2. PICK v \in Editor : v = editor[c]
  BY <1>1, WindowNumbers
<1>3. PICK w \in Editor :
        w = [v EXCEPT !.text = m.text, !.saved = m.text, !.base = m.at, !.saving = FALSE, !.conflict = None]
  BY <1>1, MessageNumbers, WindowTyped
<1>4. /\ w.text = m.text /\ w.saved = m.text /\ w.base = m.at
      /\ w.conflict = None /\ w.pending = v.pending
  BY <1>3 DEF Editor
<1>5. editor' = [editor EXCEPT ![c] = w] /\ net' = [net EXCEPT ![c] = @ \ {m}] /\ Told(c, m.at)
      /\ UNCHANGED <<marks, file, hub, stream>>
  BY <1>1, <1>2, <1>3 DEF Loaded, TypeOK
<1>6. ASSUME Grows PROVE WindowOK(c, w)'
  <2>1. WindowOK(c, v)'
    BY <1>1, <1>2, <1>6, WindowKept
  <2>2. m.at <= seen'[c]
    BY <1>1, <1>5, MessageNumbers, ToldGrows
  <2>3. m.text <= Len(marks') /\ (Latest(m.at)' => m.text = file'.text)
    BY <1>1, <1>5 DEF MessageOK, Latest
  <2> QED BY <1>4, <2>1, <2>2, <2>3 DEF WindowOK, Ticked, Latest
<1> QED BY <1>5, <1>6, AnsweredKeeps

LEMMA DropKeeps ==
  ASSUME NotesInv, TypeOK', NEW c \in Editors, Drop(c)
  PROVE  NotesInv'
<1>1. UNCHANGED <<marks, file, hub, editor, net, seen>> /\ stream' = [stream EXCEPT ![c] = None]
  BY DEF Drop
<1> QED BY <1>1, QuietGrows, NoNewEvents, TakeInKeeps

LEMMA ReconnectKeeps ==
  ASSUME NotesInv, TypeOK', NEW c \in Editors, Reconnect(c)
  PROVE  NotesInv'
<1>1. UNCHANGED <<marks, file, hub, editor, seen>> /\ stream' = [stream EXCEPT ![c] = <<>>]
  BY DEF Reconnect
<1>2. \A d \in Editors : \A m \in net'[d] : m \in net[d] \/ m = Get
  BY DEF Reconnect, Send, NotesInv, TypeOK
<1> QED BY <1>1, <1>2, QuietGrows, NoNewEvents, TakeInKeeps

-----------------------------------------------------------------------------
(* The invariant *)

LEMMA StepNotes == NotesInv /\ [Next]_vars => NotesInv'
<1> SUFFICES ASSUME NotesInv, [Next]_vars PROVE NotesInv'
  OBVIOUS
<1>0. TypeOK'
  BY NextTyped DEF NotesInv
<1>1. CASE VaultEdit
  BY <1>0, <1>1, VaultEditKeeps
<1>2. CASE Watch
  BY <1>0, <1>2, WatchKeeps
<1>3. ASSUME NEW ticked \in BOOLEAN, BoardWrite(ticked) PROVE NotesInv'
  <2>1. UNCHANGED <<editor, net, seen>>
    BY <1>3 DEF BoardWrite
  <2>2. CASE NewText(ticked) /\ Write(LastText, "hub")
    BY <1>0, <2>1, <2>2, HubWriteKeeps
  <2>3. CASE UNCHANGED <<marks, file, hub, watch, stream>>
    BY <1>0, <2>1, <2>3, QuietGrows, SameStream, Carried
  <2> QED BY <1>3, <2>2, <2>3 DEF BoardWrite
<1>4. CASE SyncFromDaily
  <2>1. UNCHANGED <<marks, file, hub, editor, stream, net, seen>>
    BY <1>4 DEF SyncFromDaily
  <2> QED BY <1>0, <2>1, QuietGrows, SameStream, Carried
<1>5. CASE SyncToDaily
  <2>1. board \in BOOLEAN
    BY DEF NotesInv, TypeOK
  <2>2. NewText(board) /\ Write(LastText, "hub") /\ UNCHANGED <<editor, net, seen>>
    BY <1>5 DEF SyncToDaily
  <2> QED BY <1>0, <2>1, <2>2, HubWriteKeeps
<1>6. CASE Restart
  BY <1>0, <1>6, RestartKeeps
<1>7. ASSUME NEW c \in Editors, Type(c) PROVE NotesInv'
  BY <1>0, <1>7, TypeKeeps
<1>8. ASSUME NEW c \in Editors, Toggle(c) PROVE NotesInv'
  BY <1>0, <1>8, ToggleKeeps
<1>9. ASSUME NEW c \in Editors, AutoSave(c) PROVE NotesInv'
  BY <1>0, <1>9, AutoSaveKeeps
<1>10. ASSUME NEW c \in Editors, KeepMine(c) PROVE NotesInv'
  BY <1>0, <1>10, KeepMineKeeps
<1>11. ASSUME NEW c \in Editors, Reload(c) PROVE NotesInv'
  <2>1. Send(c, Get) /\ UNCHANGED <<marks, file, hub, seen, editor, stream>>
    BY <1>11 DEF Reload
  <2> QED BY <1>0, <2>1, ReloadKeeps
<1>12. ASSUME NEW c \in Editors, Receive(c) PROVE NotesInv'
  BY <1>0, <1>12, ReceiveKeeps
<1>13. ASSUME NEW c \in Editors, Drop(c) PROVE NotesInv'
  BY <1>0, <1>13, DropKeeps
<1>14. ASSUME NEW c \in Editors, Reconnect(c) PROVE NotesInv'
  BY <1>0, <1>14, ReconnectKeeps
<1>15. ASSUME NEW c \in Editors, ServeGet(c) PROVE NotesInv'
  BY <1>0, <1>15, ServeGetKeeps
<1>16. ASSUME NEW c \in Editors, NEW m \in net[c], Accept(c, m) PROVE NotesInv'
  BY <1>0, <1>16, AcceptKeeps
<1>17. ASSUME NEW c \in Editors, NEW m \in net[c], Refuse(c, m) PROVE NotesInv'
  BY <1>0, <1>17, RefuseKeeps
<1>18. ASSUME NEW c \in Editors, NEW m \in net[c], Fail(c, m) PROVE NotesInv'
  BY <1>0, <1>18, FailKeeps
<1>19. ASSUME NEW c \in Editors, NEW m \in net[c], Saved(c, m) PROVE NotesInv'
  BY <1>0, <1>19, SavedKeeps
<1>20. ASSUME NEW c \in Editors, NEW m \in net[c], NotSaved(c, m) PROVE NotesInv'
  BY <1>0, <1>20, NotSavedKeeps
<1>21. ASSUME NEW c \in Editors, NEW m \in net[c], Refused(c, m) PROVE NotesInv'
  BY <1>0, <1>21, RefusedKeeps
<1>22. ASSUME NEW c \in Editors, NEW m \in net[c], Loaded(c, m) PROVE NotesInv'
  BY <1>0, <1>22, LoadedKeeps
<1>23. CASE UNCHANGED vars
  <2>1. UNCHANGED <<marks, file, hub, editor, stream, net, seen>>
    BY <1>23 DEF vars
  <2> QED BY <1>0, <2>1, QuietGrows, SameStream, Carried
<1> QED
  BY <1>1, <1>2, <1>3, <1>4, <1>5, <1>6, <1>7, <1>8, <1>9, <1>10, <1>11, <1>12, <1>13, <1>14,
     <1>15, <1>16, <1>17, <1>18, <1>19, <1>20, <1>21, <1>22, <1>23 DEF Next

\* What windows, messages and events know of the note stays true.
THEOREM NotesCorrect == Spec => []NotesInv
  BY InitNotes, StepNotes, PTL DEF Spec

-----------------------------------------------------------------------------
(* Saves *)

\* The save of a window that was not told of the last write passes only over a
\* write of another window: the hub and the vault are recognised.
LEMMA BlindPassesOver ==
  ASSUME NotesInv, NEW c \in Editors, NEW m \in net[c], m.kind = "put", m.at > 0,
         ~Conflict(m.at), m.at < file.at
  PROVE  file.by \in Editors
<1>1. TypeOK /\ FileOK /\ m \in Message
  BY DEF NotesInv, TypeOK
<1>2. file.at \in Nat /\ file.text \in Nat /\ m.at \in Nat /\ file.by \in Editors \cup {"hub", "vault"}
  BY <1>1, Numbers, MessageNumbers DEF TypeOK
<1>3. hub.hash = file.text /\ ~(m.at < hub.at)
  BY <1>2 DEF Conflict, Exists
<1>4. file.by # "vault"
  BY <1>1, <1>3 DEF FileOK
<1>5. file.by = "hub" => hub.at = file.at
  BY <1>1, <1>2, <1>3 DEF FileOK
<1> QED BY <1>2, <1>3, <1>4, <1>5

\* What the vault or the hub wrote last is only overwritten by a window that
\* was told of it.
THEOREM BlindSaves == Spec => []BlindOnlyOverWindows
<1>1. NotesInv => BlindOnlyOverWindows
  <2> SUFFICES ASSUME NotesInv, NEW c \in Editors, NEW m \in net[c], m.kind = "put", m.at > 0,
                      ~Conflict(m.at), seen[c] < file.at
      PROVE  file.by \in Editors
    BY DEF BlindOnlyOverWindows, Blind
  <2>1. TypeOK /\ m \in Message /\ m.at <= seen[c]
    BY DEF NotesInv, TypeOK, MessageOK
  <2>2. m.at < file.at
    BY <2>1, Numbers, MessageNumbers
  <2> QED BY <2>2, BlindPassesOver
<1> QED BY <1>1, NotesCorrect, PTL

\* An accepted save is of the kind that Accept serves: no other step answers.
LEMMA OnlyAccept ==
  ASSUME NotesInv, [Next]_vars, NEW c \in Editors, NEW m \in Accepted(c), board' # board
  PROVE  \E d \in Editors : \E n \in net[d] : Accept(d, n)
<1>1. m \in net[c] /\ m \notin net'[c]
  BY DEF Accepted
<1>2. net' # net
  BY <1>1
<1>3. ~UNCHANGED vars
  BY <1>2 DEF vars
<1>4. ASSUME NEW ticked \in BOOLEAN PROVE ~BoardWrite(ticked)
  BY <1>2 DEF BoardWrite
<1>5. ~VaultEdit /\ ~Watch /\ ~SyncFromDaily /\ ~SyncToDaily /\ ~Restart
  BY <1>2 DEF VaultEdit, Watch, SyncFromDaily, SyncToDaily, Restart
<1>6. ASSUME NEW d \in Editors
      PROVE  /\ ~Type(d) /\ ~Toggle(d) /\ ~AutoSave(d) /\ ~KeepMine(d) /\ ~Reload(d) /\ ~Receive(d)
             /\ ~Drop(d) /\ ~Reconnect(d) /\ ~ServeGet(d)
  BY DEF Type, Toggle, AutoSave, KeepMine, Save, Reload, Receive, Drop, Reconnect, ServeGet
<1>7. ASSUME NEW d \in Editors, NEW n \in net[d]
      PROVE  ~Refuse(d, n) /\ ~Fail(d, n) /\ ~Saved(d, n) /\ ~NotSaved(d, n) /\ ~Refused(d, n) /\ ~Loaded(d, n)
  BY DEF Refuse, Fail, Saved, NotSaved, Refused, Loaded
<1> QED BY <1>3, <1>4, <1>5, <1>6, <1>7 DEF Next

\* A save moves the status of a task only when its user means it, unless
\* another window has written the note since.
THEOREM BoxesAreMeant == Spec => BoxesMeant
<1> DEFINE Meant == \A c \in Editors : \A m \in Accepted(c) :
                      board' # board => m.meant \/ m.at = 0 \/ file.by \in Editors
<1>1. NotesInv /\ [Next]_vars => [Meant]_vars
  <2> SUFFICES ASSUME NotesInv, [Next]_vars, NEW c \in Editors, NEW m \in Accepted(c), board' # board
      PROVE  m.meant \/ m.at = 0 \/ file.by \in Editors
    OBVIOUS
  <2>0. PICK d \in Editors : \E n \in net[d] : Accept(d, n)
    BY OnlyAccept
  <2>1. PICK n \in net[d] : Accept(d, n)
    BY <2>0
  <2>2. TypeOK /\ m \in net[c] /\ m \notin net'[c] /\ m \in Message /\ MessageOK(c, m) /\ m.kind = "put"
    BY DEF Accepted, NotesInv, TypeOK
  <2>3. c = d /\ m = n
    BY <2>1, <2>2 DEF Accept, Answer, TypeOK
  <2>4. ~Conflict(m.at) /\ Mirrored(file.text, m.text)
    BY <2>1, <2>3 DEF Accept
  <2>5. Ticked(file.text) # Ticked(m.text)
    BY <2>4 DEF Mirrored
  <2>6. m.at \in Nat /\ file.at \in Nat /\ m.at <= file.at
    BY <2>2, Numbers, MessageNumbers DEF MessageOK
  <2>7. CASE m.at > 0 /\ m.at < file.at
    BY <2>2, <2>4, <2>7, BlindPassesOver
  <2>8. CASE m.at = file.at
    <3>1. Latest(m.at) /\ ~m.meant => (Ticked(m.text) <=> Ticked(file.text))
      BY <2>2 DEF MessageOK
    <3>2. ~(Ticked(m.text) <=> Ticked(file.text))
      BY <2>5, TickedTyped, Zenon
    <3> QED BY <2>8, <3>1, <3>2 DEF Latest
  <2> QED BY <2>6, <2>7, <2>8
<1>2. Spec => [][Meant]_vars
  BY <1>1, NotesCorrect, PTL DEF Spec
<1> QED BY <1>2 DEF BoxesMeant

-----------------------------------------------------------------------------
(* The counts of tokens, as MCVault composes them *)

UP == INSTANCE UsageProofs WITH Windows <- Periods, faults <- ioFaults

\* UsageProofs is an instance of its own, of the same definitions.
LEMMA UsageSame ==
  /\ \A S : U!Min(S) = UP!Min(S)
  /\ U!Pieces = UP!Pieces /\ U!Kinds = UP!Kinds /\ U!Empty = UP!Empty
  /\ U!NewParser = UP!NewParser
  /\ \A p, lines, first, last : U!After(p, lines, first, last) = UP!After(p, lines, first, last)
  /\ \A p, f, from, to : U!Feed(p, f, from, to) = UP!Feed(p, f, from, to)
<1>1. \A S : U!Min(S) = UP!Min(S)
  BY Zenon DEF U!Min, UP!Min
<1>2. U!Pieces = UP!Pieces /\ U!Kinds = UP!Kinds /\ U!Empty = UP!Empty /\ U!NewParser = UP!NewParser
  BY Zenon DEF U!Pieces, UP!Pieces, U!Kinds, UP!Kinds, U!Empty, UP!Empty, U!NewParser, UP!NewParser
<1>3. \A turns, turn : U!Put(turns, turn) = UP!Put(turns, turn)
  BY Zenon DEF U!Put, UP!Put
<1>4. \A p, line : U!Fed(p, line) = UP!Fed(p, line)
  BY <1>3, Zenon DEF U!Fed, UP!Fed, U!WithMessage, UP!WithMessage, U!WithCount, UP!WithCount
<1>5. \A p, lines, first, last : U!After(p, lines, first, last) = UP!After(p, lines, first, last)
  BY <1>4, ZenonT(60) DEF U!After, UP!After
<1>6. \A n : U!Begun(n) = UP!Begun(n) /\ U!Lines(n) = UP!Lines(n)
  BY <1>2, Zenon DEF U!Begun, UP!Begun, U!Lines, UP!Lines
<1>7. \A p, f, from, to : U!Feed(p, f, from, to) = UP!Feed(p, f, from, to)
  BY <1>5, <1>6, Zenon DEF U!Feed, UP!Feed
<1> QED BY <1>1, <1>2, <1>5, <1>7

LEMMA UsageInitSame == U!Init => UP!Init
  BY UsageSame, Zenon DEF U!Init, UP!Init

LEMMA UsageNextSame == U!Next <=> UP!Next
<1> USE DEF U!files, UP!files, U!memory, UP!memory, U!requests, UP!requests, U!disk, UP!disk,
            U!bounds, UP!bounds
<1>1. \A f \in Files : U!Write(f) <=> UP!Write(f)
  BY UsageSame, Zenon DEF U!Write, UP!Write
<1>2. \A f \in Files : U!Delete(f) <=> UP!Delete(f)
  BY UsageSame, Zenon DEF U!Delete, UP!Delete
<1>3. \A f \in Files : U!SkipFile(f) <=> UP!SkipFile(f)
  BY UsageSame, Zenon DEF U!SkipFile, UP!SkipFile, U!Unchanged, UP!Unchanged, U!Reported, UP!Reported,
    U!Report, UP!Report
<1>4. \A f \in Files : U!ReadFile(f) <=> UP!ReadFile(f)
  <2>1. \A f : U!Unchanged(f) <=> UP!Unchanged(f)
    BY Zenon DEF U!Unchanged, UP!Unchanged
  <2>2. \A f : U!Resumes(f) <=> UP!Resumes(f)
    BY Zenon DEF U!Resumes, UP!Resumes
  <2>3. \A f : U!From(f) = UP!From(f) /\ U!Parser(f) = UP!Parser(f)
    BY <2>2, UsageSame, Zenon DEF U!From, UP!From, U!Parser, UP!Parser
  <2>4. \A f, p : U!Reported(f, p) = UP!Reported(f, p)
    BY Zenon DEF U!Reported, UP!Reported, U!Report, UP!Report
  <2>5. \A n : U!Offset(n) = UP!Offset(n)
    BY UsageSame, Zenon DEF U!Offset, UP!Offset
  <2> QED BY UsageSame, <2>1, <2>3, <2>4, <2>5, ZenonT(60) DEF U!ReadFile, UP!ReadFile
<1>5. \A f \in Files : U!ReadFails(f) <=> UP!ReadFails(f)
  BY UsageSame, ZenonT(60) DEF U!ReadFails, UP!ReadFails, U!Unchanged, UP!Unchanged, U!From, UP!From,
    U!Resumes, UP!Resumes
<1>6. \A q, w, waiter : U!Collect(q, w, waiter) = UP!Collect(q, w, waiter)
  BY Zenon DEF U!Collect, UP!Collect, U!NewJob, UP!NewJob
<1>7. \A w \in Periods : U!Ask(w) <=> UP!Ask(w)
  BY <1>6, Zenon DEF U!Ask, UP!Ask
<1>8. \A w \in Periods : U!AskFresh(w) <=> UP!AskFresh(w)
  BY <1>6, Zenon DEF U!AskFresh, UP!AskFresh
<1>9. U!Rescan <=> UP!Rescan
  BY Zenon DEF U!Rescan, UP!Rescan, U!NewJob, UP!NewJob
<1>10. U!StartScan <=> UP!StartScan
  BY UsageSame, ZenonT(60) DEF U!StartScan, UP!StartScan, U!CacheAtStart, UP!CacheAtStart, U!NewScan, UP!NewScan
<1>11. U!EndScan <=> UP!EndScan
  BY ZenonT(60) DEF U!EndScan, UP!EndScan
<1>12. U!Deliver <=> UP!Deliver
  BY <1>6, ZenonT(60) DEF U!Deliver, UP!Deliver
<1>13. U!StartWrite <=> UP!StartWrite
  BY Zenon DEF U!StartWrite, UP!StartWrite, U!Restored, UP!Restored
<1>14. U!EndWrite <=> UP!EndWrite
  BY Zenon DEF U!EndWrite, UP!EndWrite
<1>15. U!WriteFails <=> UP!WriteFails
  BY Zenon DEF U!WriteFails, UP!WriteFails
<1>16. U!Restart <=> UP!Restart
  BY UsageSame, ZenonT(60) DEF U!Restart, UP!Restart
<1> QED BY <1>1, <1>2, <1>3, <1>4, <1>5, <1>7, <1>8, <1>9, <1>10, <1>11, <1>12, <1>13, <1>14, <1>15, <1>16,
           Zenon DEF U!Next, UP!Next

LEMMA UsageCountsSame == UP!CountsOnce => U!CountsOnce
<1>1. \A f : U!Refeeds(f) <=> UP!Refeeds(f)
  BY Zenon DEF U!Refeeds, UP!Refeeds
<1>2. \A n : U!Lines(n) = UP!Lines(n)
  BY UsageSame, Zenon DEF U!Lines, UP!Lines
<1>3. \A p : U!Report(p) = UP!Report(p)
  BY Zenon DEF U!Report, UP!Report
<1> QED BY <1>1, <1>2, <1>3, UsageSame, Zenon DEF U!CountsOnce, UP!CountsOnce

\* Every answer of the hub counts of a transcript every message once, with its
\* last numbers, also where the counts are one part of several.
THEOREM MessagesCountOnce == VaultSpec => []CountsOnce
<1> DEFINE Inv == part = "usage" => UP!UsageInv
<1>1. UP!UsageAssumption
  BY UsageSame, UsagePart, Zenon DEF U!UsageAssumption, UP!UsageAssumption
<1>2. VaultInit => Inv
  BY <1>1, UsageInitSame, UP!InitUsage DEF VaultInit
<1>3. Inv /\ [VaultNext]_<<part, vars, boards, usage>> => Inv'
  <2>1. ASSUME [VaultNext]_<<part, vars, boards, usage>>, part = "usage"
        PROVE  [U!Next]_UP!vars
    BY <2>1 DEF VaultNext, usage, UP!vars, UP!files, UP!memory, UP!requests, UP!disk, UP!bounds
  <2>2. [VaultNext]_<<part, vars, boards, usage>> => part' = part
    BY DEF VaultNext
  <2> QED BY <1>1, <2>1, <2>2, UsageNextSame, UP!StepUsage
<1>4. Inv => CountsOnce
  BY <1>1, UsageCountsSame, UP!UsageInvCounts DEF CountsOnce
<1> QED BY <1>2, <1>3, <1>4, PTL DEF VaultSpec
-----------------------------------------------------------------------------
(* The board, as MCVault composes it *)

BP == INSTANCE BoardProofs WITH Notes <- Remarks, faults <- failures

\* BoardProofs is an instance of its own, of the same definitions.
LEMMA BoardReads ==
  /\ \A S : V!Max(S) = BP!Max(S) /\ V!Min(S) = BP!Min(S) /\ V!Cardinality(S) = BP!Cardinality(S)
  /\ V!Sections = BP!Sections /\ V!Line = BP!Line /\ V!InFiles = BP!InFiles
  /\ \A line : V!IsNote(line) = BP!IsNote(line)
  /\ \A lines, i : /\ V!BlockEnd(lines, i) = BP!BlockEnd(lines, i)
                   /\ V!Block(lines, i) = BP!Block(lines, i)
                   /\ V!Cut(lines, i) = BP!Cut(lines, i)
                   /\ V!Above(lines, i) = BP!Above(lines, i)
                   /\ V!Parent(lines, i) = BP!Parent(lines, i)
                   /\ V!IsTop(lines, i) = BP!IsTop(lines, i)
                   /\ V!TopOf(lines, i) = BP!TopOf(lines, i)
                   /\ V!Finished(lines, i) = BP!Finished(lines, i)
                   /\ V!IsPending(lines, i) = BP!IsPending(lines, i)
  /\ \A f, s, i : V!Editable(f, s, i) = BP!Editable(f, s, i)
<1>1. /\ \A S : V!Max(S) = BP!Max(S) /\ V!Min(S) = BP!Min(S) /\ V!Cardinality(S) = BP!Cardinality(S)
      /\ V!Sections = BP!Sections /\ \A line : V!IsNote(line) = BP!IsNote(line)
  BY Zenon DEF V!Max, BP!Max, V!Min, BP!Min, V!Cardinality, BP!Cardinality, V!IsFiniteSet, BP!IsFiniteSet,
    V!Sections, BP!Sections, V!IsNote, BP!IsNote
<1>2. V!Line = BP!Line /\ V!InFiles = BP!InFiles
  <2>1. V!Line = BP!Line
    BY Zenon DEF V!Line, BP!Line
  <2>2. V!InFiles = BP!InFiles
    BY DEF V!InFiles, BP!InFiles, V!Sections, BP!Sections
  <2> QED BY <2>1, <2>2
<1>3. \A lines, i : V!BlockEnd(lines, i) = BP!BlockEnd(lines, i)
  BY Zenon DEF V!BlockEnd, BP!BlockEnd
<1>4. \A lines, i : /\ V!Block(lines, i) = BP!Block(lines, i)
                    /\ V!Cut(lines, i) = BP!Cut(lines, i)
                    /\ V!Above(lines, i) = BP!Above(lines, i)
                    /\ V!Finished(lines, i) = BP!Finished(lines, i)
  BY <1>1, <1>3, Zenon DEF V!Block, BP!Block, V!Cut, BP!Cut, V!Above, BP!Above, V!Finished, BP!Finished
<1>5. \A lines, i : /\ V!Parent(lines, i) = BP!Parent(lines, i)
                    /\ V!IsTop(lines, i) = BP!IsTop(lines, i)
                    /\ V!TopOf(lines, i) = BP!TopOf(lines, i)
  BY <1>1, <1>4, Zenon DEF V!Parent, BP!Parent, V!IsTop, BP!IsTop, V!TopOf, BP!TopOf
<1>6. \A lines, i : V!IsPending(lines, i) = BP!IsPending(lines, i)
  BY <1>5, Zenon DEF V!IsPending, BP!IsPending
<1>7. \A f, s, i : V!Editable(f, s, i) = BP!Editable(f, s, i)
  BY <1>5, Zenon DEF V!Editable, BP!Editable, V!IsOccurrence, BP!IsOccurrence
<1> QED BY <1>1, <1>2, <1>3, <1>4, <1>5, <1>6, <1>7

LEMMA BoardEdits ==
  /\ \A lines, at, block : V!InsertedAt(lines, at, block) = BP!InsertedAt(lines, at, block)
  /\ \A lines, gone : V!Without(lines, gone) = BP!Without(lines, gone)
  /\ \A f, block : /\ V!IntoDone(f, block) = BP!IntoDone(f, block)
                   /\ V!IntoOpen(f, block) = BP!IntoOpen(f, block)
  /\ \A f, s, i, was : V!Settled(f, s, i, was) = BP!Settled(f, s, i, was)
  /\ \A lines, i : /\ V!ChildIndent(lines, i) = BP!ChildIndent(lines, i)
                   /\ V!NoteIndent(lines, i) = BP!NoteIndent(lines, i)
  /\ \A block, depth : V!Rebased(block, depth) = BP!Rebased(block, depth)
  /\ \A block : V!Deepest(block) = BP!Deepest(block)
  /\ \A lines, i, block : V!Under(lines, i, block) = BP!Under(lines, i, block)
  /\ \A f : V!Swept(f) = BP!Swept(f)
<1>1. /\ \A lines, at, block : V!InsertedAt(lines, at, block) = BP!InsertedAt(lines, at, block)
      /\ \A block, depth : V!Rebased(block, depth) = BP!Rebased(block, depth)
      /\ \A block, stamp : V!Stamped(block, stamp) = BP!Stamped(block, stamp)
      /\ \A line, status : V!Marked(line, status) = BP!Marked(line, status)
  BY BoardReads, Zenon DEF V!InsertedAt, BP!InsertedAt, V!Rebased, BP!Rebased, V!Stamped, BP!Stamped,
    V!Marked, BP!Marked
<1>2. \A lines, gone : V!Without(lines, gone) = BP!Without(lines, gone)
  BY Zenon DEF V!Without, BP!Without
<1>3. \A f, block : /\ V!IntoDone(f, block) = BP!IntoDone(f, block)
                    /\ V!IntoOpen(f, block) = BP!IntoOpen(f, block)
  BY Zenon DEF V!IntoDone, BP!IntoDone, V!IntoOpen, BP!IntoOpen
<1>4. \A f, i : V!MovedToDone(f, i) = BP!MovedToDone(f, i)
  BY <1>1, <1>3, BoardReads, Zenon DEF V!MovedToDone, BP!MovedToDone
<1>5. \A f, i : V!MovedToOpen(f, i) = BP!MovedToOpen(f, i)
  BY <1>1, <1>3, BoardReads, Zenon DEF V!MovedToOpen, BP!MovedToOpen
<1>6. \A f, i : V!Recurred(f, i) = BP!Recurred(f, i)
  <2> SUFFICES ASSUME NEW f, NEW i PROVE V!Recurred(f, i) = BP!Recurred(f, i)
    OBVIOUS
  <2> DEFINE block == BP!Block(f["open"], i)
             copy  == [k \in DOMAIN block |->
                         IF k = 1 THEN [block[k] EXCEPT !.status = "done", !.stamp = TRUE]
                                  ELSE BP!Marked(block[k], "done")]
             again == [k \in DOMAIN block |->
                         IF k = 1 THEN [block[k] EXCEPT !.status = "todo"] ELSE BP!Marked(block[k], "todo")]
  <2>1. V!Block(f["open"], i) = block /\ V!Cut(f["open"], i) = BP!Cut(f["open"], i)
    BY BoardReads
  <2>2. \A k, status : V!Marked(block[k], status) = BP!Marked(block[k], status)
    BY <1>1
  <2> HIDE DEF block
  <2>3. V!Recurred(f, i) = V!IntoDone([f EXCEPT !["open"] = V!InsertedAt(BP!Cut(@, i), i, again)], copy)
    BY <2>1, <2>2, Zenon DEF V!Recurred
  <2>4. BP!Recurred(f, i) = BP!IntoDone([f EXCEPT !["open"] = BP!InsertedAt(BP!Cut(@, i), i, again)], copy)
    BY Zenon DEF BP!Recurred, block
  <2> HIDE DEF copy, again
  <2>5. V!InsertedAt(BP!Cut(f["open"], i), i, again) = BP!InsertedAt(BP!Cut(f["open"], i), i, again)
    BY <1>1
  <2> QED BY <1>3, <2>3, <2>4, <2>5, Zenon
<1>7. \A f, s, i, was : V!Settled(f, s, i, was) = BP!Settled(f, s, i, was)
  BY <1>4, <1>5, <1>6, BoardReads DEF V!Settled, BP!Settled
<1>8. \A lines, i : /\ V!ChildIndent(lines, i) = BP!ChildIndent(lines, i)
                    /\ V!NoteIndent(lines, i) = BP!NoteIndent(lines, i)
  <2>1. \A lines, i, T : V!Depths(lines, i, T) = BP!Depths(lines, i, T)
    BY BoardReads, Zenon DEF V!Depths, BP!Depths
  <2>2. \A lines, i, T : V!IndentFor(lines, i, T) = BP!IndentFor(lines, i, T)
    BY <2>1, BoardReads, Zenon DEF V!IndentFor, BP!IndentFor
  <2> QED BY <2>1, <2>2, Zenon DEF V!ChildIndent, BP!ChildIndent, V!NoteIndent, BP!NoteIndent
<1>9. \A block : V!Deepest(block) = BP!Deepest(block)
  BY BoardReads, Zenon DEF V!Deepest, BP!Deepest
<1>10. \A lines, i, block : V!Under(lines, i, block) = BP!Under(lines, i, block)
  BY <1>1, BoardReads, Zenon DEF V!Under, BP!Under
<1>11. \A f : V!SweepStep(f) = BP!SweepStep(f)
  BY <1>4, <1>6, BoardReads, Zenon DEF V!SweepStep, BP!SweepStep
<1>12. \A f : V!Swept(f) = BP!Swept(f)
  BY <1>11, Zenon DEF V!Swept, BP!Swept
<1> QED BY <1>1, <1>2, <1>3, <1>7, <1>8, <1>9, <1>10, <1>12

LEMMA BoardStartSame ==
  /\ V!BoardAssumption => BP!BoardAssumption
  /\ V!StartAssumption => BP!StartAssumption
  /\ V!Init => BP!Init
<1>1. V!BoardAssumption => BP!BoardAssumption
  BY BoardReads, Zenon DEF V!BoardAssumption, BP!BoardAssumption
<1>2. V!StartAssumption => BP!StartAssumption
  BY BoardReads DEF V!StartAssumption, BP!StartAssumption
<1>3. V!Init => BP!Init
  BY BoardReads, Zenon DEF V!Init, BP!Init
<1> QED BY <1>1, <1>2, <1>3

LEMMA BoardNextSame == V!Next => BP!Next
<1>1. /\ V!Everywhere = BP!Everywhere
      /\ \A p : V!Places(p) = BP!Places(p)
      /\ \A p, s, i : V!Task(p, s, i) = BP!Task(p, s, i) /\ V!Owned(p, s, i) = BP!Owned(p, s, i)
      /\ \A f : V!Fits(f) = BP!Fits(f)
      /\ \A x, depth, status : V!NewLine(x, depth, status) = BP!NewLine(x, depth, status)
      /\ V!Tick = BP!Tick
  BY BoardReads, Zenon DEF V!Everywhere, BP!Everywhere, V!Places, BP!Places, V!Task, BP!Task, V!Owned, BP!Owned,
    V!Fits, BP!Fits, V!NewLine, BP!NewLine, V!Tick, BP!Tick
<1>2. \A p, f, x : V!Commit(p, f, x) = BP!Commit(p, f, x)
  BY <1>1, Zenon DEF V!Commit, BP!Commit
<1>3. \A p, x, status : V!Create(p, x, status) => BP!Create(p, x, status)
  <2> SUFFICES ASSUME NEW p, NEW x, NEW status, V!Create(p, x, status) PROVE BP!Create(p, x, status)
    OBVIOUS
  <2> DEFINE atDone == BP!IntoDone(doc[p], <<[BP!NewLine(x, 0, status) EXCEPT !.stamp = TRUE]>>)
             atOpen == BP!IntoOpen(doc[p], <<BP!NewLine(x, 0, status)>>)
             sub(w) == [doc[p] EXCEPT ![w[1]] = BP!Under(@, w[2], <<BP!NewLine(x, BP!ChildIndent(@, w[2]), status)>>)]
  <2>1. V!IntoDone(doc[p], <<[V!NewLine(x, 0, status) EXCEPT !.stamp = TRUE]>>) = atDone
    BY <1>1, BoardEdits, Zenon
  <2>2. V!IntoOpen(doc[p], <<V!NewLine(x, 0, status)>>) = atOpen
    BY <1>1, BoardEdits, Zenon
  <2>3. \A w : [doc[p] EXCEPT ![w[1]] = V!Under(@, w[2], <<V!NewLine(x, V!ChildIndent(@, w[2]), status)>>)] = sub(w)
    BY <1>1, BoardEdits, Zenon
  <2> HIDE DEF atDone, atOpen, sub
  <2>4. \/ V!Commit(p, IF status = "done" THEN atDone ELSE atOpen, x)
        \/ \E w \in V!Places(p) : V!Task(p, w[1], w[2]) /\ V!Commit(p, sub(w), x)
    BY <2>1, <2>2, <2>3 DEF V!Create
  <2>5. \/ BP!Commit(p, IF status = "done" THEN atDone ELSE atOpen, x)
        \/ \E w \in BP!Places(p) : BP!Task(p, w[1], w[2]) /\ BP!Commit(p, sub(w), x)
    BY <2>4, <1>1, <1>2
  <2>6. x \in Items \ (Remarks \cup BP!InFiles) /\ written' = written \cup {x} /\ UNCHANGED failures
    BY BoardReads DEF V!Create
  <2> QED BY <2>5, <2>6, Zenon DEF BP!Create, atDone, atOpen, sub
<1>4. \A p, s, i, status : V!WriteStatus(p, s, i, status) => BP!WriteStatus(p, s, i, status)
  BY <1>1, <1>2, BoardReads, BoardEdits DEF V!WriteStatus, BP!WriteStatus
<1>5. \A p, s, i, x : V!AddNote(p, s, i, x) => BP!AddNote(p, s, i, x)
  BY <1>1, <1>2, BoardReads, BoardEdits DEF V!AddNote, BP!AddNote
<1>6. \A p, s, i : V!DeleteNote(p, s, i) => BP!DeleteNote(p, s, i)
  <2> SUFFICES ASSUME NEW p, NEW s, NEW i, V!DeleteNote(p, s, i) PROVE BP!DeleteNote(p, s, i)
    OBVIOUS
  <2> DEFINE lines == doc[p][s]
             kept  == {k \in (i + 1)..BP!BlockEnd(lines, i) :
                         \E j \in (i + 1)..k : ~BP!IsNote(lines[j]) /\ k <= BP!BlockEnd(lines, j)}
             gone  == i..BP!BlockEnd(lines, i) \ kept
  <2>1. {k \in (i + 1)..V!BlockEnd(lines, i) :
           \E j \in (i + 1)..k : ~V!IsNote(lines[j]) /\ k <= V!BlockEnd(lines, j)} = kept
    BY BoardReads
  <2>2. i..V!BlockEnd(lines, i) = i..BP!BlockEnd(lines, i)
    BY BoardReads
  <2> HIDE DEF kept
  <2>3. /\ V!Owned(p, s, i) /\ V!Editable(doc[p], s, i)
        /\ V!Commit(p, [doc[p] EXCEPT ![s] = V!Without(lines, gone)], lines[i].item)
        /\ written' = written \ {lines[k].item : k \in gone}
        /\ UNCHANGED failures
    BY <2>1, <2>2, Zenon DEF V!DeleteNote
  <2>4. /\ BP!Owned(p, s, i) /\ BP!Editable(doc[p], s, i)
        /\ BP!Commit(p, [doc[p] EXCEPT ![s] = BP!Without(lines, gone)], lines[i].item)
    BY <1>1, <1>2, <2>3, BoardReads, BoardEdits, Zenon
  <2> QED BY <2>3, <2>4, Zenon DEF BP!DeleteNote, kept
<1>7. \A p, s, i, j : V!Move(p, s, i, j) => BP!Move(p, s, i, j)
  <2> SUFFICES ASSUME NEW p, NEW s, NEW i, NEW j, V!Move(p, s, i, j) PROVE BP!Move(p, s, i, j)
    OBVIOUS
  <2> DEFINE lines == doc[p][s]
  <2>1. /\ V!Tick = BP!Tick /\ \A k : V!BlockEnd(lines, k) = BP!BlockEnd(lines, k)
        /\ \A k : V!Block(lines, k) = BP!Block(lines, k) /\ V!Parent(lines, k) = BP!Parent(lines, k)
        /\ \A k : V!IsNote(lines[k]) = BP!IsNote(lines[k]) /\ V!Owned(p, s, k) = BP!Owned(p, s, k)
        /\ \A k : V!Editable(doc[p], s, k) = BP!Editable(doc[p], s, k)
    BY <1>1, BoardReads, Zenon
  <2>2. SubSeq(lines, 1, i - 1) \o V!Block(lines, j) \o V!Block(lines, i)
          \o SubSeq(lines, V!BlockEnd(lines, j) + 1, Len(lines))
        = SubSeq(lines, 1, i - 1) \o BP!Block(lines, j) \o BP!Block(lines, i)
          \o SubSeq(lines, BP!BlockEnd(lines, j) + 1, Len(lines))
    <3>1. V!BlockEnd(lines, j) = BP!BlockEnd(lines, j)
      BY <2>1
    <3>2. V!Block(lines, i) = BP!Block(lines, i) /\ V!Block(lines, j) = BP!Block(lines, j)
      BY <2>1
    <3> HIDE DEF lines
    <3> QED BY <3>1, <3>2, Zenon
  <2>3. /\ BP!Tick /\ j = BP!BlockEnd(lines, i) + 1 /\ j <= Len(lines)
        /\ lines[i].depth = lines[j].depth /\ BP!Parent(lines, i) = BP!Parent(lines, j)
        /\ \A k \in {i, j} : BP!IsNote(lines[k]) => BP!Owned(p, s, k)
        /\ \E k \in {i, j} : BP!Editable(doc[p], s, k) /\ asked' = lines[k].item
        /\ UNCHANGED <<written, failures>>
    BY <2>1 DEF V!Move
  <2>4. doc' = [doc EXCEPT ![p][s] = SubSeq(lines, 1, i - 1) \o BP!Block(lines, j) \o BP!Block(lines, i)
                                     \o SubSeq(lines, BP!BlockEnd(lines, j) + 1, Len(lines))]
    BY <2>2 DEF V!Move
  <2> QED BY <2>3, <2>4 DEF BP!Move
<1>8. \A p, s, i : V!Promote(p, s, i) => BP!Promote(p, s, i)
  BY <1>1, <1>2, BoardReads, BoardEdits DEF V!Promote, BP!Promote
<1>9. \A p, s, i, t, j : V!Reparent(p, s, i, t, j) => BP!Reparent(p, s, i, t, j)
  BY <1>1, <1>2, BoardReads, BoardEdits DEF V!Reparent, BP!Reparent
<1>10. \A p, s, i, q, w : V!MoveToProject(p, s, i, q, w) => BP!MoveToProject(p, s, i, q, w)
  <2>1. \A p, s, i, q, w : V!Placed(p, s, i, q, w) = BP!Placed(p, s, i, q, w)
    BY BoardReads, BoardEdits DEF V!Placed, BP!Placed
  <2>2. \A p, source, q, target : V!Written(p, source, q, target) = BP!Written(p, source, q, target)
    BY Zenon DEF V!Written, BP!Written
  <2> QED BY <1>1, <2>1, <2>2, BoardReads DEF V!MoveToProject, BP!MoveToProject
<1>11. \A p : V!Sweep(p) => BP!Sweep(p)
  BY <1>2, BoardEdits, Zenon DEF V!Sweep, BP!Sweep
<1>12. \A p, i, status : V!VaultTicks(p, i, status) => BP!VaultTicks(p, i, status)
  BY <1>2, BoardReads, Zenon DEF V!VaultTicks, BP!VaultTicks
<1> QED BY <1>1, <1>3, <1>4, <1>5, <1>6, <1>7, <1>8, <1>9, <1>10, <1>11, <1>12, Zenon DEF V!Next, BP!Next

LEMMA BoardToldSame == BP!NothingLost => V!NothingLost
<1>1. V!Everywhere = BP!Everywhere
  BY BoardReads, Zenon DEF V!Everywhere, BP!Everywhere
<1>2. V!Live = BP!Live
  BY <1>1, BoardReads, Zenon DEF V!Live, BP!Live
<1>3. \A x : V!Copies(x) = BP!Copies(x)
  BY <1>2, BoardReads, Zenon DEF V!Copies, BP!Copies
<1> QED BY <1>3, BoardReads, Zenon DEF V!NothingLost, BP!NothingLost

\* What was written on the board is in a f until it is deleted, and nowhere
\* twice unless a move between two files was broken off: for any files, of any
\* length, and any number of operations.
THEOREM NothingIsLost == VaultSpec => []NothingLost
<1> DEFINE Inv == part = "board" => BP!BoardInv
<1>1. BP!BoardAssumption /\ BP!StartAssumption
  BY BoardStartSame, BoardPart, BoardFiles
<1>2. VaultInit => Inv
  BY <1>1, BoardStartSame, BP!BoardStarts DEF VaultInit
<1>3. Inv /\ [VaultNext]_<<part, vars, boards, usage>> => Inv'
  <2>1. ASSUME [VaultNext]_<<part, vars, boards, usage>>, part = "board"
        PROVE  [V!Next]_BP!vars
    BY <2>1 DEF VaultNext, boards, BP!vars
  <2>2. [VaultNext]_<<part, vars, boards, usage>> => part' = part
    BY DEF VaultNext
  <2> QED BY <1>1, <2>1, <2>2, BoardNextSame, BP!BoardNext DEF BP!StepKept
<1>4. Inv => NothingLost
  BY <1>1, BoardToldSame, BP!BoardTold DEF NothingLost
<1> QED BY <1>2, <1>3, <1>4, PTL DEF VaultSpec

LEMMA OccurrencesSame ==
  \A p : V!Occurrences(p) = BP!Occurrences(p) /\ V!Occurrences(p)' = BP!Occurrences(p)'
<1>1. \A f, s, i : V!IsOccurrence(f, s, i) = BP!IsOccurrence(f, s, i)
  BY BoardReads, Zenon DEF V!IsOccurrence, BP!IsOccurrence
<1>2. /\ \A S : V!Cardinality(S) = BP!Cardinality(S)
      /\ \A lines, i : V!Block(lines, i) = BP!Block(lines, i)
  BY BoardReads, Zenon
<1> QED BY <1>1, <1>2 DEF V!Occurrences, BP!Occurrences

\* What was finished of a recurring task is still in the file of its project
\* with every line below it, as often as it was, whatever the hub or the note
\* application does to the files, of any length.
THEOREM OccurrencesAreKept == VaultSpec => OccurrencesKept
<1> DEFINE Inv  == part = "board" => BP!BoardInv
           Kept == \A p \in Projects : \A b \in DOMAIN V!Occurrences(p) :
                     b \in DOMAIN V!Occurrences(p)' /\ V!Occurrences(p)'[b] >= V!Occurrences(p)[b]
<1>1. BP!BoardAssumption /\ BP!StartAssumption
  BY BoardStartSame, BoardPart, BoardFiles
<1>2. VaultInit => Inv
  BY <1>1, BoardStartSame, BP!BoardStarts DEF VaultInit
<1>3. Inv /\ [VaultNext]_<<part, vars, boards, usage>> => Inv' /\ [doc' # doc => Kept]_V!vars
  <2>1. ASSUME [VaultNext]_<<part, vars, boards, usage>>, part = "board"
        PROVE  [V!Next]_BP!vars
    BY <2>1 DEF VaultNext, boards, BP!vars
  <2>2. [VaultNext]_<<part, vars, boards, usage>> => part' = part
    BY DEF VaultNext
  <2>3. ASSUME [VaultNext]_<<part, vars, boards, usage>>, part # "board"
        PROVE  V!vars' = V!vars
    BY <2>3 DEF VaultNext, boards, V!vars
  <2>4. ASSUME Inv, [VaultNext]_<<part, vars, boards, usage>>, part = "board"
        PROVE  Kept
    <3>1. \A p \in Projects : \A b \in DOMAIN BP!Occurrences(p) :
            b \in DOMAIN BP!Occurrences(p)' /\ BP!Occurrences(p)'[b] >= BP!Occurrences(p)[b]
      BY <1>1, <2>1, <2>4, BoardNextSame, BP!StepKeepsOccurrences
    <3> QED BY <3>1, OccurrencesSame
  <2> QED BY <1>1, <2>1, <2>2, <2>3, <2>4, BoardNextSame, BP!BoardNext DEF BP!StepKept
<1> QED BY <1>2, <1>3, PTL DEF VaultSpec, OccurrencesKept, V!OccurrencesKept
=============================================================================
