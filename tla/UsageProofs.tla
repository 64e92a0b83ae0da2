----------------------------- MODULE UsageProofs -----------------------------
(***************************************************************************)
(* Every answer counts of a transcript what one read from its start would  *)
(* make of it, for any transcripts, windows, requests, restarts and faults.*)
(***************************************************************************)
EXTENDS Usage, TLAPS, WellFoundedInduction

-----------------------------------------------------------------------------
(* Lines that are fed one after the other *)

LEMMA Least ==
  ASSUME NEW S \in SUBSET Nat, S # {}
  PROVE  \E m \in S : \A x \in S : m <= x
<1>1. PICK m \in S : \A y \in S : <<y, m>> \notin OpToRel(<, Nat)
  BY WFMin, NatLessThanWellFounded, Zenon
<1>2. \A x \in S : ~(x < m)
  BY <1>1 DEF OpToRel
<1> QED BY <1>2

\* The recursive function in After, which gives every line its parser.
IsRun(run, p, lines, first, last) ==
  run = [n \in 0..last |-> IF n <= first THEN p ELSE Fed(run[n - 1], lines[n])]

LEMMA RunExists ==
  ASSUME NEW p, NEW lines, NEW first \in Nat, NEW last \in Nat
  PROVE  \E run : IsRun(run, p, lines, first, last)
<1> DEFINE Bad == {n \in Nat : ~ \E run : IsRun(run, p, lines, first, n)}
<1>1. SUFFICES ASSUME Bad # {} PROVE FALSE
  OBVIOUS
<1>2. PICK n \in Bad : \A m \in Bad : n <= m
  BY <1>1, Least, Zenon
<1>3. n # 0
  <2>1. IsRun([k \in 0..0 |-> p], p, lines, first, 0)
    BY DEF IsRun
  <2> QED BY <2>1
<1>4. PICK run : IsRun(run, p, lines, first, n - 1)
  BY <1>2, <1>3
<1> DEFINE more == [k \in 0..n |-> IF k < n THEN run[k]
                                   ELSE IF n <= first THEN p ELSE Fed(run[n - 1], lines[n])]
<1>5. IsRun(more, p, lines, first, n)
  <2>1. \A k \in 0..n : k < n => k \in 0..(n - 1)
    OBVIOUS
  <2>2. \A k \in 0..(n - 1) : run[k] = IF k <= first THEN p ELSE Fed(run[k - 1], lines[k])
    BY <1>4 DEF IsRun
  <2>3. \A k \in 0..n : more[k] = IF k <= first THEN p ELSE Fed(more[k - 1], lines[k])
    BY <2>2, <1>3
  <2>4. more = [k \in 0..n |-> more[k]]
    OBVIOUS
  <2> HIDE DEF more
  <2> QED BY <2>3, <2>4 DEF IsRun
<1> QED BY <1>5

LEMMA AfterIsRun ==
  ASSUME NEW p, NEW lines, NEW first \in Nat, NEW last \in Nat
  PROVE  \E run : IsRun(run, p, lines, first, last) /\ After(p, lines, first, last) = run[last]
<1> DEFINE run == CHOOSE fed : IsRun(fed, p, lines, first, last)
<1>1. IsRun(run, p, lines, first, last)
  BY RunExists
<1>2. After(p, lines, first, last) = run[last]
  BY Zenon DEF After, IsRun
<1> QED BY <1>1, <1>2

\* Runs over the same lines agree as far as both go.
LEMMA RunsAgree ==
  ASSUME NEW p, NEW lines, NEW first \in Nat, NEW last \in Nat, NEW to \in 0..last, NEW run, NEW less,
         IsRun(run, p, lines, first, last), IsRun(less, p, lines, first, to)
  PROVE  \A n \in 0..to : run[n] = less[n]
<1> DEFINE Bad == {n \in Nat : n <= to /\ run[n] # less[n]}
<1>1. SUFFICES ASSUME Bad # {} PROVE FALSE
  OBVIOUS
<1>2. PICK n \in Bad : \A m \in Bad : n <= m
  BY <1>1, Least, Zenon
<1>3. /\ \A k \in 0..last : run[k] = IF k <= first THEN p ELSE Fed(run[k - 1], lines[k])
      /\ \A k \in 0..to : less[k] = IF k <= first THEN p ELSE Fed(less[k - 1], lines[k])
  BY DEF IsRun
<1>4. n > first
  BY <1>2, <1>3
<1>5. run[n - 1] = less[n - 1]
  BY <1>2, <1>4
<1> QED BY <1>2, <1>3, <1>4, <1>5

LEMMA AfterNone ==
  ASSUME NEW p, NEW lines, NEW first \in Nat, NEW last \in Nat, last <= first
  PROVE  After(p, lines, first, last) = p
<1>1. PICK run : IsRun(run, p, lines, first, last) /\ After(p, lines, first, last) = run[last]
  BY AfterIsRun
<1> QED BY <1>1 DEF IsRun

LEMMA AfterOne ==
  ASSUME NEW p, NEW lines, NEW first \in Nat, NEW last \in Nat, first <= last
  PROVE  After(p, lines, first, last + 1) = Fed(After(p, lines, first, last), lines[last + 1])
<1>1. PICK run : IsRun(run, p, lines, first, last + 1) /\ After(p, lines, first, last + 1) = run[last + 1]
  BY AfterIsRun
<1>2. PICK less : IsRun(less, p, lines, first, last) /\ After(p, lines, first, last) = less[last]
  BY AfterIsRun
<1>3. run[last] = less[last]
  BY <1>1, <1>2, RunsAgree
<1>4. run[last + 1] = Fed(run[last], lines[last + 1])
  BY <1>1 DEF IsRun
<1> QED BY <1>1, <1>2, <1>3, <1>4

\* A read may stop and go on with the parser it has left.
LEMMA AfterSplit ==
  ASSUME NEW p, NEW lines, NEW first \in Nat, NEW middle \in Nat, NEW last \in Nat,
         first <= middle, middle <= last
  PROVE  After(After(p, lines, first, middle), lines, middle, last) = After(p, lines, first, last)
<1> DEFINE q == After(p, lines, first, middle)
           Bad == {n \in Nat : n >= middle /\ After(q, lines, middle, n) # After(p, lines, first, n)}
<1>1. SUFFICES ASSUME Bad # {} PROVE FALSE
  OBVIOUS
<1>2. PICK n \in Bad : \A m \in Bad : n <= m
  BY <1>1, Least, Zenon
<1>3. n # middle
  BY <1>2, AfterNone
<1>4. After(q, lines, middle, n - 1) = After(p, lines, first, n - 1)
  BY <1>2, <1>3
<1>5. PICK k \in Nat : n = k + 1 /\ k >= middle
  BY <1>2, <1>3
<1> HIDE DEF q
<1>6. After(q, lines, middle, k + 1) = Fed(After(q, lines, middle, k), lines[k + 1])
  BY <1>5, AfterOne
<1>7. After(p, lines, first, k + 1) = Fed(After(p, lines, first, k), lines[k + 1])
  BY <1>5, AfterOne
<1>8. After(q, lines, middle, k) = After(p, lines, first, k)
  BY <1>4, <1>5
<1> QED BY <1>2, <1>5, <1>6, <1>7, <1>8

-----------------------------------------------------------------------------
(* What a line does to a parser *)

Whole(lines, n) == After(NewParser, lines, 0, n)

Legible(lines) == Len(lines) \in Nat /\ \A i \in 1..Len(lines) : lines[i].kind \in Kinds

IsParser(p) ==
  /\ p = [turns |-> p.turns, anonymous |-> p.anonymous, previous |-> p.previous,
          model |-> p.model, session |-> p.session, torn |-> p.torn]
  /\ p.torn \in BOOLEAN

LEMMA NewIsParser == IsParser(NewParser) /\ NewParser.torn = FALSE
  BY DEF IsParser, NewParser

\* What a parser is after a message and after a count.
LEMMA MessageShape ==
  ASSUME NEW p, IsParser(p), NEW count, NEW turns
  PROVE  [p EXCEPT !.anonymous = count, !.turns = turns] =
           [turns |-> turns, anonymous |-> count, previous |-> p.previous,
            model |-> p.model, session |-> p.session, torn |-> p.torn]
<1> DEFINE q == [p EXCEPT !.anonymous = count, !.turns = turns]
<1>1. DOMAIN q = {"turns", "anonymous", "previous", "model", "session", "torn"}
  BY DEF IsParser
<1>2. q = [x \in DOMAIN q |-> q[x]]
  BY DEF IsParser
<1>3. q.turns = turns /\ q.anonymous = count
  BY DEF IsParser
<1>4. q.previous = p.previous /\ q.model = p.model /\ q.session = p.session /\ q.torn = p.torn
  BY DEF IsParser
<1> HIDE DEF q
<1>5. q = [turns |-> q.turns, anonymous |-> q.anonymous, previous |-> q.previous,
           model |-> q.model, session |-> q.session, torn |-> q.torn]
  BY <1>1, <1>2
<1> QED BY <1>3, <1>4, <1>5 DEF q

LEMMA CountShape ==
  ASSUME NEW p, IsParser(p), NEW total, NEW turns
  PROVE  [p EXCEPT !.previous = total, !.turns = turns] =
           [turns |-> turns, anonymous |-> p.anonymous, previous |-> total,
            model |-> p.model, session |-> p.session, torn |-> p.torn]
<1> DEFINE q == [p EXCEPT !.previous = total, !.turns = turns]
<1>1. DOMAIN q = {"turns", "anonymous", "previous", "model", "session", "torn"}
  BY DEF IsParser
<1>2. q = [x \in DOMAIN q |-> q[x]]
  BY DEF IsParser
<1>3. q.turns = turns /\ q.previous = total
  BY DEF IsParser
<1>4. q.anonymous = p.anonymous /\ q.model = p.model /\ q.session = p.session /\ q.torn = p.torn
  BY DEF IsParser
<1> HIDE DEF q
<1>5. q = [turns |-> q.turns, anonymous |-> q.anonymous, previous |-> q.previous,
           model |-> q.model, session |-> q.session, torn |-> q.torn]
  BY <1>1, <1>2
<1> QED BY <1>3, <1>4, <1>5 DEF q

LEMMA FedShape ==
  ASSUME NEW p, NEW line, IsParser(p), line.kind \in Kinds
  PROVE  IsParser(Fed(p, line)) /\ Fed(p, line).torn = p.torn
<1>1. CASE line.kind = "message"
  <2>1. Fed(p, line) = WithMessage(p, line)
    BY <1>1 DEF Fed
  <2>2. PICK count, turns : WithMessage(p, line) = [p EXCEPT !.anonymous = count, !.turns = turns]
    BY Zenon DEF WithMessage
  <2> QED BY <2>1, <2>2, MessageShape DEF IsParser
<1>2. CASE line.kind = "count"
  <2>1. Fed(p, line) = WithCount(p, line)
    BY <1>2 DEF Fed
  <2>2. CASE WithCount(p, line) = p
    BY <2>1, <2>2
  <2>3. CASE \E total, turns : WithCount(p, line) = [p EXCEPT !.previous = total, !.turns = turns]
    <3>1. PICK total, turns : WithCount(p, line) = [p EXCEPT !.previous = total, !.turns = turns]
      BY <2>3
    <3> QED BY <2>1, <3>1, CountShape DEF IsParser
  <2> QED BY <2>2, <2>3, Zenon DEF WithCount
<1>3. CASE line.kind = "model"
  <2>1. Fed(p, line) = [p EXCEPT !.model = line.value]
    BY <1>3 DEF Fed
  <2> QED BY <2>1 DEF IsParser
<1>4. CASE line.kind = "session"
  <2>1. Fed(p, line) = [p EXCEPT !.session = IF @ = None THEN line.value ELSE @]
    BY <1>4 DEF Fed
  <2> QED BY <2>1 DEF IsParser
<1> QED BY <1>1, <1>2, <1>3, <1>4 DEF Kinds

LEMMA AfterShape ==
  ASSUME NEW p, NEW lines, IsParser(p), Legible(lines), NEW first \in Nat, NEW last \in 0..Len(lines)
  PROVE  IsParser(After(p, lines, first, last)) /\ After(p, lines, first, last).torn = p.torn
<1> DEFINE Good(n) == IsParser(After(p, lines, first, n)) /\ After(p, lines, first, n).torn = p.torn
           Bad == {n \in Nat : n <= Len(lines) /\ ~Good(n)}
<1>0. Len(lines) \in Nat
  BY DEF Legible
<1>1. SUFFICES ASSUME Bad # {} PROVE FALSE
  BY <1>0
<1>2. PICK n \in Bad : \A m \in Bad : n <= m
  BY <1>1, Least, Zenon
<1>3. n > first
  BY <1>2, AfterNone
<1>4. PICK k \in Nat : n = k + 1 /\ k >= first
  BY <1>2, <1>3
<1>5. IsParser(After(p, lines, first, k)) /\ After(p, lines, first, k).torn = p.torn
  BY <1>0, <1>2, <1>4
<1>6. After(p, lines, first, k + 1) = Fed(After(p, lines, first, k), lines[k + 1])
  BY <1>4, AfterOne
<1>7. lines[k + 1].kind \in Kinds
  BY <1>0, <1>2, <1>4 DEF Legible
<1>8. Good(k + 1)
  BY <1>5, <1>6, <1>7, FedShape
<1> QED BY <1>2, <1>4, <1>8

-----------------------------------------------------------------------------
(* Lines that may be fed again: every one is a message with its id *)

ById(lines) ==
  /\ Len(lines) \in Nat
  /\ \A i \in 1..Len(lines) : lines[i].kind = "message" /\ lines[i].id # None

Turn(line) == [key |-> <<"id", line.id>>, value |-> line.value, model |-> None]
Turns(lines) == {Turn(lines[i]) : i \in 1..Len(lines)}

LEMMA FedById ==
  ASSUME NEW p, NEW line, IsParser(p), line.kind = "message", line.id # None
  PROVE  /\ Fed(p, line).turns = Put(p.turns, Turn(line))
         /\ Fed(p, line).session = p.session
<1>1. Fed(p, line) = WithMessage(p, line)
  BY DEF Fed
<1>2. WithMessage(p, line) = [p EXCEPT !.anonymous = p.anonymous, !.turns = Put(p.turns, Turn(line))]
  BY DEF WithMessage, Turn, IsParser
<1> QED BY <1>1, <1>2, MessageShape

\* A turn that is known is replaced where it stands.
LEMMA PutKnown ==
  ASSUME NEW S, NEW turns \in Seq(S), NEW turn \in S, NEW i \in 1..Len(turns), turns[i].key = turn.key
  PROVE  /\ Put(turns, turn) \in Seq(S) /\ Len(Put(turns, turn)) = Len(turns)
         /\ \A j \in 1..Len(turns) : /\ Put(turns, turn)[j].key = turns[j].key
                                     /\ turns[j].key # turn.key => Put(turns, turn)[j] = turns[j]
                                     /\ turns[j].key = turn.key => Put(turns, turn)[j] = turn
<1>1. Put(turns, turn) = [j \in 1..Len(turns) |-> IF turns[j].key = turn.key THEN turn ELSE turns[j]]
  BY DEF Put
<1> QED BY <1>1

LEMMA PutNew ==
  ASSUME NEW S, NEW turns \in Seq(S), NEW turn \in S, \A i \in 1..Len(turns) : turns[i].key # turn.key
  PROVE  /\ Put(turns, turn) \in Seq(S) /\ Len(Put(turns, turn)) = Len(turns) + 1
         /\ \A j \in 1..Len(turns) : Put(turns, turn)[j] = turns[j]
         /\ Put(turns, turn)[Len(turns) + 1] = turn
<1>1. Put(turns, turn) = Append(turns, turn)
  BY DEF Put
<1> QED BY <1>1

LEMMA WholeNone == ASSUME NEW lines PROVE Whole(lines, 0) = NewParser
  BY AfterNone DEF Whole

LEMMA WholeOne ==
  ASSUME NEW lines, NEW n \in Nat
  PROVE  Whole(lines, n + 1) = Fed(Whole(lines, n), lines[n + 1])
  BY AfterOne DEF Whole

LEMMA ByIdLegible == ASSUME NEW lines, ById(lines) PROVE Legible(lines)
  BY DEF ById, Legible, Kinds

\* What one read makes of lines with ids: a turn for each id, of these lines.
LEMMA WholeById ==
  ASSUME NEW lines, ById(lines), NEW n \in 0..Len(lines)
  PROVE  /\ IsParser(Whole(lines, n)) /\ Whole(lines, n).session = None
         /\ Whole(lines, n).turns \in Seq(Turns(lines))
         /\ \A k \in 1..n : \E i \in 1..Len(Whole(lines, n).turns) :
              Whole(lines, n).turns[i].key = Turn(lines[k]).key
<1> DEFINE Good(m) == /\ IsParser(Whole(lines, m)) /\ Whole(lines, m).session = None
                      /\ Whole(lines, m).turns \in Seq(Turns(lines))
                      /\ \A k \in 1..m : \E i \in 1..Len(Whole(lines, m).turns) :
                           Whole(lines, m).turns[i].key = Turn(lines[k]).key
           Bad == {m \in Nat : m <= Len(lines) /\ ~Good(m)}
<1>0. Len(lines) \in Nat
  BY DEF ById
<1>1. SUFFICES ASSUME Bad # {} PROVE FALSE
  BY <1>0
<1>2. PICK m \in Bad : \A k \in Bad : m <= k
  BY <1>1, Least, Zenon
<1>3. Good(0)
  <2>1. NewParser.session = None /\ NewParser.turns = <<>>
    BY DEF NewParser
  <2>2. Whole(lines, 0) = NewParser
    BY WholeNone
  <2>3. <<>> \in Seq(Turns(lines)) /\ ~ \E k \in 1..0 : TRUE
    OBVIOUS
  <2> QED BY <2>1, <2>2, <2>3, NewIsParser
<1>4. PICK k \in Nat : m = k + 1
  <2> HIDE DEF Good
  <2>1. m # 0
    BY <1>2, <1>3
  <2> QED BY <1>2, <2>1
<1>5. Good(k)
  <2> HIDE DEF Good
  <2>1. k \in Nat /\ k < m /\ k <= Len(lines)
    BY <1>0, <1>2, <1>4
  <2> QED BY <1>2, <2>1
<1>6. k + 1 \in 1..Len(lines) /\ Turn(lines[k + 1]) \in Turns(lines)
  BY <1>0, <1>2, <1>4 DEF Turns
<1> DEFINE turns == Whole(lines, k).turns
           turn  == Turn(lines[k + 1])
<1>7. /\ IsParser(Whole(lines, k + 1)) /\ Whole(lines, k + 1).session = None
      /\ Whole(lines, k + 1).turns = Put(turns, turn)
  <2>1. lines[k + 1].kind = "message" /\ lines[k + 1].id # None /\ lines[k + 1].kind \in Kinds
    BY <1>6 DEF ById, Kinds
  <2>2. IsParser(Whole(lines, k)) /\ Whole(lines, k).session = None
    BY <1>5
  <2>3. Whole(lines, k + 1) = Fed(Whole(lines, k), lines[k + 1])
    BY WholeOne
  <2> QED BY <2>1, <2>2, <2>3, FedById, FedShape
<1>8. turns \in Seq(Turns(lines)) /\ turn \in Turns(lines)
  BY <1>5, <1>6
<1>9. /\ Put(turns, turn) \in Seq(Turns(lines)) /\ Len(Put(turns, turn)) >= Len(turns)
      /\ \A i \in 1..Len(turns) : Put(turns, turn)[i].key = turns[i].key
      /\ \E i \in 1..Len(Put(turns, turn)) : Put(turns, turn)[i].key = turn.key
  <2> HIDE DEF turns, turn
  <2>1. CASE \E i \in 1..Len(turns) : turns[i].key = turn.key
    BY <1>8, <2>1, PutKnown
  <2>2. CASE \A i \in 1..Len(turns) : turns[i].key # turn.key
    <3>1. /\ Put(turns, turn) \in Seq(Turns(lines)) /\ Len(Put(turns, turn)) = Len(turns) + 1
          /\ \A j \in 1..Len(turns) : Put(turns, turn)[j] = turns[j]
          /\ Put(turns, turn)[Len(turns) + 1] = turn
      BY <1>8, <2>2, PutNew
    <3>2. Len(turns) \in Nat
      BY <1>8
    <3> QED BY <3>1, <3>2
  <2> QED BY <2>1, <2>2
<1>10. \A j \in 1..k : \E i \in 1..Len(turns) : turns[i].key = Turn(lines[j]).key
  BY <1>5
<1>11. \A j \in 1..(k + 1) : \E i \in 1..Len(Put(turns, turn)) : Put(turns, turn)[i].key = Turn(lines[j]).key
  <2>1. Len(turns) \in Nat /\ Len(Put(turns, turn)) \in Nat
    BY <1>8, <1>9
  <2>2. \A j \in 1..(k + 1) : j \in 1..k \/ j = k + 1
    OBVIOUS
  <2>3. turn = Turn(lines[k + 1])
    OBVIOUS
  <2> HIDE DEF turns, turn
  <2> QED BY <1>9, <1>10, <2>1, <2>2, <2>3
<1>12. Good(k + 1)
  BY <1>7, <1>9, <1>11
<1> QED BY <1>2, <1>4, <1>12

LEMMA WholeTurns ==
  ASSUME NEW lines, ById(lines), NEW k \in Nat, k + 1 <= Len(lines)
  PROVE  /\ Whole(lines, k + 1).turns = Put(Whole(lines, k).turns, Turn(lines[k + 1]))
         /\ Turn(lines[k + 1]) \in Turns(lines)
<1>1. k \in 0..Len(lines) /\ k + 1 \in 1..Len(lines)
  BY DEF ById
<1>2. lines[k + 1].kind = "message" /\ lines[k + 1].id # None
  BY <1>1 DEF ById
<1>3. Whole(lines, k + 1) = Fed(Whole(lines, k), lines[k + 1]) /\ IsParser(Whole(lines, k))
  BY <1>1, WholeOne, WholeById
<1>4. Turn(lines[k + 1]) \in Turns(lines)
  BY <1>1 DEF Turns
<1> QED BY <1>2, <1>3, <1>4, FedById

\* More lines keep the turns there are in their places, and change only those
\* that one of these lines has.
LEMMA WholePrefix ==
  ASSUME NEW lines, ById(lines), NEW a \in Nat, NEW b \in Nat, a <= b, b <= Len(lines)
  PROVE  /\ Len(Whole(lines, a).turns) <= Len(Whole(lines, b).turns)
         /\ \A i \in 1..Len(Whole(lines, a).turns) :
              /\ Whole(lines, b).turns[i].key = Whole(lines, a).turns[i].key
              /\ \/ Whole(lines, b).turns[i] = Whole(lines, a).turns[i]
                 \/ \E k \in a + 1..b : Turn(lines[k]).key = Whole(lines, a).turns[i].key
<1> DEFINE old == Whole(lines, a).turns
           Good(m) == /\ Len(old) <= Len(Whole(lines, m).turns)
                      /\ \A i \in 1..Len(old) :
                           /\ Whole(lines, m).turns[i].key = old[i].key
                           /\ \/ Whole(lines, m).turns[i] = old[i]
                              \/ \E k \in a + 1..m : Turn(lines[k]).key = old[i].key
           Bad == {m \in Nat : m >= a /\ m <= Len(lines) /\ ~Good(m)}
<1>0. Len(lines) \in Nat
  BY DEF ById
<1>1. SUFFICES ASSUME Bad # {} PROVE FALSE
  OBVIOUS
<1>2. PICK m \in Bad : \A k \in Bad : m <= k
  BY <1>1, Least, Zenon
<1>3. old \in Seq(Turns(lines)) /\ Len(old) \in Nat
  BY <1>0, WholeById
<1>4. Good(a)
  BY <1>3
<1>5. PICK k \in Nat : m = k + 1 /\ k >= a
  <2> HIDE DEF Good
  <2>1. m # a /\ m >= a /\ m \in Nat
    BY <1>2, <1>4
  <2> QED BY <2>1
<1>6. Good(k)
  <2> HIDE DEF Good
  <2>1. k \in Nat /\ k < m /\ k >= a /\ k <= Len(lines)
    BY <1>0, <1>2, <1>5
  <2> QED BY <1>2, <2>1
<1> DEFINE turns == Whole(lines, k).turns
           turn  == Turn(lines[k + 1])
<1>7. turns \in Seq(Turns(lines)) /\ turn \in Turns(lines) /\ Whole(lines, k + 1).turns = Put(turns, turn)
  BY <1>0, <1>2, <1>5, WholeById, WholeTurns
<1>8. /\ Len(Put(turns, turn)) >= Len(turns) /\ Len(turns) \in Nat /\ Len(Put(turns, turn)) \in Nat
      /\ \A i \in 1..Len(turns) : /\ Put(turns, turn)[i].key = turns[i].key
                                  /\ Put(turns, turn)[i] = turns[i] \/ turns[i].key = turn.key
  <2> HIDE DEF turns, turn
  <2>1. CASE \E i \in 1..Len(turns) : turns[i].key = turn.key
    BY <1>7, <2>1, PutKnown
  <2>2. CASE \A i \in 1..Len(turns) : turns[i].key # turn.key
    <3>1. /\ Put(turns, turn) \in Seq(Turns(lines)) /\ Len(Put(turns, turn)) = Len(turns) + 1
          /\ \A j \in 1..Len(turns) : Put(turns, turn)[j] = turns[j]
      BY <1>7, <2>2, PutNew
    <3>2. Len(turns) \in Nat
      BY <1>7
    <3> QED BY <3>1, <3>2
  <2> QED BY <2>1, <2>2
<1>9. Good(k + 1)
  <2>1. Len(old) <= Len(turns)
    BY <1>6
  <2>2. ASSUME NEW i \in 1..Len(old)
        PROVE  /\ Put(turns, turn)[i].key = old[i].key
               /\ \/ Put(turns, turn)[i] = old[i]
                  \/ \E j \in a + 1..k + 1 : Turn(lines[j]).key = old[i].key
    <3>1. i \in 1..Len(turns)
      BY <1>3, <1>8, <2>1
    <3>2. turns[i].key = old[i].key /\ (turns[i] = old[i] \/ \E j \in a + 1..k : Turn(lines[j]).key = old[i].key)
      BY <1>6
    <3>3. \A j \in a + 1..k : j \in a + 1..k + 1
      OBVIOUS
    <3>4. k + 1 \in a + 1..k + 1
      BY <1>5
    <3> HIDE DEF turns, old
    <3> QED BY <1>8, <3>1, <3>2, <3>3, <3>4
  <2> HIDE DEF turns, turn, old
  <2> QED BY <1>3, <1>7, <1>8, <2>1, <2>2
<1> QED BY <1>2, <1>5, <1>9

\* Turns of which the lines up to h have told all but what is still to be told
\* of the lines after j: they are there, in their order, and those that none of
\* the lines after j has are what the lines up to j make of them.
Told(lines, h, j, turns) ==
  /\ turns \in Seq(Turns(lines))
  /\ Len(turns) = Len(Whole(lines, h).turns)
  /\ \A i \in 1..Len(turns) : turns[i].key = Whole(lines, h).turns[i].key
  /\ \A i \in 1..Len(Whole(lines, j).turns) :
       \/ turns[i] = Whole(lines, j).turns[i]
       \/ \E k \in j + 1..h : Turn(lines[k]).key = turns[i].key

LEMMA ToldWhole ==
  ASSUME NEW lines, ById(lines), NEW j \in Nat, NEW h \in Nat, j <= h, h <= Len(lines)
  PROVE  Told(lines, h, j, Whole(lines, h).turns)
<1>0. h \in 0..Len(lines)
  BY DEF ById
<1>1. Whole(lines, h).turns \in Seq(Turns(lines))
  BY <1>0, WholeById
<1>2. \A i \in 1..Len(Whole(lines, j).turns) :
        /\ Whole(lines, h).turns[i].key = Whole(lines, j).turns[i].key
        /\ \/ Whole(lines, h).turns[i] = Whole(lines, j).turns[i]
           \/ \E k \in j + 1..h : Turn(lines[k]).key = Whole(lines, j).turns[i].key
  BY WholePrefix
<1> QED BY <1>1, <1>2 DEF Told

LEMMA ToldAll ==
  ASSUME NEW lines, ById(lines), NEW h \in 0..Len(lines), NEW turns, Told(lines, h, h, turns)
  PROVE  turns = Whole(lines, h).turns
<1>1. Whole(lines, h).turns \in Seq(Turns(lines)) /\ turns \in Seq(Turns(lines))
  BY WholeById DEF Told
<1>2. ~ \E k \in h + 1..h : TRUE
  BY DEF ById
<1>3. Len(turns) = Len(Whole(lines, h).turns) /\ \A i \in 1..Len(turns) : turns[i] = Whole(lines, h).turns[i]
  BY <1>2 DEF Told
<1> QED BY <1>1, <1>3

\* A line that is fed again.
LEMMA PutTold ==
  ASSUME NEW lines, ById(lines), NEW b \in Nat, NEW k \in Nat, NEW h \in Nat,
         b <= k, k + 1 <= h, h <= Len(lines), NEW turns,
         Told(lines, h, b, turns), Told(lines, h, k, turns)
  PROVE  /\ Told(lines, h, b, Put(turns, Turn(lines[k + 1])))
         /\ Told(lines, h, k + 1, Put(turns, Turn(lines[k + 1])))
<1> DEFINE turn == Turn(lines[k + 1])
           next == Put(turns, turn)
           W(n) == Whole(lines, n).turns
<1>0. Len(lines) \in Nat
  BY DEF ById
<1>1. /\ turns \in Seq(Turns(lines)) /\ Len(turns) = Len(W(h)) /\ Len(turns) \in Nat
      /\ \A i \in 1..Len(turns) : turns[i].key = W(h)[i].key
  BY DEF Told
<1>2. turn \in Turns(lines) /\ W(k + 1) = Put(W(k), turn)
  BY <1>0, WholeTurns
<1>3. \E i \in 1..Len(turns) : turns[i].key = turn.key
  <2>1. \E i \in 1..Len(W(h)) : W(h)[i].key = turn.key
    BY <1>0, WholeById
  <2> QED BY <1>1, <2>1
<1>4. /\ next \in Seq(Turns(lines)) /\ Len(next) = Len(turns)
      /\ \A i \in 1..Len(turns) : /\ next[i].key = turns[i].key
                                  /\ turns[i].key # turn.key => next[i] = turns[i]
                                  /\ turns[i].key = turn.key => next[i] = turn
  <2> HIDE DEF turn
  <2> QED BY <1>1, <1>2, <1>3, PutKnown
<1>5. /\ Len(W(b)) <= Len(turns) /\ Len(W(k)) <= Len(turns) /\ Len(W(k + 1)) <= Len(turns)
      /\ Len(W(b)) \in Nat /\ Len(W(k)) \in Nat /\ Len(W(k + 1)) \in Nat
      /\ \A i \in 1..Len(W(k)) : W(k)[i].key = W(h)[i].key
      /\ \A i \in 1..Len(W(k + 1)) : W(k + 1)[i].key = W(h)[i].key
  <2>1. b \in 0..Len(lines) /\ k \in 0..Len(lines) /\ k + 1 \in 0..Len(lines)
    BY <1>0
  <2>2. Len(W(b)) \in Nat /\ Len(W(k)) \in Nat /\ Len(W(k + 1)) \in Nat
    BY <2>1, WholeById
  <2>3. Len(W(b)) <= Len(W(h))
    BY WholePrefix, b <= h
  <2>4. Len(W(k)) <= Len(W(h)) /\ \A i \in 1..Len(W(k)) : W(k)[i].key = W(h)[i].key
    BY WholePrefix, k <= h
  <2>5. Len(W(k + 1)) <= Len(W(h)) /\ \A i \in 1..Len(W(k + 1)) : W(k + 1)[i].key = W(h)[i].key
    BY WholePrefix, k + 1 \in Nat
  <2> QED BY <1>1, <2>2, <2>3, <2>4, <2>5
<1>6. ASSUME NEW i \in 1..Len(W(b))
      PROVE  next[i] = W(b)[i] \/ \E m \in b + 1..h : Turn(lines[m]).key = next[i].key
  <2>1. i \in 1..Len(turns)
    BY <1>1, <1>5
  <2>2. turns[i] = W(b)[i] \/ \E m \in b + 1..h : Turn(lines[m]).key = turns[i].key
    BY DEF Told
  <2>3. k + 1 \in b + 1..h
    OBVIOUS
  <2> HIDE DEF next, W
  <2> QED BY <1>4, <2>1, <2>2, <2>3
<1>7. ASSUME NEW i \in 1..Len(W(k))
      PROVE  /\ W(k)[i].key # turn.key => next[i] = W(k)[i]
                                          \/ \E m \in k + 2..h : Turn(lines[m]).key = next[i].key
             /\ W(k)[i].key = turn.key => next[i] = turn
  <2>1. i \in 1..Len(turns)
    BY <1>1, <1>5
  <2>2. turns[i] = W(k)[i] \/ \E m \in k + 1..h : Turn(lines[m]).key = turns[i].key
    BY DEF Told
  <2>3. turns[i].key = W(k)[i].key
    BY <1>1, <1>5, <2>1
  <2>4. \A m \in k + 1..h : m = k + 1 \/ m \in k + 2..h
    OBVIOUS
  <2> HIDE DEF next, W
  <2> QED BY <1>4, <2>1, <2>2, <2>3, <2>4
<1>8. ASSUME NEW i \in 1..Len(W(k + 1))
      PROVE  next[i] = W(k + 1)[i] \/ \E m \in k + 2..h : Turn(lines[m]).key = next[i].key
  <2>1. W(k) \in Seq(Turns(lines)) /\ k \in 0..Len(lines)
    BY <1>0, WholeById
  <2>2. CASE \E j \in 1..Len(W(k)) : W(k)[j].key = turn.key
    <3>1. /\ Len(W(k + 1)) = Len(W(k))
          /\ \A j \in 1..Len(W(k)) : /\ W(k)[j].key # turn.key => W(k + 1)[j] = W(k)[j]
                                     /\ W(k)[j].key = turn.key => W(k + 1)[j] = turn
      <4> HIDE DEF turn, W
      <4> QED BY <1>2, <2>1, <2>2, PutKnown
    <3> HIDE DEF turn, W, next
    <3> QED BY <1>7, <3>1
  <2>3. CASE \A j \in 1..Len(W(k)) : W(k)[j].key # turn.key
    <3>1. /\ Len(W(k + 1)) = Len(W(k)) + 1
          /\ \A j \in 1..Len(W(k)) : W(k + 1)[j] = W(k)[j]
          /\ W(k + 1)[Len(W(k)) + 1] = turn
      <4> HIDE DEF turn, W
      <4> QED BY <1>2, <2>1, <2>3, PutNew
    <3> HIDE DEF turn, W, next
    <3>2. CASE i \in 1..Len(W(k))
      BY <1>7, <2>3, <3>1, <3>2
    <3>3. CASE i = Len(W(k)) + 1
      <4>1. turns[i].key = turn.key /\ i \in 1..Len(turns)
        BY <1>1, <1>5, <3>1, <3>3
      <4> QED BY <1>4, <3>1, <3>3, <4>1
    <3> QED BY <1>5, <3>1, <3>2, <3>3
  <2> QED BY <2>2, <2>3
<1> DEFINE k2 == k + 1
<1>9. k2 + 1 = k + 2
  OBVIOUS
<1>10. \A i \in 1..Len(next) : next[i].key = W(h)[i].key
  <2> HIDE DEF next, W, turn
  <2> QED BY <1>1, <1>4
<1>11. Told(lines, h, b, next)
  BY <1>1, <1>4, <1>6, <1>10 DEF Told
<1>12. Told(lines, h, k2, next)
  <2> HIDE DEF next, turn
  <2> QED BY <1>1, <1>4, <1>8, <1>9, <1>10 DEF Told
<1> QED BY <1>11, <1>12

\* The lines from b on are fed again, up to j of the h lines told already.
LEMMA Refed ==
  ASSUME NEW lines, ById(lines), NEW b \in Nat, NEW h \in Nat, b <= h, h <= Len(lines),
         NEW p, IsParser(p), p.session = None, Told(lines, h, b, p.turns), NEW j \in b..h
  PROVE  /\ After(p, lines, b, j).session = None
         /\ Told(lines, h, b, After(p, lines, b, j).turns)
         /\ Told(lines, h, j, After(p, lines, b, j).turns)
<1> DEFINE q(n) == After(p, lines, b, n)
           Good(n) == /\ q(n).session = None
                      /\ Told(lines, h, b, q(n).turns) /\ Told(lines, h, n, q(n).turns)
           Bad == {n \in Nat : n >= b /\ n <= h /\ ~Good(n)}
<1>0. Len(lines) \in Nat
  BY DEF ById
<1>1. SUFFICES ASSUME Bad # {} PROVE FALSE
  OBVIOUS
<1>2. PICK n \in Bad : \A m \in Bad : n <= m
  BY <1>1, Least, Zenon
<1>3. Good(b)
  BY AfterNone
<1>4. PICK k \in Nat : n = k + 1 /\ k >= b
  <2> HIDE DEF Good
  <2>1. n # b /\ n >= b /\ n \in Nat
    BY <1>2, <1>3
  <2> QED BY <2>1
<1>5. Good(k)
  <2> HIDE DEF Good
  <2>1. k \in Nat /\ k < n /\ k >= b /\ k <= h
    BY <1>0, <1>2, <1>4
  <2> QED BY <1>2, <2>1
<1>6. q(k + 1) = Fed(q(k), lines[k + 1])
  BY <1>4, AfterOne
<1>7. IsParser(q(k))
  <2>1. k \in 0..Len(lines)
    BY <1>0, <1>2, <1>4
  <2> QED BY <2>1, AfterShape, ByIdLegible
<1>8. lines[k + 1].kind = "message" /\ lines[k + 1].id # None
  BY <1>0, <1>2, <1>4 DEF ById
<1>9. q(k + 1).turns = Put(q(k).turns, Turn(lines[k + 1])) /\ q(k + 1).session = None
  <2> HIDE DEF q
  <2> QED BY <1>5, <1>6, <1>7, <1>8, FedById
<1>10. Good(k + 1)
  <2> HIDE DEF q
  <2>1. b <= k /\ k + 1 <= h
    BY <1>2, <1>4
  <2> QED BY <1>5, <1>9, <2>1, PutTold
<1> HIDE DEF Good
<1> QED BY <1>2, <1>4, <1>10

\* What parsers of lines with ids make of more lines depends on their turns.
LEMMA SameTurns ==
  ASSUME NEW lines, ById(lines), NEW first \in Nat, NEW last \in Nat, first <= last, last <= Len(lines),
         NEW p, NEW q, IsParser(p), IsParser(q), p.turns = q.turns, p.session = None
  PROVE  /\ After(p, lines, first, last).turns = After(q, lines, first, last).turns
         /\ After(p, lines, first, last).session = None
<1> DEFINE P(n) == After(p, lines, first, n)
           Q(n) == After(q, lines, first, n)
           Good(n) == P(n).turns = Q(n).turns /\ P(n).session = None
           Bad == {n \in Nat : n >= first /\ n <= Len(lines) /\ ~Good(n)}
<1>0. Len(lines) \in Nat
  BY DEF ById
<1>1. SUFFICES ASSUME Bad # {} PROVE FALSE
  OBVIOUS
<1>2. PICK n \in Bad : \A m \in Bad : n <= m
  BY <1>1, Least, Zenon
<1>3. Good(first)
  BY AfterNone
<1>4. PICK k \in Nat : n = k + 1 /\ k >= first
  <2> HIDE DEF Good
  <2>1. n # first /\ n >= first /\ n \in Nat
    BY <1>2, <1>3
  <2> QED BY <2>1
<1>5. Good(k)
  <2> HIDE DEF Good
  <2>1. k \in Nat /\ k < n /\ k >= first /\ k <= Len(lines)
    BY <1>0, <1>2, <1>4
  <2> QED BY <1>2, <2>1
<1>6. P(k + 1) = Fed(P(k), lines[k + 1]) /\ Q(k + 1) = Fed(Q(k), lines[k + 1])
  BY <1>4, AfterOne
<1>7. IsParser(P(k)) /\ IsParser(Q(k))
  <2>1. k \in 0..Len(lines)
    BY <1>0, <1>2, <1>4
  <2> QED BY <2>1, AfterShape, ByIdLegible
<1>8. lines[k + 1].kind = "message" /\ lines[k + 1].id # None
  BY <1>0, <1>2, <1>4 DEF ById
<1>9. Good(k + 1)
  <2> HIDE DEF P, Q
  <2> QED BY <1>5, <1>6, <1>7, <1>8, FedById
<1> HIDE DEF Good
<1> QED BY <1>2, <1>4, <1>9

LEMMA WholeSplit ==
  ASSUME NEW lines, NEW n \in Nat, NEW m \in Nat, n <= m
  PROVE  After(Whole(lines, n), lines, n, m) = Whole(lines, m)
  BY AfterSplit DEF Whole

\* A read that goes past all that was told has told everything.
LEMMA ReadOn ==
  ASSUME NEW lines, ById(lines), NEW b \in Nat, NEW h \in Nat, NEW m \in Nat, b <= h, h <= m, m <= Len(lines),
         NEW p, IsParser(p), p.session = None, Told(lines, h, b, p.turns)
  PROVE  /\ After(p, lines, b, m).turns = Whole(lines, m).turns
         /\ After(p, lines, b, m).session = None
<1> DEFINE q == After(p, lines, b, h)
<1>0. Len(lines) \in Nat /\ h \in 0..Len(lines)
  BY DEF ById
<1>1. q.session = None /\ Told(lines, h, h, q.turns)
  BY Refed, h \in b..h
<1>2. IsParser(q)
  BY <1>0, AfterShape, ByIdLegible
<1>3. IsParser(Whole(lines, h))
  BY <1>0, WholeById
<1>4. After(q, lines, h, m) = After(p, lines, b, m)
  BY AfterSplit
<1>5. After(Whole(lines, h), lines, h, m) = Whole(lines, m)
  BY WholeSplit
<1> HIDE DEF q
<1>6. q.turns = Whole(lines, h).turns
  BY <1>0, <1>1, ToldAll
<1> QED BY <1>1, <1>2, <1>3, <1>4, <1>5, <1>6, SameTurns

-----------------------------------------------------------------------------
(* The parsers that are kept *)

\* The parser after a whole read of n lines.  A parser that a failed read has
\* fed is one more only of lines with ids.
KeptParser(lines, n, p) ==
  /\ IsParser(p)
  /\ ~p.torn => p = Whole(lines, n)
  /\ ById(lines) => p.session = None /\ p.turns = Whole(lines, n).turns

\* The parser in memory, which failed reads may have fed lines after the first
\* n, of those there are.
LiveParser(lines, n, last, p) ==
  /\ IsParser(p)
  /\ ~p.torn => p = Whole(lines, n)
  /\ ById(lines) => p.session = None /\ \E h \in n..last : Told(lines, h, n, p.turns)

LEMMA KeptIsLive ==
  ASSUME NEW lines, NEW n \in Nat, NEW last \in Nat, n <= last, last <= Len(lines), NEW p, KeptParser(lines, n, p)
  PROVE  LiveParser(lines, n, last, p)
<1>1. n \in n..last
  OBVIOUS
<1>2. ById(lines) => Told(lines, n, n, Whole(lines, n).turns)
  <2>1. ASSUME ById(lines) PROVE n <= Len(lines)
    BY <2>1 DEF ById
  <2> QED BY <2>1, ToldWhole
<1> QED BY <1>1, <1>2 DEF KeptParser, LiveParser

LEMMA LiveGrows ==
  ASSUME NEW lines, NEW n \in Nat, NEW last \in Nat, NEW more \in Nat, last <= more, NEW p,
         LiveParser(lines, n, last, p)
  PROVE  LiveParser(lines, n, more, p)
<1>1. \A h \in n..last : h \in n..more
  OBVIOUS
<1> QED BY <1>1 DEF LiveParser

\* A read that succeeds, to the last of the lines there are.
LEMMA LiveRead ==
  ASSUME NEW lines, Legible(lines), NEW n \in Nat, NEW last \in Nat, n <= last, last <= Len(lines), NEW p,
         LiveParser(lines, n, last, p)
  PROVE  KeptParser(lines, last, After(p, lines, n, last))
<1> DEFINE q == After(p, lines, n, last)
<1>0. last \in 0..Len(lines)
  BY DEF Legible
<1>1. IsParser(q) /\ q.torn = p.torn
  BY <1>0, AfterShape DEF LiveParser
<1>2. ~p.torn => q = Whole(lines, last)
  BY WholeSplit DEF LiveParser
<1>3. ASSUME ById(lines) PROVE q.session = None /\ q.turns = Whole(lines, last).turns
  <2>1. PICK h \in n..last : Told(lines, h, n, p.turns)
    BY <1>3 DEF LiveParser
  <2>2. IsParser(p) /\ p.session = None
    BY <1>3 DEF LiveParser
  <2> QED BY <1>3, <2>1, <2>2, ReadOn
<1> HIDE DEF q
<1>4. ~q.torn => q = Whole(lines, last)
  BY <1>1, <1>2, Zenon
<1>5. KeptParser(lines, last, q)
  BY <1>1, <1>3, <1>4, Zenon DEF KeptParser
<1> QED BY <1>5 DEF q

\* A read that fails after some line.
LEMMA LiveTorn ==
  ASSUME NEW lines, Legible(lines), NEW n \in Nat, NEW last \in Nat, last <= Len(lines), NEW p,
         LiveParser(lines, n, last, p), NEW to \in n..last
  PROVE  LiveParser(lines, n, last, [After(p, lines, n, to) EXCEPT !.torn = TRUE])
<1> DEFINE q == After(p, lines, n, to)
           r == [q EXCEPT !.torn = TRUE]
<1>0. to \in 0..Len(lines)
  BY DEF Legible
<1>1. IsParser(q)
  BY <1>0, AfterShape DEF LiveParser
<1>2. ASSUME ById(lines)
      PROVE  q.session = None /\ \E h \in n..last : Told(lines, h, n, q.turns)
  <2>1. PICK h \in n..last : Told(lines, h, n, p.turns)
    BY <1>2 DEF LiveParser
  <2>2. IsParser(p) /\ p.session = None
    BY <1>2 DEF LiveParser
  <2>3. CASE to <= h
    <3>1. to \in n..h
      BY <2>3
    <3> QED BY <1>2, <2>1, <2>2, <3>1, Refed
  <2>4. CASE to > h
    <3>1. q.session = None /\ q.turns = Whole(lines, to).turns
      BY <1>2, <2>1, <2>2, <2>4, ReadOn
    <3>2. Told(lines, to, n, Whole(lines, to).turns)
      BY <1>2, ToldWhole
    <3> QED BY <3>1, <3>2
  <2> QED BY <2>3, <2>4
<1> HIDE DEF q
<1>3. IsParser(r) /\ r.torn = TRUE /\ r.turns = q.turns /\ r.session = q.session
  <2>1. r = [turns |-> q.turns, anonymous |-> q.anonymous, previous |-> q.previous,
             model |-> q.model, session |-> q.session, torn |-> TRUE]
    <3>1. DOMAIN r = {"turns", "anonymous", "previous", "model", "session", "torn"}
      BY <1>1 DEF IsParser
    <3>2. r = [x \in DOMAIN r |-> r[x]]
      BY <1>1 DEF IsParser
    <3>3. /\ r.turns = q.turns /\ r.anonymous = q.anonymous /\ r.previous = q.previous
          /\ r.model = q.model /\ r.session = q.session
      BY <1>1 DEF IsParser
    <3>4. r.torn = TRUE
      BY <1>1 DEF IsParser
    <3> HIDE DEF r
    <3>5. r = [turns |-> r.turns, anonymous |-> r.anonymous, previous |-> r.previous,
               model |-> r.model, session |-> r.session, torn |-> r.torn]
      BY <3>1, <3>2
    <3> QED BY <3>3, <3>4, <3>5
  <2> HIDE DEF r
  <2>2. r.torn = TRUE
    BY <2>1
  <2>3. r.torn \in BOOLEAN
    BY <2>2, Zenon
  <2>4. /\ r.turns = q.turns /\ r.anonymous = q.anonymous /\ r.previous = q.previous
        /\ r.model = q.model /\ r.session = q.session
    BY <2>1
  <2> QED BY <2>1, <2>2, <2>3, <2>4, Zenon DEF IsParser
<1> HIDE DEF r
<1>4. LiveParser(lines, n, last, r)
  BY <1>2, <1>3 DEF LiveParser
<1> QED BY <1>4 DEF q, r

-----------------------------------------------------------------------------
(* The entries of the cache *)

LEMMA Offsets ==
  /\ Begun(0) = 0
  /\ \A n \in Nat : Lines(n) \in Nat /\ Offset(n) \in 0..n /\ Begun(Offset(n)) = Lines(n)
  /\ \A m, n \in Nat : /\ m <= n => Lines(m) <= Lines(n)
                       /\ Offset(m) <= n => Lines(m) <= Lines(n)
                       /\ m <= Pieces * n => Lines(m) <= n
  BY DEF Lines, Begun, Offset, Pieces

\* An entry has read as far as some length that the file has had, no shorter
\* than the one it is filed under.
EntryKept(lines, written, e) ==
  /\ {"size", "offset", "kept", "live"} \subseteq DOMAIN e
  /\ e.size \in Nat
  /\ \E read \in e.size..written :
       /\ e.offset = Offset(read)
       /\ KeptParser(lines, Lines(read), e.kept)
       /\ e.live # None => LiveParser(lines, Lines(read), Lines(written), e.live)

\* The value is what one read makes of the lines of such a length.
Counted(lines, written, v) ==
  \/ v.torn /\ ~ById(lines)
  \/ \E n \in Lines(v.looked)..Lines(written) : v.report = Report(Whole(lines, n))

\* The lines of a file and how much of them is written.
Written(lines, written) == Legible(lines) /\ written \in 0..Pieces * Len(lines)

LEMMA WrittenLines ==
  ASSUME NEW lines, NEW written, Written(lines, written)
  PROVE  written \in Nat /\ Lines(written) \in 0..Len(lines)
  BY Offsets DEF Written, Legible, Pieces

LEMMA EntryGrows ==
  ASSUME NEW lines, NEW written \in Nat, NEW more \in Nat, written <= more, NEW e, EntryKept(lines, written, e)
  PROVE  EntryKept(lines, more, e)
<1>1. PICK read \in e.size..written :
        /\ e.offset = Offset(read)
        /\ KeptParser(lines, Lines(read), e.kept)
        /\ e.live # None => LiveParser(lines, Lines(read), Lines(written), e.live)
  BY DEF EntryKept
<1>2. /\ e.size \in Nat /\ read \in Nat /\ read \in e.size..more
      /\ Lines(read) \in Nat /\ Lines(written) \in Nat /\ Lines(more) \in Nat /\ Lines(written) <= Lines(more)
  BY Offsets DEF EntryKept
<1>3. e.live # None => LiveParser(lines, Lines(read), Lines(more), e.live)
  BY <1>1, <1>2, LiveGrows
<1> QED BY <1>1, <1>2, <1>3 DEF EntryKept

LEMMA CountedGrows ==
  ASSUME NEW lines, NEW written \in Nat, NEW more \in Nat, written <= more, NEW v, v.looked \in Nat,
         Counted(lines, written, v)
  PROVE  Counted(lines, more, v)
<1>1. Lines(written) \in Nat /\ Lines(more) \in Nat /\ Lines(written) <= Lines(more) /\ Lines(v.looked) \in Nat
  BY Offsets
<1>2. \A n \in Lines(v.looked)..Lines(written) : n \in Lines(v.looked)..Lines(more)
  BY <1>1
<1> QED BY <1>2 DEF Counted

LEMMA EntryRestored ==
  ASSUME NEW lines, NEW written, NEW e, EntryKept(lines, written, e)
  PROVE  EntryKept(lines, written, [e EXCEPT !.live = None])
<1> DEFINE r == [e EXCEPT !.live = None]
<1>1. /\ DOMAIN r = DOMAIN e /\ r.size = e.size /\ r.offset = e.offset /\ r.kept = e.kept /\ r.live = None
  BY DEF EntryKept
<1> HIDE DEF r
<1>2. EntryKept(lines, written, r)
  BY <1>1 DEF EntryKept
<1> QED BY <1>2 DEF r

\* A report of a parser that is kept.
LEMMA KeptCounts ==
  ASSUME NEW lines, NEW written, Written(lines, written), NEW looked \in Nat, NEW read \in looked..written,
         NEW p, KeptParser(lines, Lines(read), p),
         NEW v, v.report = Report(p), v.torn = p.torn, v.looked = looked
  PROVE  Counted(lines, written, v)
<1>1. /\ written \in Nat /\ read \in Nat
      /\ Lines(looked) \in Nat /\ Lines(read) \in Nat /\ Lines(written) \in 0..Len(lines)
      /\ Lines(looked) <= Lines(read) /\ Lines(read) <= Lines(written)
  <2>1. written \in Nat /\ Lines(written) \in 0..Len(lines)
    BY WrittenLines
  <2>2. read \in Nat /\ looked <= read /\ read <= written
    BY <2>1
  <2> QED BY <2>1, <2>2, Offsets
<1>2. Lines(read) \in Lines(v.looked)..Lines(written) /\ Lines(read) \in 0..Len(lines)
  BY <1>1 DEF Written, Legible
<1>3. CASE ById(lines)
  <2>1. p.turns = Whole(lines, Lines(read)).turns /\ p.session = None
    BY <1>3 DEF KeptParser
  <2>2. Whole(lines, Lines(read)).session = None
    BY <1>2, <1>3, WholeById
  <2>3. v.report = Report(Whole(lines, Lines(read)))
    BY <2>1, <2>2 DEF Report
  <2> QED BY <1>2, <2>3 DEF Counted
<1>4. CASE ~ById(lines) /\ v.torn
  BY <1>4 DEF Counted
<1>5. CASE ~v.torn
  <2>1. p = Whole(lines, Lines(read))
    BY <1>5, Zenon DEF KeptParser
  <2> QED BY <1>2, <2>1 DEF Counted
<1> QED BY <1>3, <1>4, <1>5

\* The entry after a read to the end of the file.
LEMMA NewEntryKept ==
  ASSUME NEW lines, NEW written, Written(lines, written), NEW looked \in 0..written,
         NEW p, KeptParser(lines, Lines(written), p)
  PROVE  EntryKept(lines, written, [size |-> looked, offset |-> Offset(written), kept |-> p, live |-> p])
<1> DEFINE e == [size |-> looked, offset |-> Offset(written), kept |-> p, live |-> p]
<1>1. written \in Nat /\ Lines(written) \in 0..Len(lines) /\ Len(lines) \in Nat
  BY WrittenLines DEF Written, Legible
<1>2. LiveParser(lines, Lines(written), Lines(written), p)
  BY <1>1, KeptIsLive
<1>3. /\ {"size", "offset", "kept", "live"} \subseteq DOMAIN e
      /\ e.size = looked /\ e.offset = Offset(written) /\ e.kept = p /\ e.live = p
  OBVIOUS
<1> HIDE DEF e
<1>4. written \in e.size..written /\ e.size \in Nat
  BY <1>1, <1>3
<1>5. EntryKept(lines, written, e)
  BY <1>2, <1>3, <1>4 DEF EntryKept
<1> QED BY <1>5 DEF e

\* A read that goes on where an entry ends, with either of its parsers.
LEMMA ResumedRead ==
  ASSUME NEW lines, NEW written, Written(lines, written), NEW e, EntryKept(lines, written, e),
         NEW p, p = e.kept \/ (p = e.live /\ e.live # None)
  PROVE  KeptParser(lines, Lines(written), After(p, lines, Begun(e.offset), Lines(written)))
<1>1. PICK read \in e.size..written :
        /\ e.offset = Offset(read)
        /\ KeptParser(lines, Lines(read), e.kept)
        /\ e.live # None => LiveParser(lines, Lines(read), Lines(written), e.live)
  BY DEF EntryKept
<1>2. /\ read \in Nat /\ written \in Nat /\ Len(lines) \in Nat /\ Legible(lines)
      /\ Lines(read) \in Nat /\ Lines(written) \in Nat /\ Lines(read) <= Lines(written) /\ Lines(written) <= Len(lines)
      /\ Begun(e.offset) = Lines(read)
  <2>1. read \in Nat /\ read <= written
    BY <1>1 DEF EntryKept
  <2>2. written \in Nat /\ Lines(written) \in 0..Len(lines)
    BY WrittenLines
  <2>3. Len(lines) \in Nat /\ Legible(lines)
    BY DEF Written, Legible
  <2>4. Lines(read) \in Nat /\ Lines(read) <= Lines(written) /\ Begun(e.offset) = Lines(read)
    BY <1>1, <2>1, <2>2, Offsets
  <2> QED BY <2>1, <2>2, <2>3, <2>4
<1>3. LiveParser(lines, Lines(read), Lines(written), p)
  BY <1>1, <1>2, KeptIsLive
<1> QED BY <1>2, <1>3, LiveRead

LEMMA FirstRead ==
  ASSUME NEW lines, NEW written, Written(lines, written)
  PROVE  KeptParser(lines, Lines(written), After(NewParser, lines, Begun(0), Lines(written)))
<1>1. Lines(written) \in 0..Len(lines) /\ Legible(lines) /\ Begun(0) = 0
  BY WrittenLines, Offsets DEF Written
<1>2. IsParser(Whole(lines, Lines(written)))
  BY <1>1, AfterShape, NewIsParser DEF Whole
<1>3. ById(lines) => Whole(lines, Lines(written)).session = None
  BY <1>1, WholeById
<1>4. KeptParser(lines, Lines(written), Whole(lines, Lines(written)))
  BY <1>2, <1>3 DEF KeptParser
<1> QED BY <1>1, <1>4 DEF Whole

\* A read that fails after some whole line.
LEMMA FailedRead ==
  ASSUME NEW lines, NEW written, Written(lines, written), NEW e, EntryKept(lines, written, e), e.live # None,
         NEW to \in e.offset..written,
         NEW torn, torn = [After(e.live, lines, Begun(e.offset), Lines(to)) EXCEPT !.torn = TRUE]
  PROVE  EntryKept(lines, written, [e EXCEPT !.live = torn])
<1>1. PICK read \in e.size..written :
        /\ e.offset = Offset(read)
        /\ KeptParser(lines, Lines(read), e.kept)
        /\ LiveParser(lines, Lines(read), Lines(written), e.live)
  BY DEF EntryKept
<1>2. /\ read \in Nat /\ written \in Nat /\ to \in Nat /\ Legible(lines)
      /\ Lines(read) \in Nat /\ Lines(written) \in Nat /\ Lines(written) <= Len(lines)
      /\ Lines(to) \in Lines(read)..Lines(written)
      /\ Begun(e.offset) = Lines(read)
  <2>1. read \in Nat /\ written \in Nat /\ Lines(written) \in 0..Len(lines) /\ Legible(lines) /\ Len(lines) \in Nat
    BY <1>1, WrittenLines DEF EntryKept, Written, Legible
  <2>2. Offset(read) \in 0..read /\ Begun(e.offset) = Lines(read)
    BY <1>1, <2>1, Offsets
  <2>3. to \in Nat /\ Offset(read) <= to /\ to <= written
    BY <1>1, <2>1, <2>2
  <2>4. Lines(read) \in Nat /\ Lines(to) \in Nat /\ Lines(read) <= Lines(to) /\ Lines(to) <= Lines(written)
    BY <2>1, <2>3, Offsets
  <2> QED BY <2>1, <2>2, <2>3, <2>4
<1>3. LiveParser(lines, Lines(read), Lines(written), torn)
  BY <1>1, <1>2, LiveTorn
<1> DEFINE r == [e EXCEPT !.live = torn]
<1>4. /\ DOMAIN r = DOMAIN e /\ r.size = e.size /\ r.offset = e.offset /\ r.kept = e.kept /\ r.live = torn
  BY DEF EntryKept
<1> HIDE DEF r
<1>5. EntryKept(lines, written, r)
  BY <1>1, <1>3, <1>4 DEF EntryKept
<1> QED BY <1>5 DEF r

-----------------------------------------------------------------------------
(* The invariant *)

EntriesKept(entries) ==
  /\ DOMAIN entries = Files
  /\ \A f \in Files : entries[f] # None => EntryKept(log[f].lines, size[f], entries[f])

ValuesCounted(value) ==
  /\ DOMAIN value = Files
  /\ \A f \in Files : value[f] # None =>
       value[f].looked \in Nat /\ Counted(log[f].lines, size[f], value[f])

UsageInv ==
  /\ log \in Logs
  /\ DOMAIN size = Files /\ \A f \in Files : size[f] \in 0..Pieces * Len(log[f].lines)
  /\ EntriesKept(cache)
  /\ writing # None => EntriesKept(writing)
  /\ saved # None => EntriesKept(saved)
  /\ scan # None => /\ {"todo", "sizes", "parsed", "value"} \subseteq DOMAIN scan
                    /\ \A f \in Files : scan.sizes[f] \in 0..size[f]
                    /\ ValuesCounted(scan.value)
  /\ done # None => ValuesCounted(done.value)

LEMMA FilesWritten ==
  ASSUME UsageAssumption, UsageInv
  PROVE  \A f \in Files : Written(log[f].lines, size[f]) /\ size[f] \in Nat
  BY DEF UsageAssumption, UsageInv, Written, Legible, Pieces

LEMMA EmptyKept == EntriesKept(Empty) /\ ValuesCounted(Empty)
  BY DEF EntriesKept, ValuesCounted, Empty

\* A step that writes to no file and reads none.
LEMMA FilesStand ==
  ASSUME UsageInv, UNCHANGED <<log, size>>
  PROVE  /\ log' \in Logs
         /\ DOMAIN size' = Files /\ \A f \in Files : size'[f] \in 0..Pieces * Len(log'[f].lines)
         /\ \A entries : EntriesKept(entries) <=> EntriesKept(entries)'
         /\ \A value : ValuesCounted(value) <=> ValuesCounted(value)'
  BY DEF UsageInv, EntriesKept, ValuesCounted

LEMMA InitUsage == UsageAssumption /\ Init => UsageInv
<1> SUFFICES ASSUME UsageAssumption, Init PROVE UsageInv
  OBVIOUS
<1>1. ASSUME NEW f \in Files
      PROVE  Min(log[f].cuts) \in 0..Pieces * Len(log[f].lines)
  <2>1. log[f].cuts # {} /\ log[f].cuts \subseteq 0..Pieces * Len(log[f].lines)
    BY DEF UsageAssumption, Init
  <2>2. log[f].cuts \in SUBSET Nat
    BY <2>1
  <2>3. \E m \in log[f].cuts : \A n \in log[f].cuts : m <= n
    BY <2>1, <2>2, Least
  <2>4. Min(log[f].cuts) \in log[f].cuts
    BY <2>3 DEF Min
  <2> QED BY <2>1, <2>4
<1>2. DOMAIN size = Files /\ \A f \in Files : size[f] \in 0..Pieces * Len(log[f].lines)
  BY <1>1 DEF Init
<1> QED BY <1>2, EmptyKept DEF Init, UsageInv

\* A step that leaves the files, the cache and what is on the way to disk alone.
LEMMA AnswersKeep ==
  ASSUME UsageInv, UNCHANGED <<log, size, cache, writing, saved>>,
         scan' # None => /\ {"todo", "sizes", "parsed", "value"} \subseteq DOMAIN scan'
                         /\ \A f \in Files : scan'.sizes[f] \in 0..size[f]
                         /\ ValuesCounted(scan'.value),
         done' # None => ValuesCounted(done'.value)
  PROVE  UsageInv'
<1>1. /\ \A entries : EntriesKept(entries) <=> EntriesKept(entries)'
      /\ \A value : ValuesCounted(value) <=> ValuesCounted(value)'
  BY FilesStand
<1>2. EntriesKept(cache)' /\ (writing # None => EntriesKept(writing))' /\ (saved # None => EntriesKept(saved))'
  BY <1>1 DEF UsageInv
<1>3. /\ (scan # None => ValuesCounted(scan.value))'
      /\ (done # None => ValuesCounted(done.value))'
  BY <1>1
<1> QED BY <1>2, <1>3 DEF UsageInv

LEMMA RequestKeeps ==
  ASSUME UsageInv, \/ \E f \in Files : Delete(f)
                   \/ \E w \in Windows : Ask(w) \/ AskFresh(w)
                   \/ Rescan \/ Deliver \/ UNCHANGED vars
  PROVE  UsageInv'
<1>1. UNCHANGED <<log, size, cache, writing, saved, scan>> /\ (done' = done \/ done' = None)
  BY DEF Delete, Ask, AskFresh, Rescan, Deliver, vars, files, memory, requests, disk, bounds
<1> QED BY <1>1, AnswersKeep DEF UsageInv

LEMMA WriteKeeps ==
  ASSUME UsageAssumption, UsageInv, NEW f \in Files, Write(f)
  PROVE  UsageInv'
<1>1. PICK n \in log[f].cuts : n > size[f] /\ size' = [size EXCEPT ![f] = n]
  BY DEF Write
<1>2. UNCHANGED <<log, cache, writing, saved, scan, done>>
  BY DEF Write, memory, requests, disk
<1>3. n \in 0..Pieces * Len(log[f].lines) /\ n \in Nat
  BY <1>1 DEF UsageAssumption, UsageInv, Pieces
<1>4. DOMAIN size' = Files /\ \A g \in Files : size'[g] = IF g = f THEN n ELSE size[g]
  BY <1>1 DEF UsageInv
<1>5. \A g \in Files : size'[g] \in Nat /\ size[g] \in Nat /\ size[g] <= size'[g]
  BY <1>1, <1>3, <1>4, FilesWritten
<1>6. \A g \in Files : size'[g] \in 0..Pieces * Len(log[g].lines)
  BY <1>3, <1>4 DEF UsageInv
<1>7. \A entries : EntriesKept(entries) => EntriesKept(entries)'
  BY <1>2, <1>5, EntryGrows DEF EntriesKept
<1>8. \A value : ValuesCounted(value) => ValuesCounted(value)'
  BY <1>2, <1>5, CountedGrows DEF ValuesCounted
<1>9. EntriesKept(cache)' /\ (writing # None => EntriesKept(writing))' /\ (saved # None => EntriesKept(saved))'
  BY <1>2, <1>7 DEF UsageInv
<1>10. /\ (scan # None => ValuesCounted(scan.value))'
       /\ (done # None => ValuesCounted(done.value))'
  BY <1>2, <1>8 DEF UsageInv
<1>11. scan # None => \A g \in Files : scan.sizes[g] \in 0..size'[g]
  BY <1>5 DEF UsageInv
<1> QED BY <1>2, <1>4, <1>6, <1>9, <1>10, <1>11 DEF UsageInv

LEMMA StartScanKeeps ==
  ASSUME UsageAssumption, UsageInv, StartScan
  PROVE  UsageInv'
<1>1. UNCHANGED <<log, size, writing, saved, done>>
  BY DEF StartScan, files, requests, disk
<1>2. /\ \A entries : EntriesKept(entries) <=> EntriesKept(entries)'
      /\ \A value : ValuesCounted(value) <=> ValuesCounted(value)'
  BY <1>1, FilesStand
<1>3. EntriesKept(cache')
  <2>1. cache' = Empty \/ cache' = cache \/ (saved # None /\ cache' = saved)
    BY Zenon DEF StartScan, CacheAtStart
  <2> QED BY <2>1, EmptyKept DEF UsageInv
<1>4. scan' = NewScan(generation')
  BY DEF StartScan
<1>5. /\ {"todo", "sizes", "parsed", "value"} \subseteq DOMAIN scan'
      /\ scan'.sizes = size /\ scan'.value = Empty
  BY <1>4 DEF NewScan
<1>6. \A f \in Files : scan'.sizes[f] \in 0..size'[f]
  BY <1>1, <1>5, FilesWritten
<1>7. EntriesKept(cache)' /\ (writing # None => EntriesKept(writing))' /\ (saved # None => EntriesKept(saved))'
  BY <1>1, <1>2, <1>3 DEF UsageInv
<1>8. ValuesCounted(scan'.value)
  BY <1>5, EmptyKept
<1>9. ValuesCounted(scan.value)' /\ (done # None => ValuesCounted(done.value))'
  BY <1>1, <1>2, <1>8 DEF UsageInv
<1> QED BY <1>1, <1>5, <1>6, <1>7, <1>9, FilesStand DEF UsageInv

\* A file of a scan: its entry and its value.
LEMMA ValueKept ==
  ASSUME NEW value, ValuesCounted(value), NEW f \in Files, NEW v,
         v.looked \in Nat, Counted(log[f].lines, size[f], v)
  PROVE  ValuesCounted([value EXCEPT ![f] = v])
  BY DEF ValuesCounted

LEMMA EntryKeeps ==
  ASSUME UsageAssumption, UsageInv, NEW f \in Files, NEW e,
         UNCHANGED <<log, size, writing, saved, done>>,
         EntryKept(log[f].lines, size[f], e),
         cache' = [cache EXCEPT ![f] = e],
         scan' # None => /\ scan # None /\ DOMAIN scan' = DOMAIN scan /\ scan'.sizes = scan.sizes
                         /\ ValuesCounted(scan'.value)
  PROVE  UsageInv'
<1>1. /\ \A entries : EntriesKept(entries) <=> EntriesKept(entries)'
      /\ \A value : ValuesCounted(value) <=> ValuesCounted(value)'
  BY FilesStand
<1>2. EntriesKept(cache')
  BY DEF UsageInv, EntriesKept
<1>3. EntriesKept(cache)' /\ (writing # None => EntriesKept(writing))' /\ (saved # None => EntriesKept(saved))'
  BY <1>1, <1>2 DEF UsageInv
<1>4. (scan # None => ValuesCounted(scan.value))' /\ (done # None => ValuesCounted(done.value))'
  BY <1>1 DEF UsageInv
<1>5. scan' # None => \A g \in Files : scan'.sizes[g] \in 0..size'[g]
  BY DEF UsageInv
<1>6. scan' # None => {"todo", "sizes", "parsed", "value"} \subseteq DOMAIN scan'
  BY DEF UsageInv
<1> QED BY <1>3, <1>4, <1>5, <1>6, FilesStand DEF UsageInv

LEMMA SkipFileKeeps ==
  ASSUME UsageAssumption, UsageInv, NEW f \in Files, SkipFile(f)
  PROVE  UsageInv'
<1> DEFINE v == Reported(f, cache[f].kept)
<1>1. /\ scan # None /\ UNCHANGED <<log, size, cache, writing, saved, done>>
      /\ cache[f] # None /\ cache[f].size = scan.sizes[f]
      /\ scan' = [scan EXCEPT !.todo = @ \ {f}, !.value[f] = v]
  BY DEF SkipFile, Unchanged, files, memory, requests, disk
<1>2. EntryKept(log[f].lines, size[f], cache[f]) /\ Written(log[f].lines, size[f])
  BY <1>1, FilesWritten DEF UsageInv, EntriesKept
<1>3. PICK read \in cache[f].size..size[f] : KeptParser(log[f].lines, Lines(read), cache[f].kept)
  BY <1>2 DEF EntryKept
<1>4. /\ v.report = Report(cache[f].kept) /\ v.torn = cache[f].kept.torn
      /\ v.looked = cache[f].size /\ cache[f].size \in Nat
  BY <1>1, <1>2 DEF Reported, EntryKept
<1> HIDE DEF v
<1>5. v.looked \in Nat /\ Counted(log[f].lines, size[f], v)
  BY <1>2, <1>3, <1>4, KeptCounts
<1>6. /\ DOMAIN scan' = DOMAIN scan /\ scan'.sizes = scan.sizes
      /\ scan'.value = [scan.value EXCEPT ![f] = v]
  BY <1>1 DEF UsageInv
<1>7. ValuesCounted([scan.value EXCEPT ![f] = v])
  BY <1>1, <1>5, ValueKept DEF UsageInv
<1> QED BY <1>1, <1>6, <1>7, AnswersKeep DEF UsageInv

LEMMA ReadFileKeeps ==
  ASSUME UsageAssumption, UsageInv, NEW f \in Files, ReadFile(f)
  PROVE  UsageInv'
<1> DEFINE p == Feed(Parser(f), f, From(f), size[f])
           e == [size |-> scan.sizes[f], offset |-> Offset(size[f]), kept |-> p, live |-> p]
           v == Reported(f, p)
<1>1. /\ scan # None /\ UNCHANGED <<log, size, writing, saved, done>>
      /\ cache' = [cache EXCEPT ![f] = e]
      /\ scan' = [scan EXCEPT !.todo = @ \ {f}, !.parsed = TRUE, !.value[f] = v]
  BY DEF ReadFile, files, requests, disk
<1>2. Written(log[f].lines, size[f]) /\ size[f] \in Nat /\ scan.sizes[f] \in 0..size[f]
  BY <1>1, FilesWritten DEF UsageInv
<1>3. KeptParser(log[f].lines, Lines(size[f]), p)
  <2>1. CASE Resumes(f)
    <3>1. EntryKept(log[f].lines, size[f], cache[f])
      BY <2>1 DEF Resumes, UsageInv, EntriesKept
    <3>2. /\ From(f) = cache[f].offset
          /\ Parser(f) = cache[f].kept \/ (Parser(f) = cache[f].live /\ cache[f].live # None)
      BY <2>1, Zenon DEF From, Parser
    <3> QED BY <1>2, <3>1, <3>2, ResumedRead DEF Feed
  <2>2. CASE ~Resumes(f)
    BY <1>2, <2>2, FirstRead DEF Feed, From, Parser
  <2> QED BY <2>1, <2>2
<1>4. v.report = Report(p) /\ v.torn = p.torn /\ v.looked = scan.sizes[f]
  BY DEF Reported
<1> HIDE DEF p
<1>5. EntryKept(log[f].lines, size[f], e)
  BY <1>2, <1>3, NewEntryKept
<1> HIDE DEF e, v
<1>6. v.looked \in Nat /\ Counted(log[f].lines, size[f], v)
  <2>1. size[f] \in scan.sizes[f]..size[f] /\ scan.sizes[f] \in Nat
    BY <1>2
  <2> QED BY <1>2, <1>3, <1>4, <2>1, KeptCounts
<1>7. /\ DOMAIN scan' = DOMAIN scan /\ scan'.sizes = scan.sizes
      /\ scan'.value = [scan.value EXCEPT ![f] = v]
  BY <1>1 DEF UsageInv
<1>8. ValuesCounted([scan.value EXCEPT ![f] = v])
  BY <1>1, <1>6, ValueKept DEF UsageInv
<1> QED BY <1>1, <1>5, <1>7, <1>8, EntryKeeps

LEMMA ReadFailsKeeps ==
  ASSUME UsageAssumption, UsageInv, NEW f \in Files, ReadFails(f)
  PROVE  UsageInv'
<1>1. /\ scan # None /\ UNCHANGED <<log, size, writing, saved, done>>
      /\ scan' = [scan EXCEPT !.todo = @ \ {f}]
  BY DEF ReadFails, files, requests, disk
<1>2. /\ DOMAIN scan' = DOMAIN scan /\ scan'.sizes = scan.sizes /\ scan'.value = scan.value
  BY <1>1 DEF UsageInv
<1>3. CASE cache' = cache
  BY <1>1, <1>2, <1>3, AnswersKeep DEF UsageInv
<1>4. CASE Resumes(f) /\ cache[f].live # None /\
           \E to \in {From(f)} \cup {n \in From(f)..size[f] : n % Pieces = 0} :
             cache' = [cache EXCEPT ![f].live = [Feed(@, f, From(f), to) EXCEPT !.torn = TRUE]]
  <2>1. PICK to \in {From(f)} \cup {n \in From(f)..size[f] : n % Pieces = 0} :
             cache' = [cache EXCEPT ![f].live = [Feed(@, f, From(f), to) EXCEPT !.torn = TRUE]]
    BY <1>4
  <2>2. EntryKept(log[f].lines, size[f], cache[f]) /\ From(f) = cache[f].offset
        /\ Written(log[f].lines, size[f]) /\ size[f] \in Nat
    BY <1>4, FilesWritten DEF Resumes, From, UsageInv, EntriesKept
  <2>3. to \in cache[f].offset..size[f]
    <3>1. PICK read \in cache[f].size..size[f] : cache[f].offset = Offset(read)
      BY <2>2 DEF EntryKept
    <3>2. read \in Nat /\ cache[f].size \in Nat
      BY <2>2, <3>1 DEF EntryKept
    <3>3. cache[f].offset \in Nat /\ cache[f].offset <= size[f]
      BY <2>2, <3>1, <3>2, Offsets
    <3> QED BY <2>1, <2>2, <3>3
  <2> DEFINE torn == [After(cache[f].live, log[f].lines, Begun(cache[f].offset), Lines(to)) EXCEPT !.torn = TRUE]
             e    == [cache[f] EXCEPT !.live = torn]
  <2>4. cache' = [cache EXCEPT ![f] = e]
    BY <2>1, <2>2 DEF Feed, UsageInv, EntriesKept
  <2>5. EntryKept(log[f].lines, size[f], e)
    <3>1. torn = [After(cache[f].live, log[f].lines, Begun(cache[f].offset), Lines(to)) EXCEPT !.torn = TRUE]
      OBVIOUS
    <3> HIDE DEF torn
    <3> QED BY <1>4, <2>2, <2>3, <3>1, FailedRead
  <2> HIDE DEF e, torn
  <2>6. ValuesCounted(scan'.value)
    BY <1>1, <1>2 DEF UsageInv
  <2> QED BY <1>1, <1>2, <2>4, <2>5, <2>6, EntryKeeps
<1> QED BY <1>3, <1>4, Zenon DEF ReadFails

LEMMA EndScanKeeps ==
  ASSUME UsageInv, EndScan
  PROVE  UsageInv'
<1>1. /\ scan # None /\ scan' = None /\ UNCHANGED <<log, size, writing, saved>>
      /\ done'.value = scan.value
      /\ cache' = [f \in Files |-> IF f \in scan.listed THEN cache[f] ELSE None]
  BY DEF EndScan, files
<1>2. /\ \A entries : EntriesKept(entries) <=> EntriesKept(entries)'
      /\ \A value : ValuesCounted(value) <=> ValuesCounted(value)'
  BY <1>1, FilesStand
<1>3. EntriesKept(cache')
  <2>1. DOMAIN cache' = Files /\ \A f \in Files : cache'[f] = cache[f] \/ cache'[f] = None
    BY <1>1
  <2> QED BY <2>1 DEF UsageInv, EntriesKept
<1>4. EntriesKept(cache)' /\ (writing # None => EntriesKept(writing))' /\ (saved # None => EntriesKept(saved))'
  BY <1>1, <1>2, <1>3 DEF UsageInv
<1>5. ValuesCounted(done.value)'
  BY <1>1, <1>2 DEF UsageInv
<1> QED BY <1>1, <1>4, <1>5, FilesStand DEF UsageInv

LEMMA DiskKeeps ==
  ASSUME UsageInv, StartWrite \/ EndWrite \/ WriteFails \/ Restart
  PROVE  UsageInv'
<1>1. UNCHANGED <<log, size>> /\ (scan' = None \/ scan' = scan) /\ (done' = None \/ done' = done)
  BY DEF StartWrite, EndWrite, WriteFails, Restart, files, requests
<1>2. /\ \A entries : EntriesKept(entries) <=> EntriesKept(entries)'
      /\ \A value : ValuesCounted(value) <=> ValuesCounted(value)'
  BY <1>1, FilesStand
<1>3. EntriesKept(cache')
  <2>1. cache' = cache \/ cache' = Empty
    BY DEF StartWrite, EndWrite, WriteFails, Restart, memory
  <2> QED BY <2>1, EmptyKept DEF UsageInv
<1>4. EntriesKept([f \in Files |-> Restored(cache[f])])
  BY EntryRestored DEF UsageInv, EntriesKept, Restored
<1>5. \/ writing' = None /\ (saved' = saved \/ (saved' = writing /\ writing # None))
      \/ writing' = [f \in Files |-> Restored(cache[f])] /\ saved' = saved
  BY DEF StartWrite, EndWrite, WriteFails, Restart
<1>6. (writing' # None => EntriesKept(writing')) /\ (saved' # None => EntriesKept(saved'))
  BY <1>4, <1>5 DEF UsageInv
<1>7. EntriesKept(cache)' /\ (writing # None => EntriesKept(writing))' /\ (saved # None => EntriesKept(saved))'
  BY <1>2, <1>3, <1>6
<1>8. (scan # None => ValuesCounted(scan.value))' /\ (done # None => ValuesCounted(done.value))'
  BY <1>1, <1>2 DEF UsageInv
<1> QED BY <1>1, <1>7, <1>8, FilesStand DEF UsageInv

LEMMA StepUsage == UsageAssumption /\ UsageInv /\ [Next]_vars => UsageInv'
<1> SUFFICES ASSUME UsageAssumption, UsageInv, [Next]_vars PROVE UsageInv'
  OBVIOUS
<1>1. ASSUME NEW f \in Files, Write(f) PROVE UsageInv'
  BY <1>1, WriteKeeps
<1>2. ASSUME NEW f \in Files, SkipFile(f) PROVE UsageInv'
  BY <1>2, SkipFileKeeps
<1>3. ASSUME NEW f \in Files, ReadFile(f) PROVE UsageInv'
  BY <1>3, ReadFileKeeps
<1>4. ASSUME NEW f \in Files, ReadFails(f) PROVE UsageInv'
  BY <1>4, ReadFailsKeeps
<1>5. CASE StartScan
  BY <1>5, StartScanKeeps
<1>6. CASE EndScan
  BY <1>6, EndScanKeeps
<1>7. CASE StartWrite \/ EndWrite \/ WriteFails \/ Restart
  BY <1>7, DiskKeeps
<1>8. CASE \/ \E f \in Files : Delete(f)
           \/ \E w \in Windows : Ask(w) \/ AskFresh(w)
           \/ Rescan \/ Deliver \/ UNCHANGED vars
  BY <1>8, RequestKeeps
<1> QED BY <1>1, <1>2, <1>3, <1>4, <1>5, <1>6, <1>7, <1>8, Zenon DEF Next

LEMMA UsageInvCounts == UsageAssumption /\ UsageInv => CountsOnce
<1> SUFFICES ASSUME UsageAssumption, UsageInv, done # None, NEW f \in Files, done.value[f] # None
             PROVE  \/ done.value[f].torn /\ ~Refeeds(f)
                    \/ \E n \in Lines(done.value[f].looked)..Lines(size[f]) :
                         done.value[f].report = Report(After(NewParser, log[f].lines, 0, n))
  BY DEF CountsOnce
<1>1. Counted(log[f].lines, size[f], done.value[f])
  BY DEF UsageInv, ValuesCounted
<1>2. ~ById(log[f].lines) => ~Refeeds(f)
  BY FilesWritten DEF ById, Refeeds, Written, Legible
<1> QED BY <1>1, <1>2 DEF Counted, Whole

\* Every answer counts of a transcript what one read from its start would make
\* of the lines that were there at some moment since the listing, and so every
\* message once, but for a file with other lines that a failed read has fed to
\* its parser.
THEOREM MessagesCountOnce == UsageAssumption => (Spec => []CountsOnce)
<1> SUFFICES ASSUME UsageAssumption PROVE Spec => []CountsOnce
  OBVIOUS
<1>1. Init => UsageInv
  BY InitUsage
<1>2. UsageInv /\ [Next]_vars => UsageInv'
  BY StepUsage
<1>3. UsageInv => CountsOnce
  BY UsageInvCounts
<1> QED BY <1>1, <1>2, <1>3, PTL DEF Spec
=============================================================================
