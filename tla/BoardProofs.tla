----------------------------- MODULE BoardProofs -----------------------------
(***************************************************************************)
(* Nothing on the board is lost or told twice, in files of any length      *)
(***************************************************************************)
EXTENDS Board, TLAPS, SequenceTheorems, WellFoundedInduction, FiniteSetTheorems

-----------------------------------------------------------------------------
(* Sections, and the lines that are live in them *)

LEMMA Least ==
  ASSUME NEW S \in SUBSET Nat, S # {}
  PROVE  \E m \in S : \A x \in S : m <= x
<1>1. PICK m \in S : \A y \in S : <<y, m>> \notin OpToRel(<, Nat)
  BY WFMin, NatLessThanWellFounded, Zenon
<1>2. \A x \in S : ~(x < m)
  BY <1>1 DEF OpToRel
<1> QED BY <1>2

LEMMA Greatest ==
  ASSUME NEW n \in Nat, NEW S \in SUBSET (0..n), S # {}
  PROVE  \E m \in S : \A x \in S : x <= m
<1> DEFINE T == {n - x : x \in S}
<1>0. \A x \in S : n - x \in Nat
  OBVIOUS
<1>1. T \in SUBSET Nat /\ T # {}
  BY <1>0, Zenon
<1>2. PICK k \in T : \A y \in T : k <= y
  BY <1>1, Least
<1>3. PICK m \in S : k = n - m
  BY <1>2
<1>4. \A x \in S : n - m <= n - x
  BY <1>2, <1>3
<1>5. \A x \in S : x \in Nat
  OBVIOUS
<1> QED BY <1>3, <1>4, <1>5

\* A line, however deep.
RawLine == [item : Items, depth : Nat, status : Statuses, stamp : BOOLEAN]

Rooted(L) ==
  /\ L # <<>> => L[1].depth = 0
  /\ \A i \in 1..Len(L) : IsNote(L[i]) => L[i].depth > 0

\* A section as the hub keeps it.
Section(L) == L \in Seq(RawLine) /\ Rooted(L)

\* The line that is not indented and that another hangs under, or that it is.
Root(L, r, k) == r \in 1..k /\ L[r].depth = 0 /\ \A m \in r + 1..k : L[m].depth > 0

Ended(s, line) == s = "done" /\ line.item \in Recurring /\ line.stamp

Alive(s, L, k) == \E r \in 1..k : Root(L, r, k) /\ ~Ended(s, L[r])

LEMMA LineTyped ==
  ASSUME NEW L \in Seq(RawLine)
  PROVE  /\ Len(L) \in Nat /\ DOMAIN L = 1..Len(L)
         /\ \A k \in 1..Len(L) : L[k] \in RawLine /\ L[k].item \in Items /\ L[k].depth \in Nat
                                 /\ L[k].status \in Statuses /\ L[k].stamp \in BOOLEAN
<1>1. Len(L) \in Nat /\ DOMAIN L = 1..Len(L) /\ \A k \in 1..Len(L) : L[k] \in RawLine
  BY LenProperties, ElementOfSeq
<1> QED BY <1>1 DEF RawLine

LEMMA RootExists ==
  ASSUME NEW L, Section(L), NEW k \in 1..Len(L)
  PROVE  \E r \in 1..k : Root(L, r, k)
<1>1. Len(L) \in Nat /\ \A m \in 1..Len(L) : L[m].depth \in Nat
  BY LineTyped DEF Section
<1> DEFINE S == {m \in 1..k : L[m].depth = 0}
<1>2. 1 \in S
  <2>1. L # <<>>
    BY <1>1 DEF Section
  <2> QED BY <1>1, <2>1 DEF Section, Rooted
<1>3. PICK r \in S : \A m \in S : m <= r
  <2>1. S \in SUBSET (0..k) /\ k \in Nat
    BY <1>1
  <2> QED BY <1>2, <2>1, Greatest
<1>4. \A m \in r + 1..k : L[m].depth > 0
  BY <1>1, <1>3
<1> QED BY <1>3, <1>4 DEF Root

LEMMA RootUnique ==
  ASSUME NEW L, NEW k \in Nat, NEW r \in 1..k, NEW q \in 1..k, Root(L, r, k), Root(L, q, k)
  PROVE  r = q
<1>1. ~(r < q)
  BY DEF Root
<1>2. ~(q < r)
  BY DEF Root
<1> QED BY <1>1, <1>2

LEMMA OpenAlive ==
  ASSUME NEW L, Section(L), NEW k \in 1..Len(L)
  PROVE  Alive("open", L, k)
  BY RootExists DEF Alive, Ended

\* Lines up to k tell whether line k is live.
LEMMA PrefixAlive ==
  ASSUME NEW s, NEW L, NEW M, NEW k \in Nat, \A m \in 1..k : L[m] = M[m]
  PROVE  Alive(s, L, k) <=> Alive(s, M, k)
<1>1. \A r \in 1..k : Root(L, r, k) <=> Root(M, r, k)
  BY DEF Root
<1> QED BY <1>1 DEF Alive

-----------------------------------------------------------------------------
(* Blocks *)

IsEnd(L, i, e) ==
  /\ e \in i..Len(L)
  /\ \A k \in (i + 1)..e : L[k].depth > L[i].depth
  /\ e = Len(L) \/ L[e + 1].depth <= L[i].depth

LEMMA BlockEnds ==
  ASSUME NEW L \in Seq(RawLine), NEW i \in 1..Len(L)
  PROVE  IsEnd(L, i, BlockEnd(L, i))
<1>1. Len(L) \in Nat /\ \A m \in 1..Len(L) : L[m].depth \in Nat
  BY LineTyped
<1> DEFINE S == {e \in i..Len(L) : e = Len(L) \/ L[e + 1].depth <= L[i].depth}
<1>2. Len(L) \in S /\ S \in SUBSET Nat
  BY <1>1
<1>3. PICK e \in S : \A m \in S : e <= m
  BY <1>2, Least
<1>4. \A k \in (i + 1)..e : L[k].depth > L[i].depth
  <2> SUFFICES ASSUME NEW k \in (i + 1)..e, ~(L[k].depth > L[i].depth) PROVE FALSE
    OBVIOUS
  <2>0. e \in i..Len(L) /\ k \in Nat /\ e \in Nat /\ i \in Nat
    BY <1>1
  <2>1. k - 1 \in i..Len(L) /\ (k - 1) + 1 = k /\ k \in 1..Len(L) /\ k - 1 < e
    BY <1>1, <2>0
  <2>2. L[k].depth <= L[i].depth
    BY <1>1, <2>1
  <2>3. k - 1 \in S
    BY <2>1, <2>2
  <2>4. e <= k - 1
    BY <1>3, <2>3
  <2> QED BY <2>0, <2>1, <2>4
<1>5. IsEnd(L, i, e)
  BY <1>3, <1>4 DEF IsEnd
<1> QED BY <1>5 DEF IsEnd, BlockEnd

LEMMA EndUnique ==
  ASSUME NEW L \in Seq(RawLine), NEW i \in 1..Len(L), NEW e, IsEnd(L, i, e)
  PROVE  BlockEnd(L, i) = e
<1> DEFINE f == BlockEnd(L, i)
<1>1. IsEnd(L, i, f)
  BY BlockEnds
<1>2. Len(L) \in Nat /\ \A m \in 1..Len(L) : L[m].depth \in Nat
  BY LineTyped
<1> HIDE DEF f
<1>3. e \in Nat /\ f \in Nat
  BY <1>1, <1>2 DEF IsEnd
<1>4. ~(e < f)
  <2> SUFFICES ASSUME e < f PROVE FALSE
    OBVIOUS
  <2>1. e + 1 \in (i + 1)..f /\ e # Len(L) /\ e + 1 \in 1..Len(L)
    BY <1>1, <1>2, <1>3 DEF IsEnd
  <2> QED BY <1>1, <1>2, <2>1 DEF IsEnd
<1>5. ~(f < e)
  <2> SUFFICES ASSUME f < e PROVE FALSE
    OBVIOUS
  <2>1. f + 1 \in (i + 1)..e /\ f # Len(L) /\ f + 1 \in 1..Len(L)
    BY <1>1, <1>2, <1>3 DEF IsEnd
  <2> QED BY <1>1, <1>2, <2>1 DEF IsEnd
<1> QED BY <1>3, <1>4, <1>5 DEF f

\* In a section the tasks above a line are those of its root.
LEMMA AboveRoot ==
  ASSUME NEW L, Section(L), NEW i \in 1..Len(L), NEW r \in 1..i, Root(L, r, i)
  PROVE  /\ r # i => r \in Above(L, i)
         /\ \A j \in Above(L, i) : j \in 1..(i - 1) /\ j >= r
         /\ r = i => Above(L, i) = {}
<1>1. Len(L) \in Nat /\ \A m \in 1..Len(L) : L[m].depth \in Nat
  BY LineTyped DEF Section
<1>2. ~IsNote(L[r])
  BY <1>1 DEF Root, Section, Rooted
<1>3. ASSUME r # i PROVE r \in Above(L, i)
  <2>1. IsEnd(L, r, BlockEnd(L, r))
    BY <1>1, BlockEnds DEF Section
  <2>2. i <= BlockEnd(L, r)
    <3> SUFFICES ASSUME ~(i <= BlockEnd(L, r)) PROVE FALSE
      OBVIOUS
    <3>1. BlockEnd(L, r) + 1 \in r + 1..i /\ BlockEnd(L, r) # Len(L)
      BY <1>1, <2>1 DEF IsEnd
    <3> QED BY <1>1, <2>1, <3>1 DEF IsEnd, Root
  <2> QED BY <1>1, <1>2, <1>3, <2>2 DEF Above
<1>4. ASSUME NEW j \in Above(L, i) PROVE j \in 1..(i - 1) /\ j >= r
  <2>1. j \in 1..(i - 1) /\ i <= BlockEnd(L, j)
    BY DEF Above
  <2>2. IsEnd(L, j, BlockEnd(L, j))
    BY <1>1, <2>1, BlockEnds DEF Section
  <2>3. ~(j < r)
    <3> SUFFICES ASSUME j < r PROVE FALSE
      OBVIOUS
    <3>1. r \in (j + 1)..BlockEnd(L, j)
      BY <1>1, <2>1, <2>2 DEF IsEnd
    <3> QED BY <1>1, <2>1, <2>2, <3>1 DEF IsEnd, Root
  <2> QED BY <2>1, <2>3
<1>5. ASSUME r = i, NEW j \in Above(L, i) PROVE FALSE
  BY <1>4, <1>5
<1> QED BY <1>3, <1>4, <1>5

LEMMA MinIs ==
  ASSUME NEW S \in SUBSET Nat, NEW m \in S, \A x \in S : m <= x
  PROVE  Min(S) = m
<1> DEFINE P(x) == x \in S /\ \A y \in S : x <= y
<1>1. P(m)
  OBVIOUS
<1>2. \A x : P(x) => x = m
  OBVIOUS
<1> QED BY <1>1, <1>2 DEF Min

LEMMA MaxIs ==
  ASSUME NEW n \in Nat, NEW S \in SUBSET (0..n), S # {}
  PROVE  Max(S) \in S
<1>1. PICK m \in S : \A x \in S : x <= m
  BY Greatest
<1>2. \A x \in S : m >= x
  BY <1>1
<1> QED BY <1>2 DEF Max

LEMMA TopIsRoot ==
  ASSUME NEW L, Section(L), NEW i \in 1..Len(L)
  PROVE  /\ TopOf(L, i) \in 1..i /\ Root(L, TopOf(L, i), i)
         /\ IsTop(L, i) <=> L[i].depth = 0
         /\ IsTop(L, TopOf(L, i))
         /\ L[TopOf(L, i)].depth = 0 /\ ~IsNote(L[TopOf(L, i)])
<1>0. Len(L) \in Nat /\ \A m \in 1..Len(L) : L[m].depth \in Nat
  BY LineTyped DEF Section
<1>1. ASSUME NEW k \in 1..Len(L), NEW r \in 1..k, Root(L, r, k) PROVE TopOf(L, k) = r
  <2>1. r \in Above(L, k) \cup {k} /\ \A x \in Above(L, k) \cup {k} : x \in Nat /\ r <= x
    BY <1>0, <1>1, AboveRoot
  <2>2. Above(L, k) \cup {k} \in SUBSET Nat
    BY <2>1
  <2> QED BY <2>1, <2>2, MinIs DEF TopOf
<1>2. ASSUME NEW k \in 1..Len(L) PROVE IsTop(L, k) <=> L[k].depth = 0
  <2>1. PICK r \in 1..k : Root(L, r, k)
    BY <1>2, RootExists
  <2>2. CASE r = k
    BY <1>0, <2>1, <2>2, AboveRoot DEF IsTop, Root, Section, Rooted
  <2>3. CASE r # k
    <3>1. L[k].depth > 0
      BY <1>0, <2>1, <2>3 DEF Root
    <3> QED BY <2>1, <2>3, <3>1, AboveRoot DEF IsTop
  <2> QED BY <2>2, <2>3
<1>3. PICK r \in 1..i : Root(L, r, i)
  BY RootExists
<1>4. TopOf(L, i) = r /\ L[r].depth = 0 /\ r \in 1..Len(L)
  BY <1>0, <1>1, <1>3 DEF Root
<1> QED BY <1>2, <1>3, <1>4 DEF IsTop

LEMMA EditableAlive ==
  ASSUME NEW F, NEW s, Section(F[s]), NEW i \in 1..Len(F[s])
  PROVE  Editable(F, s, i) <=> Alive(s, F[s], i)
<1> DEFINE L == F[s]  r == TopOf(L, i)
<1>1. r \in 1..i /\ Root(L, r, i) /\ IsTop(L, r)
  BY TopIsRoot
<1>2. Len(L) \in Nat
  BY LineTyped DEF Section
<1>3. Editable(F, s, i) <=> ~Ended(s, L[r])
  BY <1>1, Zenon DEF Editable, IsOccurrence, Ended
<1>4. \A q \in 1..i : Root(L, q, i) => q = r
  BY <1>1, <1>2, RootUnique
<1> HIDE DEF L, r
<1>5. Alive(s, L, i) <=> ~Ended(s, L[r])
  BY <1>1, <1>4 DEF Alive
<1> QED BY <1>3, <1>5 DEF L

-----------------------------------------------------------------------------
(* A block that is put into a section *)

Said(L)    == {L[k].item : k \in 1..Len(L)}
Held(s, L) == {L[k].item : k \in {m \in 1..Len(L) : Alive(s, L, m)}}

Once(s, L) ==
  \A k, m \in 1..Len(L) :
    Alive(s, L, k) /\ Alive(s, L, m) /\ L[k].item = L[m].item => k = m

Distinct(B) == \A k, m \in 1..Len(B) : B[k].item = B[m].item => k = m

\* A block that is a family of its own, put between families, and one that
\* comes below a line.
AsFamily(M, a, B) ==
  /\ B[1].depth = 0 /\ ~IsNote(B[1]) /\ \A k \in 2..Len(B) : B[k].depth > 0
  /\ a = Len(M) + 1 \/ M[a].depth = 0

AsPart(M, a, B) == a > 1 /\ \A k \in 1..Len(B) : B[k].depth > 0

Lives(s, M, a, B) == IF B[1].depth = 0 THEN ~Ended(s, B[1]) ELSE Alive(s, M, a - 1)

LEMMA AliveByRoot ==
  ASSUME NEW s, NEW L, NEW k \in Nat, NEW r \in 1..k, Root(L, r, k)
  PROVE  Alive(s, L, k) <=> ~Ended(s, L[r])
  BY RootUnique DEF Alive

LEMMA Inserted ==
  ASSUME NEW M \in Seq(RawLine), NEW B \in Seq(RawLine), NEW a \in 1..Len(M) + 1
  PROVE  /\ InsertedAt(M, a, B) \in Seq(RawLine)
         /\ Len(InsertedAt(M, a, B)) = Len(M) + Len(B)
         /\ \A k \in 1..a - 1 : InsertedAt(M, a, B)[k] = M[k]
         /\ \A k \in 1..Len(B) : InsertedAt(M, a, B)[a - 1 + k] = B[k]
         /\ \A k \in a..Len(M) : InsertedAt(M, a, B)[k + Len(B)] = M[k]
<1> DEFINE P == SubSeq(M, 1, a - 1)  T == SubSeq(M, a, Len(M))  N == InsertedAt(M, a, B)
<1>1. Len(M) \in Nat /\ Len(B) \in Nat /\ a \in Nat /\ \A m \in 1..Len(M) : M[m] \in RawLine
  BY LineTyped
<1>2. P \in Seq(RawLine) /\ Len(P) = a - 1 /\ \A k \in 1..a - 1 : P[k] = M[k]
  <2>1. \A m \in 1..a - 1 : M[m] \in RawLine
    BY <1>1
  <2>2. a - 1 \in Int /\ 1 \in Int
    BY <1>1
  <2>3. /\ P \in Seq(RawLine) /\ Len(P) = IF 1 <= a - 1 THEN a - 1 - 1 + 1 ELSE 0
        /\ \A k \in 1 .. (a - 1) - 1 + 1 : P[k] = M[1 + k - 1]
    BY <2>1, <2>2, SubSeqProperties
  <2> QED BY <1>1, <2>3
<1>3. T \in Seq(RawLine) /\ Len(T) = Len(M) - a + 1 /\ \A k \in 1..Len(T) : T[k] = M[a + k - 1]
  <2>1. \A m \in a..Len(M) : M[m] \in RawLine
    BY <1>1
  <2>2. a \in Int /\ Len(M) \in Int
    BY <1>1
  <2>3. /\ T \in Seq(RawLine) /\ Len(T) = IF a <= Len(M) THEN Len(M) - a + 1 ELSE 0
        /\ \A k \in 1 .. Len(M) - a + 1 : T[k] = M[a + k - 1]
    BY <2>1, <2>2, SubSeqProperties
  <2> QED BY <1>1, <2>3
<1> N = (P \o B) \o T
  BY DEF InsertedAt
<1> HIDE DEF P, T, N
<1>4. /\ P \o B \in Seq(RawLine) /\ Len(P \o B) = Len(P) + Len(B)
      /\ \A i \in 1..Len(P) + Len(B) : (P \o B)[i] = IF i <= Len(P) THEN P[i] ELSE B[i - Len(P)]
  <2>1. P \in Seq(RawLine) /\ B \in Seq(RawLine)
    BY <1>2
  <2> QED BY <2>1, ConcatProperties, Zenon
<1>5. /\ N \in Seq(RawLine) /\ Len(N) = Len(P \o B) + Len(T)
      /\ \A i \in 1..Len(P \o B) + Len(T) :
            N[i] = IF i <= Len(P \o B) THEN (P \o B)[i] ELSE T[i - Len(P \o B)]
  <2>1. P \o B \in Seq(RawLine) /\ T \in Seq(RawLine)
    BY <1>3, <1>4
  <2> QED BY <2>1, ConcatProperties, Zenon
<1>6. \A k \in 1..a - 1 : N[k] = M[k]
  BY <1>1, <1>2, <1>3, <1>4, <1>5
<1>7. ASSUME NEW k \in 1..Len(B) PROVE N[a - 1 + k] = B[k]
  <2>1. a - 1 + k \in 1..Len(P) + Len(B) /\ ~(a - 1 + k <= Len(P)) /\ (a - 1 + k) - Len(P) = k
    BY <1>1, <1>2
  <2>2. a - 1 + k \in 1..Len(P \o B) + Len(T) /\ a - 1 + k <= Len(P \o B)
    BY <1>1, <1>2, <1>3, <1>4, <2>1
  <2>3. N[a - 1 + k] = (P \o B)[a - 1 + k]
    BY <1>5, <2>2
  <2>4. (P \o B)[a - 1 + k] = B[(a - 1 + k) - Len(P)]
    BY <1>4, <2>1
  <2> QED BY <2>1, <2>3, <2>4
<1>8. ASSUME NEW k \in a..Len(M) PROVE N[k + Len(B)] = M[k]
  <2>1. /\ k + Len(B) \in 1..Len(P \o B) + Len(T) /\ ~(k + Len(B) <= Len(P \o B))
        /\ (k + Len(B)) - Len(P \o B) = k - a + 1 /\ k - a + 1 \in 1..Len(T) /\ a + (k - a + 1) - 1 = k
    BY <1>1, <1>2, <1>3, <1>4
  <2>2. N[k + Len(B)] = T[k - a + 1]
    BY <1>5, <2>1
  <2> QED BY <1>3, <2>1, <2>2
<1>9. N \in Seq(RawLine) /\ Len(N) = Len(M) + Len(B)
  BY <1>1, <1>2, <1>3, <1>4, <1>5
<1> QED BY <1>6, <1>7, <1>8, <1>9 DEF N

\* Where the lines of a section are after a block was put into it.
Joined(M, a, B, N) ==
  /\ N \in Seq(RawLine) /\ Len(N) = Len(M) + Len(B)
  /\ \A k \in 1..a - 1 : N[k] = M[k]
  /\ \A k \in 1..Len(B) : N[a - 1 + k] = B[k]
  /\ \A k \in a..Len(M) : N[k + Len(B)] = M[k]

LEMMA JoinedIs ==
  ASSUME NEW M \in Seq(RawLine), NEW B \in Seq(RawLine), NEW a \in 1..Len(M) + 1
  PROVE  Joined(M, a, B, InsertedAt(M, a, B))
  BY Inserted DEF Joined

LEMMA JoinedOnly ==
  ASSUME NEW M \in Seq(RawLine), NEW B \in Seq(RawLine), NEW a \in 1..Len(M) + 1,
         NEW N, Joined(M, a, B, N)
  PROVE  N = InsertedAt(M, a, B)
<1> DEFINE I == InsertedAt(M, a, B)
<1>1. Joined(M, a, B, I)
  BY JoinedIs
<1>2. Len(M) \in Nat /\ Len(B) \in Nat /\ a \in Nat
  BY LineTyped
<1> HIDE DEF I
<1>3. N \in Seq(RawLine) /\ I \in Seq(RawLine) /\ Len(N) = Len(I) /\ Len(N) = Len(M) + Len(B)
  BY <1>1 DEF Joined
<1>4. ASSUME NEW k \in 1..Len(N) PROVE N[k] = I[k]
  <2>1. CASE k \in 1..a - 1
    BY <1>1, <2>1 DEF Joined
  <2>2. CASE k \in a..a - 1 + Len(B)
    <3>1. k - (a - 1) \in 1..Len(B) /\ a - 1 + (k - (a - 1)) = k
      BY <1>2, <2>2
    <3>2. \A m \in 1..Len(B) : N[a - 1 + m] = B[m] /\ I[a - 1 + m] = B[m]
      BY <1>1 DEF Joined
    <3> QED BY <3>1, <3>2
  <2>3. CASE k \in a + Len(B)..Len(N)
    <3>1. k - Len(B) \in a..Len(M) /\ (k - Len(B)) + Len(B) = k
      BY <1>2, <1>3, <2>3
    <3> QED BY <1>1, <3>1 DEF Joined
  <2> QED BY <1>2, <1>3, <2>1, <2>2, <2>3
<1> QED BY <1>3, <1>4, SeqEqual DEF I

\* The lines of the section with the block are those of either.
LEMMA JoinedLines ==
  ASSUME NEW M \in Seq(RawLine), NEW B \in Seq(RawLine), NEW a \in 1..Len(M) + 1,
         NEW N, Joined(M, a, B, N), NEW k \in 1..Len(N)
  PROVE  \/ k \in 1..a - 1 /\ k \in 1..Len(M)
         \/ \E m \in 1..Len(B) : k = a - 1 + m
         \/ \E m \in a..Len(M) : k = m + Len(B)
<1>1. Len(M) \in Nat /\ Len(B) \in Nat /\ a \in Nat /\ Len(N) = Len(M) + Len(B)
  BY LineTyped DEF Joined
<1>2. CASE k \in a..a - 1 + Len(B)
  <2>1. k - (a - 1) \in 1..Len(B) /\ k = a - 1 + (k - (a - 1))
    BY <1>1, <1>2
  <2> QED BY <2>1
<1>3. CASE k \in a + Len(B)..Len(N)
  <2>1. k - Len(B) \in a..Len(M) /\ k = (k - Len(B)) + Len(B)
    BY <1>1, <1>3
  <2> QED BY <2>1
<1> QED BY <1>1, <1>2, <1>3

LEMMA JoinedAlive ==
  ASSUME NEW s, NEW M, Section(M), NEW B \in Seq(RawLine), B # <<>>, NEW a \in 1..Len(M) + 1,
         AsFamily(M, a, B) \/ AsPart(M, a, B), NEW N, Joined(M, a, B, N)
  PROVE  /\ \A k \in 1..a - 1 : Alive(s, N, k) <=> Alive(s, M, k)
         /\ \A k \in 1..Len(B) : Alive(s, N, a - 1 + k) <=> Lives(s, M, a, B)
         /\ \A k \in a..Len(M) : Alive(s, N, k + Len(B)) <=> Alive(s, M, k)
<1> DEFINE b == Len(B)
<1>1. /\ Len(M) \in Nat /\ b \in Nat \ {0} /\ a \in Nat \ {0}
      /\ \A m \in 1..Len(M) : M[m].depth \in Nat
      /\ \A m \in 1..b : B[m].depth \in Nat
  BY LineTyped, EmptySeq DEF Section
<1>2. /\ \A k \in 1..a - 1 : N[k] = M[k]
      /\ \A k \in 1..b : N[a - 1 + k] = B[k]
      /\ \A k \in a..Len(M) : N[k + b] = M[k]
  BY DEF Joined
<1> HIDE DEF b
<1>2a. N[a] = B[1]
  BY <1>1, <1>2
<1>3. ASSUME NEW k \in 1..a - 1 PROVE Alive(s, N, k) <=> Alive(s, M, k)
  <2>1. k \in Nat /\ \A m \in 1..k : N[m] = M[m]
    BY <1>1, <1>2
  <2> QED BY <2>1, PrefixAlive
<1>4. ASSUME NEW k \in 1..b PROVE Alive(s, N, a - 1 + k) <=> Lives(s, M, a, B)
  <2>0. a - 1 + k \in Nat
    BY <1>1
  <2>1. CASE AsFamily(M, a, B)
    <3>1. \A m \in a + 1..a - 1 + k : N[m].depth > 0
      <4> SUFFICES ASSUME NEW m \in a + 1..a - 1 + k PROVE N[m].depth > 0
        OBVIOUS
      <4>1. m - (a - 1) \in 2..b /\ m - (a - 1) \in 1..b /\ a - 1 + (m - (a - 1)) = m
        BY <1>1
      <4>2. N[m] = B[m - (a - 1)]
        BY <1>2, <4>1
      <4> QED BY <2>1, <4>1, <4>2 DEF AsFamily, b
    <3>2. Root(N, a, a - 1 + k) /\ a \in 1..a - 1 + k
      BY <1>1, <1>2a, <2>1, <3>1 DEF Root, AsFamily
    <3>3. Alive(s, N, a - 1 + k) <=> ~Ended(s, N[a])
      BY <2>0, <3>2, AliveByRoot
    <3> QED BY <1>2a, <2>1, <3>3 DEF Lives, AsFamily
  <2>2. CASE AsPart(M, a, B)
    <3>0. a - 1 \in 1..Len(M) /\ a - 1 \in Nat
      BY <1>1, <2>2 DEF AsPart
    <3>1. PICK r \in 1..a - 1 : Root(M, r, a - 1)
      BY <3>0, RootExists
    <3>2. \A m \in r + 1..a - 1 + k : N[m].depth > 0
      <4> SUFFICES ASSUME NEW m \in r + 1..a - 1 + k PROVE N[m].depth > 0
        OBVIOUS
      <4>1. CASE m <= a - 1
        BY <1>1, <1>2, <3>1, <4>1 DEF Root
      <4>2. CASE m >= a
        <5>1. m - (a - 1) \in 1..b /\ a - 1 + (m - (a - 1)) = m
          BY <1>1, <4>2
        <5>2. N[m] = B[m - (a - 1)]
          BY <1>2, <5>1
        <5> QED BY <2>2, <5>1, <5>2 DEF AsPart, b
      <4> QED BY <1>1, <3>1, <4>1, <4>2
    <3>3a. N[r] = M[r] /\ r \in 1..a - 1 + k
      BY <1>1, <1>2, <3>1
    <3>3. Root(N, r, a - 1 + k) /\ r \in 1..a - 1 + k /\ N[r] = M[r]
      BY <3>1, <3>2, <3>3a DEF Root
    <3>4. Alive(s, N, a - 1 + k) <=> ~Ended(s, N[r])
      BY <2>0, <3>3, AliveByRoot
    <3>5. Alive(s, M, a - 1) <=> ~Ended(s, M[r])
      BY <3>0, <3>1, AliveByRoot
    <3>6. B[1].depth # 0
      BY <1>1, <2>2 DEF AsPart, b
    <3> QED BY <3>3, <3>4, <3>5, <3>6 DEF Lives
  <2> QED BY <2>1, <2>2
<1>5. ASSUME NEW k \in a..Len(M) PROVE Alive(s, N, k + b) <=> Alive(s, M, k)
  <2>0. k \in 1..Len(M) /\ k \in Nat /\ k + b \in Nat
    BY <1>1
  <2>1. PICK r \in 1..k : Root(M, r, k)
    BY <2>0, RootExists
  <2>2. Alive(s, M, k) <=> ~Ended(s, M[r])
    BY <2>0, <2>1, AliveByRoot
  <2>3. CASE r >= a
    <3>1. \A m \in (r + b) + 1..k + b : N[m].depth > 0
      <4> SUFFICES ASSUME NEW m \in (r + b) + 1..k + b PROVE N[m].depth > 0
        OBVIOUS
      <4>1. m - b \in r + 1..k /\ m - b \in a..Len(M) /\ (m - b) + b = m
        BY <1>1, <2>0, <2>3
      <4> QED BY <1>2, <2>1, <4>1 DEF Root
    <3>2. N[r + b] = M[r] /\ r + b \in 1..k + b
      BY <1>1, <1>2, <2>0, <2>3
    <3>3. Root(N, r + b, k + b)
      BY <2>1, <3>1, <3>2 DEF Root
    <3> QED BY <2>0, <2>2, <3>2, <3>3, AliveByRoot
  <2>4. CASE r < a
    <3>1. AsPart(M, a, B)
      <4>1. a \in r + 1..k /\ a # Len(M) + 1
        BY <1>1, <2>0, <2>4
      <4>2. M[a].depth > 0 /\ a \in 1..Len(M)
        BY <1>1, <2>0, <2>1, <4>1 DEF Root
      <4> QED BY <1>1, <4>1, <4>2 DEF AsFamily
    <3>2. \A m \in r + 1..k + b : N[m].depth > 0
      <4> SUFFICES ASSUME NEW m \in r + 1..k + b PROVE N[m].depth > 0
        OBVIOUS
      <4>1. CASE m <= a - 1
        BY <1>1, <1>2, <2>0, <2>1, <4>1 DEF Root
      <4>2. CASE m >= a /\ m <= a - 1 + b
        <5>1. m - (a - 1) \in 1..b /\ a - 1 + (m - (a - 1)) = m
          BY <1>1, <4>2
        <5>2. N[m] = B[m - (a - 1)]
          BY <1>2, <5>1
        <5> QED BY <3>1, <5>1, <5>2 DEF AsPart, b
      <4>3. CASE m > a - 1 + b
        <5>1. m - b \in r + 1..k /\ m - b \in a..Len(M) /\ (m - b) + b = m
          BY <1>1, <2>0, <2>4, <4>3
        <5> QED BY <1>2, <2>1, <5>1 DEF Root
      <4> QED BY <1>1, <2>0, <4>1, <4>2, <4>3
    <3>3. N[r] = M[r] /\ r \in 1..k + b
      BY <1>1, <1>2, <2>0, <2>4
    <3>4. Root(N, r, k + b)
      BY <2>1, <3>2, <3>3 DEF Root
    <3> QED BY <2>0, <2>2, <3>3, <3>4, AliveByRoot
  <2> QED BY <1>1, <2>0, <2>3, <2>4
<1> QED BY <1>3, <1>4, <1>5 DEF b

LEMMA JoinedSection ==
  ASSUME NEW M, Section(M), NEW B \in Seq(RawLine), B # <<>>, NEW a \in 1..Len(M) + 1,
         AsFamily(M, a, B) \/ AsPart(M, a, B), NEW N, Joined(M, a, B, N)
  PROVE  Section(N)
<1>1. /\ Len(M) \in Nat /\ Len(B) \in Nat \ {0} /\ a \in Nat \ {0} /\ M \in Seq(RawLine)
      /\ \A m \in 1..Len(M) : M[m].depth \in Nat
      /\ \A m \in 1..Len(B) : B[m].depth \in Nat
  BY LineTyped, EmptySeq DEF Section
<1>2. N \in Seq(RawLine) /\ Len(N) = Len(M) + Len(B)
  BY DEF Joined
<1>3. N[1].depth = 0
  <2>1. CASE a = 1
    <3>1. N[1] = B[1]
      BY <1>1, <2>1 DEF Joined
    <3> QED BY <1>1, <2>1, <3>1 DEF AsFamily, AsPart
  <2>2. CASE a # 1
    <3>1. N[1] = M[1] /\ M # <<>>
      BY <1>1, <2>2 DEF Joined
    <3> QED BY <3>1 DEF Section, Rooted
  <2> QED BY <2>1, <2>2
<1>4. ASSUME NEW k \in 1..Len(N), IsNote(N[k]) PROVE N[k].depth > 0
  <2>1. CASE k \in 1..a - 1 /\ k \in 1..Len(M)
    BY <1>4, <2>1 DEF Joined, Section, Rooted
  <2>2. ASSUME NEW m \in 1..Len(B), k = a - 1 + m PROVE N[k].depth > 0
    <3>1. N[k] = B[m]
      BY <2>2 DEF Joined
    <3> QED BY <1>1, <1>4, <3>1 DEF AsFamily, AsPart
  <2>3. ASSUME NEW m \in a..Len(M), k = m + Len(B) PROVE N[k].depth > 0
    <3>1. N[k] = M[m] /\ m \in 1..Len(M)
      BY <1>1, <2>3 DEF Joined
    <3> QED BY <1>4, <3>1 DEF Section, Rooted
  <2>4. \/ k \in 1..a - 1 /\ k \in 1..Len(M)
        \/ \E m \in 1..Len(B) : k = a - 1 + m
        \/ \E m \in a..Len(M) : k = m + Len(B)
    <3>1. M \in Seq(RawLine)
      BY <1>1
    <3> QED BY <3>1, JoinedLines
  <2> QED BY <2>1, <2>2, <2>3, <2>4
<1> QED BY <1>2, <1>3, <1>4 DEF Section, Rooted

\* What a section holds once a block was put into it.
LEMMA JoinedHolds ==
  ASSUME NEW s, NEW M, Section(M), NEW B \in Seq(RawLine), B # <<>>, NEW a \in 1..Len(M) + 1,
         AsFamily(M, a, B) \/ AsPart(M, a, B), NEW N, Joined(M, a, B, N)
  PROVE  /\ Said(N) = Said(M) \cup Said(B)
         /\ Held(s, N) = Held(s, M) \cup (IF Lives(s, M, a, B) THEN Said(B) ELSE {})
         /\ Once(s, N) <=> /\ Once(s, M)
                           /\ Lives(s, M, a, B) => Distinct(B) /\ Held(s, M) \cap Said(B) = {}
<1> DEFINE A == Lives(s, M, a, B)  b == Len(B)
<1>1. /\ Len(M) \in Nat /\ b \in Nat \ {0} /\ a \in Nat \ {0} /\ Len(N) = Len(M) + b
      /\ \A m \in 1..b : a - 1 + m \in 1..Len(N)
      /\ \A m \in a..Len(M) : m + b \in 1..Len(N)
      /\ \A m \in 1..a - 1 : m \in 1..Len(N)
  BY LineTyped, EmptySeq DEF Section, Joined
<1>2. /\ \A k \in 1..a - 1 : N[k] = M[k]
      /\ \A k \in 1..b : N[a - 1 + k] = B[k]
      /\ \A k \in a..Len(M) : N[k + b] = M[k]
  BY DEF Joined
<1>3. /\ \A k \in 1..a - 1 : Alive(s, N, k) <=> Alive(s, M, k)
      /\ \A k \in 1..b : Alive(s, N, a - 1 + k) <=> A
      /\ \A k \in a..Len(M) : Alive(s, N, k + b) <=> Alive(s, M, k)
  BY JoinedAlive
<1>4. \A k \in 1..Len(N) :
         \/ k \in 1..a - 1 /\ k \in 1..Len(M)
         \/ \E m \in 1..b : k = a - 1 + m
         \/ \E m \in a..Len(M) : k = m + b
  BY JoinedLines DEF Section
<1>5. /\ \A k \in 1..Len(M) : k \in 1..a - 1 \/ k \in a..Len(M)
      /\ \A k \in a..Len(M) : k \in 1..Len(M)
      /\ \A k \in 1..a - 1 : k \in 1..Len(M)
  BY <1>1
<1> HIDE DEF A, b
\* The place in the longer section of a line of the shorter.
<1> DEFINE g == [k \in 1..Len(M) |-> IF k \in 1..a - 1 THEN k ELSE k + b]
<1>6. ASSUME NEW k \in 1..Len(M)
      PROVE  /\ g[k] \in 1..Len(N) /\ N[g[k]] = M[k] /\ (Alive(s, N, g[k]) <=> Alive(s, M, k))
             /\ \A m \in 1..b : g[k] # a - 1 + m
  <2>1. CASE k \in 1..a - 1
    BY <1>1, <1>2, <1>3, <2>1
  <2>2. CASE k \notin 1..a - 1 /\ k \in a..Len(M)
    BY <1>1, <1>2, <1>3, <2>2
  <2> QED BY <1>5, <2>1, <2>2
<1>7. \A k, m \in 1..Len(M) : g[k] = g[m] => k = m
  BY <1>1
<1>8. ASSUME NEW k \in 1..Len(N)
      PROVE  (\E m \in 1..b : k = a - 1 + m) \/ (\E m \in 1..Len(M) : k = g[m])
  <2>1. CASE k \in 1..a - 1 /\ k \in 1..Len(M)
    <3>1. k = g[k]
      BY <2>1
    <3> QED BY <2>1, <3>1
  <2>2. CASE \E m \in a..Len(M) : k = m + b
    <3>1. PICK m \in a..Len(M) : k = m + b
      BY <2>2
    <3>2. m \in 1..Len(M) /\ m \notin 1..a - 1
      BY <1>1, <1>5
    <3>3. k = g[m]
      BY <3>1, <3>2
    <3> QED BY <3>2, <3>3
  <2> QED BY <1>4, <2>1, <2>2
<1> HIDE DEF g
<1>9. Said(N) = Said(M) \cup Said(B)
  <2>1. ASSUME NEW k \in 1..Len(N) PROVE N[k].item \in Said(M) \cup Said(B)
    <3>1. CASE \E m \in 1..b : k = a - 1 + m
      BY <1>2, <3>1 DEF Said, b
    <3>2. CASE \E m \in 1..Len(M) : k = g[m]
      BY <1>6, <3>2 DEF Said
    <3> QED BY <1>8, <3>1, <3>2
  <2>2. ASSUME NEW k \in 1..b PROVE B[k].item \in Said(N)
    BY <1>1, <1>2 DEF Said
  <2>3. ASSUME NEW k \in 1..Len(M) PROVE M[k].item \in Said(N)
    BY <1>6 DEF Said
  <2> QED BY <2>1, <2>2, <2>3 DEF Said, b
<1>10. Held(s, N) = Held(s, M) \cup (IF A THEN Said(B) ELSE {})
  <2>1. ASSUME NEW k \in 1..Len(N), Alive(s, N, k)
        PROVE  N[k].item \in Held(s, M) \cup (IF A THEN Said(B) ELSE {})
    <3>1. CASE \E m \in 1..b : k = a - 1 + m
      BY <1>2, <1>3, <2>1, <3>1 DEF Said, b
    <3>2. CASE \E m \in 1..Len(M) : k = g[m]
      BY <1>6, <2>1, <3>2 DEF Held
    <3> QED BY <1>8, <3>1, <3>2
  <2>2. ASSUME NEW k \in 1..b, A PROVE B[k].item \in Held(s, N)
    BY <1>1, <1>2, <1>3, <2>2 DEF Held
  <2>3. ASSUME NEW k \in 1..Len(M), Alive(s, M, k) PROVE M[k].item \in Held(s, N)
    BY <1>6, <2>3 DEF Held
  <2>4. Held(s, N) \subseteq Held(s, M) \cup (IF A THEN Said(B) ELSE {})
    BY <2>1 DEF Held
  <2>5. Held(s, M) \subseteq Held(s, N)
    BY <2>3 DEF Held
  <2>6. A => Said(B) \subseteq Held(s, N)
    BY <2>2 DEF Said, b
  <2> QED BY <2>4, <2>5, <2>6
<1>11. ASSUME Once(s, N) PROVE Once(s, M) /\ (A => Distinct(B) /\ Held(s, M) \cap Said(B) = {})
  <2>1. Once(s, M)
    <3> SUFFICES ASSUME NEW k \in 1..Len(M), NEW m \in 1..Len(M), Alive(s, M, k), Alive(s, M, m),
                        M[k].item = M[m].item
                 PROVE  k = m
      BY DEF Once
    <3>1. g[k] = g[m]
      BY <1>6, <1>11 DEF Once
    <3> QED BY <1>7, <3>1
  <2>2. ASSUME A PROVE Distinct(B)
    <3> SUFFICES ASSUME NEW k \in 1..b, NEW m \in 1..b, B[k].item = B[m].item PROVE k = m
      BY DEF Distinct, b
    <3>1. a - 1 + k = a - 1 + m
      <4>1. a - 1 + k \in 1..Len(N) /\ Alive(s, N, a - 1 + k) /\ N[a - 1 + k].item = B[k].item
        BY <1>1, <1>2, <1>3, <2>2
      <4>2. a - 1 + m \in 1..Len(N) /\ Alive(s, N, a - 1 + m) /\ N[a - 1 + m].item = B[m].item
        BY <1>1, <1>2, <1>3, <2>2
      <4> QED BY <1>11, <4>1, <4>2, Zenon DEF Once
    <3> QED BY <1>1, <3>1
  <2>3. ASSUME A, NEW x \in Held(s, M), x \in Said(B) PROVE FALSE
    <3>1. PICK k \in 1..Len(M) : Alive(s, M, k) /\ M[k].item = x
      BY <2>3 DEF Held
    <3>2. PICK m \in 1..b : B[m].item = x
      BY <2>3 DEF Said, b
    <3>3. g[k] \in 1..Len(N) /\ N[g[k]].item = x /\ Alive(s, N, g[k]) /\ g[k] # a - 1 + m
      BY <1>6, <3>1
    <3>4. a - 1 + m \in 1..Len(N) /\ N[a - 1 + m].item = x /\ Alive(s, N, a - 1 + m)
      BY <1>1, <1>2, <1>3, <2>3, <3>2
    <3> QED BY <1>11, <3>3, <3>4 DEF Once
  <2> QED BY <2>1, <2>2, <2>3
<1>12. ASSUME Once(s, M), A => Distinct(B) /\ Held(s, M) \cap Said(B) = {} PROVE Once(s, N)
  <2> SUFFICES ASSUME NEW k \in 1..Len(N), NEW m \in 1..Len(N), Alive(s, N, k), Alive(s, N, m),
                      N[k].item = N[m].item
               PROVE  k = m
    BY DEF Once
  <2>1. ASSUME NEW c \in 1..b, NEW d \in 1..Len(M), Alive(s, N, a - 1 + c), Alive(s, N, g[d]),
               N[a - 1 + c].item = N[g[d]].item
        PROVE  FALSE
    <3>1. A /\ N[a - 1 + c].item \in Said(B)
      BY <1>2, <1>3, <2>1 DEF Said, b
    <3>2. N[g[d]].item \in Held(s, M)
      BY <1>6, <2>1 DEF Held
    <3> QED BY <1>12, <2>1, <3>1, <3>2
  <2>2. CASE \E c, d \in 1..b : k = a - 1 + c /\ m = a - 1 + d
    <3>1. PICK c \in 1..b, d \in 1..b : k = a - 1 + c /\ m = a - 1 + d
      BY <2>2
    <3>2. A /\ B[c].item = B[d].item
      BY <1>2, <1>3, <3>1
    <3>3. c = d
      BY <1>12, <3>2 DEF Distinct, b
    <3> QED BY <3>1, <3>3
  <2>3. CASE \E c, d \in 1..Len(M) : k = g[c] /\ m = g[d]
    <3>1. PICK c \in 1..Len(M), d \in 1..Len(M) : k = g[c] /\ m = g[d]
      BY <2>3
    <3>2. Alive(s, M, c) /\ Alive(s, M, d) /\ M[c].item = M[d].item
      BY <1>6, <3>1
    <3>3. c = d
      BY <1>12, <3>2 DEF Once
    <3> QED BY <3>1, <3>3
  <2>4. ~((\E c \in 1..b : k = a - 1 + c) /\ (\E d \in 1..Len(M) : m = g[d]))
    BY <2>1
  <2>5. ~((\E c \in 1..b : m = a - 1 + c) /\ (\E d \in 1..Len(M) : k = g[d]))
    BY <2>1
  <2> QED BY <1>8, <2>2, <2>3, <2>4, <2>5
<1> QED BY <1>9, <1>10, <1>11, <1>12 DEF A

-----------------------------------------------------------------------------
(* A block that is taken out of a section *)

LEMMA BlockLines ==
  ASSUME NEW L \in Seq(RawLine), NEW i \in 1..Len(L)
  PROVE  /\ Block(L, i) \in Seq(RawLine) /\ Block(L, i) # <<>>
         /\ Len(Block(L, i)) = BlockEnd(L, i) - i + 1 /\ Len(Block(L, i)) \in Nat \ {0}
         /\ BlockEnd(L, i) \in i..Len(L) /\ BlockEnd(L, i) \in Nat
         /\ \A k \in 1..Len(Block(L, i)) : Block(L, i)[k] = L[i + k - 1]
         /\ Block(L, i)[1] = L[i]
         /\ \A k \in 2..Len(Block(L, i)) : Block(L, i)[k].depth > L[i].depth
<1> DEFINE e == BlockEnd(L, i)  B == Block(L, i)
<1>1. IsEnd(L, i, e)
  BY BlockEnds
<1>2. Len(L) \in Nat /\ i \in Nat /\ \A m \in 1..Len(L) : L[m] \in RawLine
  BY LineTyped
<1>3. e \in i..Len(L) /\ e \in Nat /\ \A k \in i + 1..e : L[k].depth > L[i].depth
  BY <1>1, <1>2 DEF IsEnd
<1> B = SubSeq(L, i, e)
  BY DEF Block
<1> HIDE DEF e, B
<1>4. \A m \in i..e : L[m] \in RawLine
  BY <1>2, <1>3
<1>5. i \in Int /\ e \in Int
  BY <1>2, <1>3
<1>6. /\ B \in Seq(RawLine) /\ Len(B) = IF i <= e THEN e - i + 1 ELSE 0
      /\ \A k \in 1..e - i + 1 : B[k] = L[i + k - 1]
  BY <1>4, <1>5, SubSeqProperties
<1>7. Len(B) = e - i + 1 /\ Len(B) \in Nat \ {0}
  BY <1>2, <1>3, <1>6
<1>8. B # <<>>
  BY <1>6, <1>7, EmptySeq
<1>9. B[1] = L[i]
  <2>1. 1 \in 1..e - i + 1 /\ i + 1 - 1 = i
    BY <1>2, <1>3
  <2> QED BY <1>6, <2>1
<1>10. \A k \in 2..Len(B) : B[k].depth > L[i].depth
  <2> SUFFICES ASSUME NEW k \in 2..Len(B) PROVE B[k].depth > L[i].depth
    OBVIOUS
  <2>1. k \in 1..e - i + 1 /\ i + k - 1 \in i + 1..e
    BY <1>2, <1>3, <1>7
  <2> QED BY <1>3, <1>6, <2>1
<1> QED BY <1>3, <1>6, <1>7, <1>8, <1>9, <1>10 DEF e, B

LEMMA CutLines ==
  ASSUME NEW L \in Seq(RawLine), NEW i \in 1..Len(L)
  PROVE  /\ Cut(L, i) \in Seq(RawLine)
         /\ i \in 1..Len(Cut(L, i)) + 1
         /\ Joined(Cut(L, i), i, Block(L, i), L)
<1> DEFINE e == BlockEnd(L, i)  B == Block(L, i)  M == Cut(L, i)
           P == SubSeq(L, 1, i - 1)  T == SubSeq(L, e + 1, Len(L))
<1>1. Len(L) \in Nat /\ i \in Nat \ {0} /\ \A m \in 1..Len(L) : L[m] \in RawLine
  BY LineTyped
<1>2. /\ e \in i..Len(L) /\ e \in Nat /\ Len(B) = e - i + 1
      /\ \A k \in 1..Len(B) : B[k] = L[i + k - 1]
  BY BlockLines
<1> M = P \o T
  BY DEF Cut
<1> HIDE DEF e, B, M, P, T
<1>3. P \in Seq(RawLine) /\ Len(P) = i - 1 /\ \A k \in 1..i - 1 : P[k] = L[k]
  <2>1. (\A m \in 1..i - 1 : L[m] \in RawLine) /\ i - 1 \in Int /\ 1 \in Int
    BY <1>1
  <2>2. /\ P \in Seq(RawLine) /\ Len(P) = IF 1 <= i - 1 THEN i - 1 - 1 + 1 ELSE 0
        /\ \A k \in 1 .. (i - 1) - 1 + 1 : P[k] = L[1 + k - 1]
    BY <2>1, SubSeqProperties DEF P
  <2> QED BY <1>1, <2>2
<1>4. T \in Seq(RawLine) /\ Len(T) = Len(L) - e /\ \A k \in 1..Len(T) : T[k] = L[e + k]
  <2>1. (\A m \in e + 1..Len(L) : L[m] \in RawLine) /\ e + 1 \in Int /\ Len(L) \in Int
    BY <1>1, <1>2
  <2>2. /\ T \in Seq(RawLine) /\ Len(T) = IF e + 1 <= Len(L) THEN Len(L) - (e + 1) + 1 ELSE 0
        /\ \A k \in 1 .. Len(L) - (e + 1) + 1 : T[k] = L[e + 1 + k - 1]
    BY <2>1, SubSeqProperties DEF T
  <2>3. Len(T) = Len(L) - e
    BY <1>1, <1>2, <2>2
  <2>4. \A k \in 1..Len(T) : k \in 1 .. Len(L) - (e + 1) + 1 /\ e + 1 + k - 1 = e + k
    BY <1>1, <1>2, <2>3
  <2> QED BY <2>2, <2>3, <2>4
<1>5. /\ M \in Seq(RawLine) /\ Len(M) = Len(P) + Len(T)
      /\ \A k \in 1..Len(P) + Len(T) : M[k] = IF k <= Len(P) THEN P[k] ELSE T[k - Len(P)]
  BY <1>3, <1>4, ConcatProperties, Zenon
<1>6. Len(L) = Len(M) + Len(B) /\ i \in 1..Len(M) + 1
  BY <1>1, <1>2, <1>3, <1>4, <1>5
<1>7. \A k \in 1..i - 1 : L[k] = M[k]
  BY <1>1, <1>3, <1>4, <1>5, <1>6
<1>8. \A k \in 1..Len(B) : L[i - 1 + k] = B[k]
  <2>1. \A k \in 1..Len(B) : i - 1 + k = i + k - 1
    BY <1>1, <1>2
  <2> QED BY <1>2, <2>1
<1>9. ASSUME NEW k \in i..Len(M) PROVE L[k + Len(B)] = M[k]
  <2>1. /\ k \in 1..Len(P) + Len(T) /\ ~(k <= Len(P)) /\ k - Len(P) \in 1..Len(T)
        /\ e + (k - Len(P)) = k + Len(B)
    BY <1>1, <1>2, <1>3, <1>4, <1>5
  <2>2. M[k] = T[k - Len(P)]
    BY <1>5, <2>1
  <2> QED BY <1>4, <2>1, <2>2
<1> QED BY <1>5, <1>6, <1>7, <1>8, <1>9 DEF Joined, B, M

\* A section is what a block leaves behind, and the block at its old place.
LEMMA CutSection ==
  ASSUME NEW s, NEW L, Section(L), NEW i \in 1..Len(L)
  PROVE  /\ Section(Cut(L, i))
         /\ AsFamily(Cut(L, i), i, Block(L, i)) \/ AsPart(Cut(L, i), i, Block(L, i))
         /\ Lives(s, Cut(L, i), i, Block(L, i)) <=> Alive(s, L, i)
<1> DEFINE e == BlockEnd(L, i)  B == Block(L, i)  M == Cut(L, i)
<1>1. /\ L \in Seq(RawLine) /\ Len(L) \in Nat /\ i \in Nat \ {0}
      /\ \A m \in 1..Len(L) : L[m] \in RawLine /\ L[m].depth \in Nat
      /\ \A m \in 1..Len(L) : IsNote(L[m]) => L[m].depth > 0
  BY LineTyped DEF Section, Rooted
<1>2. /\ e \in i..Len(L) /\ e \in Nat /\ Len(B) = e - i + 1 /\ Len(B) \in Nat \ {0}
      /\ B[1] = L[i]
      /\ \A k \in 2..Len(B) : B[k].depth > L[i].depth
      /\ B \in Seq(RawLine)
  BY <1>1, BlockLines
<1>2a. \A k \in 1..Len(B) : B[k].depth \in Nat
  BY <1>2, LineTyped
<1>3. /\ M \in Seq(RawLine) /\ Len(M) \in Nat /\ i \in 1..Len(M) + 1 /\ Len(L) = Len(M) + Len(B)
      /\ \A k \in 1..i - 1 : L[k] = M[k]
      /\ \A k \in i..Len(M) : L[k + Len(B)] = M[k]
  BY <1>1, CutLines, LineTyped DEF Joined
<1>4. e = Len(L) \/ L[e + 1].depth <= L[i].depth
  BY <1>1, BlockEnds DEF IsEnd
<1> HIDE DEF e, B, M
<1>5. L[1].depth = 0
  <2>1. L # <<>>
    BY <1>1, EmptySeq
  <2> QED BY <2>1 DEF Section, Rooted
<1>6. i # Len(M) + 1 => M[i] = L[e + 1] /\ M[i].depth \in Nat /\ e # Len(L)
  <2>1. i # Len(M) + 1 => i \in i..Len(M) /\ i + Len(B) = e + 1 /\ e + 1 \in 1..Len(L)
    BY <1>1, <1>2, <1>3
  <2> QED BY <1>1, <1>3, <2>1
<1>7. ASSUME NEW k \in 1..Len(M) PROVE \E m \in 1..Len(L) : M[k] = L[m]
  <2>1. k \in 1..i - 1 \/ k \in i..Len(M)
    BY <1>1, <1>3
  <2>2. k \in 1..Len(L) /\ k + Len(B) \in 1..Len(L)
    BY <1>1, <1>2, <1>3
  <2> QED BY <1>3, <2>1, <2>2
<1>8. \A k \in 1..Len(M) : IsNote(M[k]) => M[k].depth > 0
  BY <1>1, <1>7
<1>9. M # <<>> => M[1].depth = 0
  <2>1. CASE i = 1
    <3>1. M # <<>> => i # Len(M) + 1
      BY <1>3, <2>1, EmptySeq
    <3> QED BY <1>1, <1>4, <1>5, <1>6, <2>1, <3>1
  <2>2. CASE i # 1
    <3>1. 1 \in 1..i - 1
      BY <1>1, <2>2
    <3> QED BY <1>3, <1>5, <3>1
  <2> QED BY <2>1, <2>2
<1>10. Section(M)
  BY <1>3, <1>8, <1>9 DEF Section, Rooted
<1>11. CASE L[i].depth = 0
  <2>1. AsFamily(M, i, B)
    BY <1>1, <1>2, <1>3, <1>4, <1>6, <1>11 DEF AsFamily
  <2>2. Root(L, i, i) /\ i \in 1..i
    BY <1>1, <1>11 DEF Root
  <2>3. Alive(s, L, i) <=> ~Ended(s, L[i])
    BY <1>1, <2>2, AliveByRoot
  <2>4. Lives(s, M, i, B) <=> ~Ended(s, L[i])
    BY <1>2, <1>11 DEF Lives
  <2> QED BY <1>10, <2>1, <2>3, <2>4 DEF M, B
<1>12. CASE L[i].depth # 0
  <2>1. i > 1 /\ i - 1 \in 1..Len(L) /\ i - 1 \in Nat /\ L[i].depth > 0
    BY <1>1, <1>5, <1>12
  <2>2. AsPart(M, i, B)
    <3> SUFFICES ASSUME NEW k \in 1..Len(B) PROVE B[k].depth > 0
      BY <2>1 DEF AsPart
    <3>1. k = 1 \/ k \in 2..Len(B)
      BY <1>2
    <3>2. B[k].depth \in Nat /\ L[i].depth \in Nat
      BY <1>1, <1>2a
    <3> QED BY <1>2, <2>1, <3>1, <3>2
  <2>3. PICK r \in 1..i - 1 : Root(L, r, i - 1)
    BY <2>1, RootExists
  <2>4. Root(L, r, i) /\ r \in 1..i
    BY <1>1, <2>1, <2>3 DEF Root
  <2>5. Alive(s, L, i) <=> Alive(s, L, i - 1)
    <3>1. Alive(s, L, i) <=> ~Ended(s, L[r])
      BY <1>1, <2>4, AliveByRoot
    <3>2. Alive(s, L, i - 1) <=> ~Ended(s, L[r])
      BY <2>1, <2>3, AliveByRoot
    <3> QED BY <3>1, <3>2
  <2>6. Alive(s, L, i - 1) <=> Alive(s, M, i - 1)
    BY <1>3, <2>1, PrefixAlive
  <2>7. Lives(s, M, i, B) <=> Alive(s, M, i - 1)
    BY <1>2, <1>12 DEF Lives
  <2> QED BY <1>10, <2>2, <2>5, <2>6, <2>7 DEF M, B
<1> QED BY <1>11, <1>12

-----------------------------------------------------------------------------
(* What is over, and stays as it was *)

\* The lines of the finished occurrences of a done section.
Over(L) == {k \in 1..Len(L) : ~Alive("done", L, k)}

\* The next line belongs to the same family.
Within(L, k) == k # Len(L) /\ L[k + 1].depth > 0

\* In N all that is over in L is found again, family by family: h says where.
Carries(L, N, h) ==
  /\ h \in [Over(L) -> Over(N)]
  /\ \A k, m \in Over(L) : h[k] = h[m] => k = m
  /\ \A k \in Over(L) :
       /\ N[h[k]] = L[k]
       /\ IF Within(L, k) THEN k + 1 \in Over(L) /\ h[k + 1] = h[k] + 1 ELSE ~Within(N, h[k])

PastIn(L, N) == \E h : Carries(L, N, h)

LEMMA NextAlive ==
  ASSUME NEW s, NEW L, Section(L), NEW k \in 1..Len(L), k # Len(L), L[k + 1].depth > 0
  PROVE  k + 1 \in 1..Len(L) /\ (Alive(s, L, k + 1) <=> Alive(s, L, k))
<1>1. Len(L) \in Nat /\ k \in Nat \ {0} /\ k + 1 \in 1..Len(L) /\ k + 1 \in Nat
  BY LineTyped DEF Section
<1>2. PICK r \in 1..k : Root(L, r, k)
  BY RootExists
<1>3. Root(L, r, k + 1) /\ r \in 1..k + 1
  <2>1. \A m \in r + 1..k + 1 : m \in r + 1..k \/ m = k + 1
    BY <1>1
  <2>2. r \in 1..k + 1
    BY <1>1
  <2> QED BY <1>2, <2>1, <2>2 DEF Root
<1>4. Alive(s, L, k) <=> ~Ended(s, L[r])
  BY <1>1, <1>2, AliveByRoot
<1>5. Alive(s, L, k + 1) <=> ~Ended(s, L[r])
  BY <1>1, <1>3, AliveByRoot
<1> QED BY <1>1, <1>4, <1>5

LEMMA OverNext ==
  ASSUME NEW L, Section(L), NEW k \in Over(L), Within(L, k)
  PROVE  k + 1 \in Over(L)
<1>1. k \in 1..Len(L) /\ k # Len(L) /\ L[k + 1].depth > 0 /\ ~Alive("done", L, k)
  BY DEF Over, Within
<1>2. k + 1 \in 1..Len(L) /\ (Alive("done", L, k + 1) <=> Alive("done", L, k))
  BY <1>1, NextAlive
<1> QED BY <1>1, <1>2 DEF Over

LEMMA PastSelf ==
  ASSUME NEW L, Section(L)
  PROVE  PastIn(L, L)
<1> DEFINE h == [k \in Over(L) |-> k]
<1>1. \A k \in Over(L) : h[k] = k
  OBVIOUS
<1>2. \A k \in Over(L) : Within(L, k) => k + 1 \in Over(L)
  BY OverNext
<1>3. h \in [Over(L) -> Over(L)]
  OBVIOUS
<1> HIDE DEF h
<1>4. Carries(L, L, h)
  BY <1>1, <1>2, <1>3 DEF Carries
<1> QED BY <1>4 DEF PastIn

LEMMA PastOn ==
  ASSUME NEW L, NEW M \in Seq(RawLine), NEW N, PastIn(L, M), PastIn(M, N)
  PROVE  PastIn(L, N)
<1>1. PICK h : Carries(L, M, h)
  BY DEF PastIn
<1>2. PICK g : Carries(M, N, g)
  BY DEF PastIn
<1> DEFINE f == [k \in Over(L) |-> g[h[k]]]
<1>3. /\ h \in [Over(L) -> Over(M)] /\ g \in [Over(M) -> Over(N)]
      /\ \A k, m \in Over(L) : h[k] = h[m] => k = m
      /\ \A k, m \in Over(M) : g[k] = g[m] => k = m
      /\ \A k \in Over(L) : /\ M[h[k]] = L[k]
                            /\ IF Within(L, k) THEN k + 1 \in Over(L) /\ h[k + 1] = h[k] + 1
                               ELSE ~Within(M, h[k])
      /\ \A k \in Over(M) : /\ N[g[k]] = M[k]
                            /\ IF Within(M, k) THEN k + 1 \in Over(M) /\ g[k + 1] = g[k] + 1
                               ELSE ~Within(N, g[k])
  BY <1>1, <1>2 DEF Carries
<1>4. \A k \in Over(L) : h[k] \in Over(M) /\ f[k] = g[h[k]]
  BY <1>3
<1>5. f \in [Over(L) -> Over(N)]
  BY <1>3
<1> HIDE DEF f
<1>6. \A k, m \in Over(L) : f[k] = f[m] => k = m
  BY <1>3, <1>4
<1>7. ASSUME NEW k \in Over(L), Within(L, k) PROVE k + 1 \in Over(L) /\ f[k + 1] = f[k] + 1
  <2>1. k + 1 \in Over(L) /\ h[k + 1] = h[k] + 1
    BY <1>3, <1>7
  <2>2. Within(M, h[k])
    <3>1. h[k] + 1 \in 1..Len(M) /\ h[k] \in 1..Len(M) /\ Len(M) \in Nat
      BY <1>4, <2>1, LineTyped DEF Over
    <3>2. M[h[k] + 1] = L[k + 1]
      BY <1>3, <2>1
    <3>3. h[k] # Len(M)
      BY <3>1
    <3> QED BY <1>7, <3>2, <3>3 DEF Within
  <2>3. g[h[k] + 1] = g[h[k]] + 1
    BY <1>3, <1>4, <2>2
  <2> QED BY <1>4, <2>1, <2>3
<1>8. \A k \in Over(L) : ~Within(L, k) => ~Within(N, f[k])
  BY <1>3, <1>4
<1>9. \A k \in Over(L) : N[f[k]] = L[k]
  BY <1>3, <1>4
<1>10. Carries(L, N, f)
  BY <1>5, <1>6, <1>7, <1>8, <1>9 DEF Carries
<1> QED BY <1>10 DEF PastIn

\* Nothing is put into the middle of what is over.
Fitting(s, M, a, B) == AsFamily(M, a, B) \/ (AsPart(M, a, B) /\ Alive(s, M, a - 1))

LEMMA JoinedPast ==
  ASSUME NEW M, Section(M), NEW B \in Seq(RawLine), B # <<>>, NEW a \in 1..Len(M) + 1,
         Fitting("done", M, a, B), NEW N, Joined(M, a, B, N)
  PROVE  PastIn(M, N)
<1> DEFINE b == Len(B)  h == [k \in Over(M) |-> IF k < a THEN k ELSE k + b]
<1>1. /\ Len(M) \in Nat /\ b \in Nat \ {0} /\ a \in Nat \ {0} /\ Len(N) = Len(M) + b
      /\ \A k \in 1..a - 1 : N[k] = M[k]
      /\ \A k \in a..Len(M) : N[k + b] = M[k]
      /\ N[a] = B[1]
  <2>1. /\ Len(M) \in Nat /\ b \in Nat \ {0} /\ a \in Nat \ {0} /\ Len(N) = Len(M) + b
        /\ \A k \in 1..a - 1 : N[k] = M[k]
        /\ \A k \in 1..b : N[a - 1 + k] = B[k]
        /\ \A k \in a..Len(M) : N[k + b] = M[k]
    BY LineTyped, EmptySeq DEF Section, Joined
  <2>2. 1 \in 1..b /\ a - 1 + 1 = a
    BY <2>1
  <2> QED BY <2>1, <2>2
<1>2. /\ \A k \in 1..a - 1 : Alive("done", N, k) <=> Alive("done", M, k)
      /\ \A k \in a..Len(M) : Alive("done", N, k + b) <=> Alive("done", M, k)
  BY JoinedAlive DEF Fitting
<1> HIDE DEF b
<1>3. ASSUME NEW k \in Over(M)
      PROVE  /\ k \in 1..Len(M) /\ ~Alive("done", M, k)
             /\ k < a => k \in 1..a - 1 /\ h[k] = k
             /\ ~(k < a) => k \in a..Len(M) /\ h[k] = k + b
             /\ h[k] \in Over(N) /\ N[h[k]] = M[k]
  <2>1. k \in 1..Len(M) /\ ~Alive("done", M, k)
    BY DEF Over
  <2>2. CASE k < a
    BY <1>1, <1>2, <2>1, <2>2 DEF Over
  <2>3. CASE ~(k < a)
    BY <1>1, <1>2, <2>1, <2>3 DEF Over
  <2> QED BY <2>1, <2>2, <2>3
<1>4. h \in [Over(M) -> Over(N)]
  BY <1>3
<1> HIDE DEF h
<1>5. \A k, m \in Over(M) : h[k] = h[m] => k = m
  BY <1>1, <1>3
\* Where the block begins nothing is torn apart.
<1>6. ASSUME NEW k \in Over(M), k = a - 1 PROVE AsFamily(M, a, B)
  BY <1>3, <1>6 DEF Fitting
<1>7. ASSUME NEW k \in Over(M), Within(M, k) PROVE k + 1 \in Over(M) /\ h[k + 1] = h[k] + 1
  <2>1. k + 1 \in Over(M) /\ k # Len(M) /\ M[k + 1].depth > 0
    BY <1>7, OverNext DEF Within
  <2>2. CASE k = a - 1
    <3>1. AsFamily(M, a, B) /\ k + 1 = a
      BY <1>1, <1>6, <2>2
    <3> QED BY <1>1, <2>1, <2>2, <3>1 DEF AsFamily
  <2>3. CASE k # a - 1
    <3>1. k + 1 \in 1..Len(M) /\ k \in 1..Len(M)
      BY <1>3, <2>1
    <3>2. (k < a <=> k + 1 < a) /\ (k + b) + 1 = (k + 1) + b
      BY <1>1, <2>3, <3>1
    <3> QED BY <1>3, <2>1, <3>2
  <2> QED BY <2>2, <2>3
<1>8. ASSUME NEW k \in Over(M), ~Within(M, k) PROVE ~Within(N, h[k])
  <2>1. k \in 1..Len(M) /\ (k = Len(M) \/ ~(M[k + 1].depth > 0))
    BY <1>3, <1>8 DEF Within
  <2>2. CASE k = a - 1
    <3>1. h[k] = k /\ k + 1 = a /\ B[1].depth = 0
      BY <1>1, <1>3, <1>6, <2>2 DEF AsFamily
    <3> QED BY <1>1, <3>1 DEF Within
  <2>3. CASE k < a - 1
    <3>1. h[k] = k /\ k + 1 \in 1..a - 1 /\ k # Len(M)
      BY <1>1, <1>3, <2>1, <2>3
    <3> QED BY <1>1, <2>1, <3>1 DEF Within
  <2>4. CASE k > a - 1
    <3>1. h[k] = k + b /\ k \in a..Len(M)
      BY <1>1, <1>3, <2>1, <2>4
    <3>2. CASE k = Len(M)
      BY <1>1, <3>1, <3>2 DEF Within
    <3>3. CASE k # Len(M)
      <4>1. k + 1 \in a..Len(M) /\ (k + 1) + b = (k + b) + 1
        BY <1>1, <3>1, <3>3
      <4> QED BY <1>1, <2>1, <3>1, <3>3, <4>1 DEF Within
    <3> QED BY <3>2, <3>3
  <2> QED BY <1>1, <2>1, <2>2, <2>3, <2>4
<1>9. Carries(M, N, h)
  BY <1>3, <1>4, <1>5, <1>7, <1>8 DEF Carries
<1> QED BY <1>9 DEF PastIn

LEMMA CutPast ==
  ASSUME NEW M, Section(M), NEW B \in Seq(RawLine), B # <<>>, NEW a \in 1..Len(M) + 1,
         AsFamily(M, a, B) \/ AsPart(M, a, B), Lives("done", M, a, B),
         NEW N, Section(N), Joined(M, a, B, N)
  PROVE  PastIn(N, M)
<1> DEFINE b == Len(B)  h == [k \in Over(N) |-> IF k < a THEN k ELSE k - b]
<1>1. /\ Len(M) \in Nat /\ b \in Nat \ {0} /\ a \in Nat \ {0} /\ Len(N) = Len(M) + b
      /\ \A k \in 1..a - 1 : N[k] = M[k]
      /\ \A k \in a..Len(M) : N[k + b] = M[k]
      /\ N[a] = B[1]
  <2>1. /\ Len(M) \in Nat /\ b \in Nat \ {0} /\ a \in Nat \ {0} /\ Len(N) = Len(M) + b
        /\ \A k \in 1..a - 1 : N[k] = M[k]
        /\ \A k \in 1..b : N[a - 1 + k] = B[k]
        /\ \A k \in a..Len(M) : N[k + b] = M[k]
    BY LineTyped, EmptySeq DEF Section, Joined
  <2>2. 1 \in 1..b /\ a - 1 + 1 = a
    BY <2>1
  <2> QED BY <2>1, <2>2
<1>2. /\ \A k \in 1..a - 1 : Alive("done", N, k) <=> Alive("done", M, k)
      /\ \A k \in 1..b : Alive("done", N, a - 1 + k)
      /\ \A k \in a..Len(M) : Alive("done", N, k + b) <=> Alive("done", M, k)
  BY JoinedAlive
<1> HIDE DEF b
<1>3. ASSUME NEW k \in Over(N)
      PROVE  /\ k \in 1..Len(N) /\ ~Alive("done", N, k)
             /\ k < a => k \in 1..a - 1 /\ h[k] = k
             /\ ~(k < a) => k - b \in a..Len(M) /\ h[k] = k - b /\ (k - b) + b = k
             /\ h[k] \in Over(M) /\ M[h[k]] = N[k]
  <2>1. k \in 1..Len(N) /\ ~Alive("done", N, k)
    BY DEF Over
  <2>2. CASE k < a
    BY <1>1, <1>2, <2>1, <2>2 DEF Over
  <2>3. CASE ~(k < a)
    <3>1. k - b \in a..Len(M) /\ (k - b) + b = k
      <4> SUFFICES ASSUME k \in a..a - 1 + b PROVE FALSE
        BY <1>1, <2>1, <2>3
      <4>1. k - (a - 1) \in 1..b /\ a - 1 + (k - (a - 1)) = k
        BY <1>1
      <4> QED BY <1>2, <2>1, <4>1
    <3>2. M[k - b] = N[k] /\ ~Alive("done", M, k - b)
      BY <1>1, <1>2, <2>1, <3>1
    <3>3. k - b \in Over(M)
      BY <1>1, <3>1, <3>2 DEF Over
    <3> QED BY <2>1, <2>3, <3>1, <3>2, <3>3
  <2> QED BY <2>1, <2>2, <2>3
<1>4. h \in [Over(N) -> Over(M)]
  BY <1>3
<1> HIDE DEF h
<1>5. \A k, m \in Over(N) : h[k] = h[m] => k = m
  BY <1>1, <1>3
<1>6. ASSUME NEW k \in Over(N), k = a - 1
      PROVE  /\ B[1].depth = 0
             /\ a = Len(M) + 1 \/ M[a].depth = 0
  <2>1. ~AsPart(M, a, B)
    <3> SUFFICES ASSUME AsPart(M, a, B) PROVE FALSE
      OBVIOUS
    <3>1. B[1].depth > 0
      BY <1>1 DEF AsPart, b
    <3>2. Alive("done", M, a - 1)
      BY <3>1 DEF Lives
    <3> QED BY <1>1, <1>2, <1>3, <1>6, <3>2
  <2> QED BY <2>1 DEF AsFamily
<1>7. ASSUME NEW k \in Over(N), Within(N, k) PROVE k + 1 \in Over(N) /\ h[k + 1] = h[k] + 1
  <2>1. k + 1 \in Over(N) /\ N[k + 1].depth > 0
    BY <1>7, OverNext DEF Within
  <2>2. k # a - 1
    <3> SUFFICES ASSUME k = a - 1 PROVE FALSE
      OBVIOUS
    <3>1. B[1].depth = 0 /\ k + 1 = a
      BY <1>1, <1>6
    <3> QED BY <1>1, <2>1, <3>1
  <2>3. k + 1 \in 1..Len(N) /\ k \in 1..Len(N)
    BY <1>3, <2>1
  <2>4. (k < a <=> k + 1 < a) /\ (k - b) + 1 = (k + 1) - b
    BY <1>1, <2>2, <2>3
  <2> QED BY <1>3, <2>1, <2>4
<1>8. ASSUME NEW k \in Over(N), ~Within(N, k) PROVE ~Within(M, h[k])
  <2>1. k \in 1..Len(N) /\ (k = Len(N) \/ ~(N[k + 1].depth > 0))
    BY <1>3, <1>8 DEF Within
  <2>2. CASE k = a - 1
    <3>1. h[k] = k /\ k + 1 = a
      BY <1>1, <1>3, <2>2
    <3>2. k = Len(M) \/ M[k + 1].depth = 0
      BY <1>1, <1>6, <2>2, <3>1
    <3> QED BY <3>1, <3>2 DEF Within
  <2>3. CASE k < a - 1
    <3>1. h[k] = k /\ k + 1 \in 1..a - 1 /\ k # Len(N)
      BY <1>1, <1>3, <2>1, <2>3
    <3> QED BY <1>1, <2>1, <3>1 DEF Within
  <2>4. CASE k > a - 1
    <3>1. h[k] = k - b /\ k - b \in a..Len(M) /\ (k - b) + b = k
      BY <1>1, <1>3, <2>1, <2>4
    <3>2. CASE k = Len(N)
      <4>1. k - b = Len(M)
        BY <1>1, <3>2
      <4> QED BY <3>1, <4>1 DEF Within
    <3>3. CASE k # Len(N)
      <4>1. (k - b) + 1 \in a..Len(M) /\ ((k - b) + 1) + b = k + 1
        BY <1>1, <2>1, <3>1, <3>3
      <4> QED BY <1>1, <2>1, <3>1, <3>3, <4>1 DEF Within
    <3> QED BY <3>2, <3>3
  <2> QED BY <1>1, <2>1, <2>2, <2>3, <2>4
<1>9. Carries(N, M, h)
  BY <1>3, <1>4, <1>5, <1>7, <1>8 DEF Carries
<1> QED BY <1>9 DEF PastIn

\* A line outside may be written anew.
LEMMA RewrittenPast ==
  ASSUME NEW L, Section(L), NEW X, Len(X) = Len(L),
         \A k \in 1..Len(L) : /\ X[k].depth = L[k].depth
                              /\ Alive("done", X, k) <=> Alive("done", L, k)
                              /\ ~Alive("done", L, k) => X[k] = L[k]
  PROVE  PastIn(L, X)
<1> DEFINE h == [k \in Over(L) |-> k]
<1>1. \A k \in Over(L) : h[k] = k /\ k \in 1..Len(L) /\ k \in Over(X) /\ X[k] = L[k]
  BY DEF Over
<1>2. \A k \in Over(L) : Within(L, k) => k + 1 \in Over(L)
  BY OverNext
<1>3. h \in [Over(L) -> Over(X)]
  BY <1>1
<1> HIDE DEF h
<1>4. ASSUME NEW k \in Over(L) PROVE Within(X, k) <=> Within(L, k)
  <2>1. Len(L) \in Nat /\ k \in 1..Len(L)
    BY <1>1, LineTyped DEF Section
  <2>2. k # Len(L) => k + 1 \in 1..Len(L)
    BY <2>1
  <2> QED BY <2>2 DEF Within
<1>5. Carries(L, X, h)
  BY <1>1, <1>2, <1>3, <1>4 DEF Carries
<1> QED BY <1>5 DEF PastIn

-----------------------------------------------------------------------------
(* Files *)

FileOk(F) == F \in [Sections -> Seq(RawLine)] /\ \A s \in Sections : Rooted(F[s])

SaidIn(F) == UNION {Said(F[s]) : s \in Sections}
HeldIn(F) == UNION {Held(s, F[s]) : s \in Sections}

OnceIn(F) ==
  /\ \A s \in Sections : Once(s, F[s])
  /\ \A s, t \in Sections : s # t => Held(s, F[s]) \cap Held(t, F[t]) = {}

\* What is over in F is over in H.
Past(F, H) == PastIn(F["done"], H["done"])

\* H has what F has, and tells nothing more and nothing twice.
Keeps(F, H) ==
  /\ FileOk(H) /\ Past(F, H) /\ SaidIn(F) \subseteq SaidIn(H)
  /\ HeldIn(H) \subseteq HeldIn(F)
  /\ OnceIn(F) => OnceIn(H)

\* G is F without the block B.
Taken(F, G, B) ==
  /\ FileOk(G) /\ Past(F, G) /\ SaidIn(F) \subseteq SaidIn(G) \cup Said(B)
  /\ HeldIn(G) \subseteq HeldIn(F) /\ Said(B) \subseteq HeldIn(F)
  /\ OnceIn(F) => OnceIn(G) /\ Distinct(B) /\ HeldIn(G) \cap Said(B) = {}

\* H is G with the block B.
Given(G, H, B) ==
  /\ FileOk(H) /\ Past(G, H) /\ SaidIn(G) \cup Said(B) \subseteq SaidIn(H)
  /\ HeldIn(H) \subseteq HeldIn(G) \cup Said(B)
  /\ OnceIn(G) /\ Distinct(B) /\ HeldIn(G) \cap Said(B) = {} => OnceIn(H)

\* Blocks that say the same.
Alike(B, C) == Len(B) = Len(C) /\ \A k \in 1..Len(B) : B[k].item = C[k].item

LEMMA AlikeSays ==
  ASSUME NEW B, NEW C, Alike(B, C)
  PROVE  Said(B) = Said(C) /\ (Distinct(B) <=> Distinct(C))
  BY DEF Alike, Said, Distinct

LEMMA FileSections ==
  ASSUME NEW F, FileOk(F), NEW s \in Sections
  PROVE  Section(F[s]) /\ F[s] \in Seq(RawLine)
  BY DEF FileOk, Section

LEMMA OneSection ==
  ASSUME NEW F, FileOk(F), NEW s \in Sections, NEW X, Section(X)
  PROVE  /\ FileOk([F EXCEPT ![s] = X]) /\ [F EXCEPT ![s] = X][s] = X
         /\ \A t \in Sections : t # s => [F EXCEPT ![s] = X][t] = F[t]
  BY DEF FileOk, Section

LEMMA PastFiles ==
  ASSUME NEW F, NEW G, FileOk(G)
  PROVE  /\ Past(G, G)
         /\ \A H : Past(F, G) /\ Past(G, H) => Past(F, H)
<1>1. "done" \in Sections
  BY DEF Sections
<1>2. Section(G["done"]) /\ G["done"] \in Seq(RawLine)
  BY <1>1, FileSections
<1> QED BY <1>2, PastSelf, PastOn DEF Past

LEMMA KeepsSelf ==
  ASSUME NEW F, FileOk(F)
  PROVE  Keeps(F, F)
  BY PastFiles DEF Keeps

LEMMA KeepsOn ==
  ASSUME NEW F, NEW G, NEW H, Keeps(F, G), Keeps(G, H)
  PROVE  Keeps(F, H)
<1>1. Past(F, H)
  BY PastFiles DEF Keeps
<1> QED BY <1>1 DEF Keeps

LEMMA TakenGiven ==
  ASSUME NEW F, NEW G, NEW H, NEW B, NEW C, Taken(F, G, B), Given(G, H, C), Alike(B, C)
  PROVE  Keeps(F, H)
<1>1. Said(B) = Said(C) /\ (Distinct(B) <=> Distinct(C))
  BY AlikeSays
<1>2. Past(F, H)
  BY PastFiles DEF Taken, Given
<1> QED BY <1>1, <1>2 DEF Taken, Given, Keeps

LEMMA Takes ==
  ASSUME NEW F, FileOk(F), NEW s \in Sections, NEW i \in 1..Len(F[s]), Alive(s, F[s], i)
  PROVE  Taken(F, [F EXCEPT ![s] = Cut(F[s], i)], Block(F[s], i))
<1> DEFINE L == F[s]  M == Cut(L, i)  B == Block(L, i)  G == [F EXCEPT ![s] = M]
<1>1. Section(L) /\ L \in Seq(RawLine)
  BY FileSections
<1>2. /\ M \in Seq(RawLine) /\ i \in 1..Len(M) + 1 /\ Joined(M, i, B, L)
      /\ B \in Seq(RawLine) /\ B # <<>>
  BY <1>1, CutLines, BlockLines
<1>3. Section(M) /\ (AsFamily(M, i, B) \/ AsPart(M, i, B)) /\ Lives(s, M, i, B)
  BY <1>1, CutSection
<1>4. FileOk(G) /\ G[s] = M /\ \A t \in Sections : t # s => G[t] = F[t]
  BY <1>3, OneSection
<1> HIDE DEF L, M, B, G
<1>5. /\ Said(L) = Said(M) \cup Said(B)
      /\ Held(s, L) = Held(s, M) \cup (IF Lives(s, M, i, B) THEN Said(B) ELSE {})
      /\ Once(s, L) <=> /\ Once(s, M)
                        /\ Lives(s, M, i, B) => Distinct(B) /\ Held(s, M) \cap Said(B) = {}
  BY <1>2, <1>3, JoinedHolds
<1>6. Held(s, L) = Held(s, M) \cup Said(B)
  BY <1>3, <1>5
<1>7. L = F[s]
  BY DEF L
<1>8. SaidIn(F) \subseteq SaidIn(G) \cup Said(B)
  BY <1>4, <1>5, <1>7 DEF SaidIn
<1>9. HeldIn(G) \subseteq HeldIn(F) /\ Said(B) \subseteq HeldIn(F)
  BY <1>4, <1>6, <1>7 DEF HeldIn
<1>10. ASSUME OnceIn(F) PROVE OnceIn(G) /\ Distinct(B) /\ HeldIn(G) \cap Said(B) = {}
  <2>1. Once(s, M) /\ Distinct(B) /\ Held(s, M) \cap Said(B) = {}
    BY <1>3, <1>5, <1>7, <1>10 DEF OnceIn
  <2>2. \A t \in Sections : Once(t, G[t])
    BY <1>4, <1>10, <2>1 DEF OnceIn
  <2>3. \A t \in Sections : Held(t, G[t]) \subseteq Held(t, F[t])
    BY <1>4, <1>6, <1>7
  <2>4. \A t, u \in Sections : t # u => Held(t, G[t]) \cap Held(u, G[u]) = {}
    <3>1. \A t, u \in Sections : t # u => Held(t, F[t]) \cap Held(u, F[u]) = {}
      BY <1>10 DEF OnceIn
    <3> QED BY <2>3, <3>1
  <2>5. \A t \in Sections : Held(t, G[t]) \cap Said(B) = {}
    <3>1. \A t \in Sections : t # s => Held(t, F[t]) \cap Held(s, F[s]) = {}
      BY <1>10 DEF OnceIn
    <3> QED BY <1>4, <1>6, <1>7, <2>1, <3>1
  <2> QED BY <2>1, <2>2, <2>4, <2>5 DEF OnceIn, HeldIn
<1>11. Past(F, G)
  <2>1. CASE s = "done"
    <3>1. PastIn(L, M)
      BY <1>1, <1>2, <1>3, <2>1, CutPast
    <3> QED BY <1>4, <1>7, <2>1, <3>1 DEF Past
  <2>2. CASE s # "done"
    <3>1. G["done"] = F["done"] /\ Section(F["done"])
      BY <1>4, <2>2, FileSections DEF Sections
    <3> QED BY <3>1, PastSelf DEF Past
  <2> QED BY <2>1, <2>2
<1> QED BY <1>4, <1>8, <1>9, <1>10, <1>11 DEF Taken, L, M, B, G

LEMMA Gives ==
  ASSUME NEW G, FileOk(G), NEW s \in Sections, NEW B \in Seq(RawLine), B # <<>>,
         NEW a \in 1..Len(G[s]) + 1, Fitting(s, G[s], a, B)
  PROVE  /\ Given(G, [G EXCEPT ![s] = InsertedAt(G[s], a, B)], B)
         /\ ~Lives(s, G[s], a, B) => Keeps(G, [G EXCEPT ![s] = InsertedAt(G[s], a, B)])
<1> DEFINE M == G[s]  N == InsertedAt(M, a, B)  H == [G EXCEPT ![s] = N]
<1>1. Section(M) /\ M \in Seq(RawLine)
  BY FileSections
<1>2. Joined(M, a, B, N)
  BY <1>1, JoinedIs
<1>2a. M = G[s]
  OBVIOUS
<1>2b. /\ a \in 1..Len(M) + 1 /\ Fitting(s, M, a, B)
       /\ AsFamily(M, a, B) \/ AsPart(M, a, B)
  BY DEF Fitting
<1> HIDE DEF M, N
<1>3. Section(N)
  BY <1>1, <1>2, <1>2b, JoinedSection
<1>4. FileOk(H) /\ H[s] = N /\ \A t \in Sections : t # s => H[t] = G[t]
  BY <1>3, OneSection
<1> HIDE DEF H
<1>5. /\ Said(N) = Said(M) \cup Said(B)
      /\ Held(s, N) = Held(s, M) \cup (IF Lives(s, M, a, B) THEN Said(B) ELSE {})
      /\ Once(s, N) <=> /\ Once(s, M)
                        /\ Lives(s, M, a, B) => Distinct(B) /\ Held(s, M) \cap Said(B) = {}
  BY <1>1, <1>2, <1>2b, JoinedHolds
<1>6. SaidIn(G) \cup Said(B) \subseteq SaidIn(H)
  BY <1>2a, <1>4, <1>5 DEF SaidIn
<1>7. HeldIn(H) \subseteq HeldIn(G) \cup (IF Lives(s, M, a, B) THEN Said(B) ELSE {})
  <2>1. \A t \in Sections :
           Held(t, H[t]) \subseteq Held(t, G[t]) \cup (IF Lives(s, M, a, B) THEN Said(B) ELSE {})
    BY <1>2a, <1>4, <1>5
  <2> QED BY <2>1 DEF HeldIn
<1>8. ASSUME OnceIn(G), Lives(s, M, a, B) => Distinct(B) /\ HeldIn(G) \cap Said(B) = {}
      PROVE  OnceIn(H)
  <2>1. Lives(s, M, a, B) => \A t \in Sections : Held(t, G[t]) \cap Said(B) = {}
    BY <1>8 DEF HeldIn
  <2>2. \A t \in Sections : Once(t, H[t])
    BY <1>2a, <1>4, <1>5, <1>8, <2>1 DEF OnceIn
  <2>3. \A t \in Sections : t # s => Held(t, H[t]) \cap Held(s, H[s]) = {}
    <3>1. \A t \in Sections : t # s => Held(t, G[t]) \cap Held(s, G[s]) = {}
      BY <1>8 DEF OnceIn
    <3> QED BY <1>2a, <1>4, <1>5, <2>1, <3>1
  <2>4. ASSUME NEW t \in Sections, NEW u \in Sections, t # u
        PROVE  Held(t, H[t]) \cap Held(u, H[u]) = {}
    <3>1. t = s \/ u = s
      BY <2>4 DEF Sections
    <3> QED BY <2>3, <2>4, <3>1
  <2> QED BY <2>2, <2>4 DEF OnceIn
<1>8a. Past(G, H)
  <2>1. CASE s = "done"
    <3>1. PastIn(M, N)
      BY <1>1, <1>2, <1>2b, <2>1, JoinedPast
    <3> QED BY <1>2a, <1>4, <2>1, <3>1 DEF Past
  <2>2. CASE s # "done"
    <3>1. H["done"] = G["done"] /\ Section(G["done"])
      BY <1>4, <2>2, FileSections DEF Sections
    <3> QED BY <3>1, PastSelf DEF Past
  <2> QED BY <2>1, <2>2
<1>9. Given(G, H, B)
  BY <1>4, <1>6, <1>7, <1>8, <1>8a DEF Given
<1>10. ~Lives(s, M, a, B) => Keeps(G, H)
  BY <1>4, <1>6, <1>7, <1>8, <1>8a DEF Keeps
<1> QED BY <1>9, <1>10 DEF M, N, H

LEMMA IntoDoneIs ==
  ASSUME NEW F, FileOk(F), NEW B \in Seq(RawLine)
  PROVE  /\ IntoDone(F, B) = [F EXCEPT !["done"] = InsertedAt(F["done"], 1, B)]
         /\ IntoOpen(F, B) = [F EXCEPT !["open"] = InsertedAt(F["open"], Len(F["open"]) + 1, B)]
<1>1. F["done"] \in Seq(RawLine) /\ F["open"] \in Seq(RawLine)
  BY DEF FileOk, Sections
<1>2. ASSUME NEW L \in Seq(RawLine)
      PROVE  InsertedAt(L, 1, B) = B \o L /\ InsertedAt(L, Len(L) + 1, B) = L \o B
  <2>1. Len(L) \in Nat
    BY LenProperties
  <2>2. SubSeq(L, 1, 1 - 1) = <<>> /\ SubSeq(L, Len(L) + 1, Len(L)) = <<>>
    BY <2>1, SubSeqEmpty
  <2>3. SubSeq(L, 1, Len(L)) = L
    BY SubSeqFull
  <2>4. <<>> \o B = B /\ B \o L \in Seq(RawLine) /\ L \o B \in Seq(RawLine)
    BY ConcatEmptySeq, ConcatProperties
  <2>5. (L \o B) \o <<>> = L \o B
    BY <2>4, ConcatEmptySeq
  <2>6. Len(L) + 1 - 1 = Len(L)
    BY <2>1
  <2>7. InsertedAt(L, 1, B) = B \o L
    BY <2>2, <2>3, <2>4, Zenon DEF InsertedAt
  <2>8. InsertedAt(L, Len(L) + 1, B) = SubSeq(L, 1, Len(L)) \o B \o SubSeq(L, Len(L) + 1, Len(L))
    BY <2>6 DEF InsertedAt
  <2> QED BY <2>2, <2>3, <2>5, <2>7, <2>8, Zenon
<1> QED BY <1>1, <1>2 DEF IntoDone, IntoOpen

-----------------------------------------------------------------------------
(* Blocks that are written anew *)

\* Blocks that say the same with the same indentation.
SameTree(B, C) == Alike(B, C) /\ \A k \in 1..Len(B) : C[k].depth = B[k].depth

LEMMA SeqOf ==
  ASSUME NEW B \in Seq(RawLine), NEW f \in [DOMAIN B -> RawLine]
  PROVE  f \in Seq(RawLine) /\ Len(f) = Len(B)
<1>1. Len(B) \in Nat /\ DOMAIN B = 1..Len(B)
  BY LenProperties
<1>2. f \in [1..Len(B) -> RawLine]
  BY <1>1
<1>3. f \in Seq(RawLine)
  BY <1>1, <1>2, SeqDef
<1>4. Len(f) \in Nat /\ DOMAIN f = 1..Len(f) /\ DOMAIN f = 1..Len(B)
  BY <1>2, <1>3, LenProperties
<1>5. Len(f) = Len(B)
  BY <1>1, <1>4
<1> QED BY <1>3, <1>5

LEMMA StampedTree ==
  ASSUME NEW B \in Seq(RawLine), B # <<>>, NEW stamp \in BOOLEAN
  PROVE  Stamped(B, stamp) \in Seq(RawLine) /\ Stamped(B, stamp) # <<>> /\ SameTree(B, Stamped(B, stamp))
<1> DEFINE line == [B[1] EXCEPT !.stamp = stamp]
<1>1. Len(B) \in Nat \ {0} /\ 1 \in 1..Len(B) /\ B[1] \in RawLine
  BY LineTyped, EmptySeq
<1>2. line \in RawLine /\ line.item = B[1].item /\ line.depth = B[1].depth
  BY <1>1 DEF RawLine
<1>3. Stamped(B, stamp) = [B EXCEPT ![1] = line]
  BY DEF Stamped
<1> HIDE DEF line
<1>4. /\ Stamped(B, stamp) \in Seq(RawLine) /\ Len(Stamped(B, stamp)) = Len(B)
      /\ \A k \in 1..Len(B) : Stamped(B, stamp)[k] = IF k = 1 THEN line ELSE B[k]
  BY <1>1, <1>2, <1>3, ExceptSeq
<1>5. Stamped(B, stamp) # <<>>
  BY <1>1, <1>4, EmptySeq
<1> QED BY <1>2, <1>4, <1>5 DEF SameTree, Alike

LEMMA MarkedLine ==
  ASSUME BoardAssumption, NEW line \in RawLine, NEW status \in {"todo", "done"}
  PROVE  /\ Marked(line, status) \in RawLine
         /\ Marked(line, status).item = line.item /\ Marked(line, status).depth = line.depth
  BY DEF Marked, RawLine, BoardAssumption

LEMMA RebasedLines ==
  ASSUME NEW B \in Seq(RawLine), B # <<>>, NEW d \in Nat,
         \A k \in 2..Len(B) : B[k].depth > B[1].depth
  PROVE  /\ Rebased(B, d) \in Seq(RawLine) /\ Rebased(B, d) # <<>> /\ Alike(B, Rebased(B, d))
         /\ Rebased(B, d)[1].depth = d
         /\ \A k \in 2..Len(B) : Rebased(B, d)[k].depth > d
<1> DEFINE R == Rebased(B, d)
<1>1. /\ Len(B) \in Nat \ {0} /\ DOMAIN B = 1..Len(B)
      /\ \A k \in 1..Len(B) : B[k] \in RawLine /\ B[k].depth \in Nat
  BY LineTyped, EmptySeq
<1>2. \A k \in 1..Len(B) : k = 1 \/ k \in 2..Len(B)
  BY <1>1
<1>3. ASSUME NEW k \in 1..Len(B)
      PROVE  /\ (B[k].depth + d) - B[1].depth \in Nat
             /\ R[k] = [B[k] EXCEPT !.depth = (B[k].depth + d) - B[1].depth]
  <2>1. 1 \in 1..Len(B)
    BY <1>1
  <2>2. B[k].depth >= B[1].depth
    BY <1>1, <1>2, <2>1
  <2>3. R[k] = [B[k] EXCEPT !.depth = (B[k].depth + d) - B[1].depth]
    BY <1>1 DEF Rebased
  <2>4. B[k].depth \in Nat /\ B[1].depth \in Nat
    BY <1>1, <2>1
  <2>5. (B[k].depth + d) - B[1].depth \in Nat
    BY <2>2, <2>4
  <2> HIDE DEF R
  <2> QED BY <2>3, <2>5
<1>4. ASSUME NEW k \in 1..Len(B)
      PROVE  R[k] \in RawLine /\ R[k].item = B[k].item /\ R[k].depth = (B[k].depth + d) - B[1].depth
  BY <1>1, <1>3 DEF RawLine
<1>5. R \in [DOMAIN B -> RawLine]
  <2>1. R = [k \in DOMAIN B |-> R[k]]
    BY DEF Rebased
  <2> HIDE DEF R
  <2> QED BY <1>1, <1>4, <2>1
<1> HIDE DEF R
<1>6. R \in Seq(RawLine) /\ Len(R) = Len(B)
  BY <1>5, SeqOf
<1>7. R # <<>>
  BY <1>1, <1>6, EmptySeq
<1>8. R[1].depth = d
  <2>1. 1 \in 1..Len(B)
    BY <1>1
  <2> QED BY <1>1, <1>4, <2>1
<1>9. \A k \in 2..Len(B) : R[k].depth > d
  <2>1. \A k \in 2..Len(B) : k \in 1..Len(B) /\ 1 \in 1..Len(B)
    BY <1>1
  <2> QED BY <1>1, <1>4, <2>1
<1> QED BY <1>4, <1>6, <1>7, <1>8, <1>9 DEF R, Alike

LEMMA SameTreeFits ==
  ASSUME NEW M, NEW a, NEW B \in Seq(RawLine), B # <<>>, NEW C, SameTree(B, C),
         AsFamily(M, a, B) \/ AsPart(M, a, B)
  PROVE  /\ AsFamily(M, a, C) \/ AsPart(M, a, C)
         /\ AsFamily(M, a, B) => AsFamily(M, a, C)
<1>1. Len(B) \in Nat \ {0} /\ 1 \in 1..Len(B) /\ \A k \in 2..Len(B) : k \in 1..Len(B)
  BY EmptySeq
<1>2. /\ Len(B) = Len(C)
      /\ \A k \in 1..Len(B) : C[k].depth = B[k].depth /\ B[k].item = C[k].item
  BY DEF SameTree, Alike
<1> QED BY <1>1, <1>2 DEF AsFamily, AsPart, IsNote

\* A family fits at either end of a section.
LEMMA FamilyFits ==
  ASSUME NEW F, FileOk(F), NEW s \in Sections, NEW B, B[1].depth = 0, ~IsNote(B[1]),
         \A k \in 2..Len(B) : B[k].depth > 0
  PROVE  /\ 1 \in 1..Len(F[s]) + 1 /\ Len(F[s]) + 1 \in 1..Len(F[s]) + 1
         /\ AsFamily(F[s], 1, B) /\ AsFamily(F[s], Len(F[s]) + 1, B)
<1>1. F[s] \in Seq(RawLine) /\ Rooted(F[s])
  BY DEF FileOk
<1>2. Len(F[s]) \in Nat /\ (F[s] = <<>> => Len(F[s]) = 0)
  BY <1>1, LenProperties, EmptySeq
<1> QED BY <1>1, <1>2 DEF AsFamily, Rooted

\* The family of a line that is not indented.
LEMMA FamilyBlock ==
  ASSUME NEW F, FileOk(F), NEW s \in Sections, NEW i \in 1..Len(F[s]), F[s][i].depth = 0
  PROVE  /\ Block(F[s], i) \in Seq(RawLine) /\ Block(F[s], i) # <<>>
         /\ Block(F[s], i)[1] = F[s][i] /\ ~IsNote(F[s][i])
         /\ \A k \in 2..Len(Block(F[s], i)) : Block(F[s], i)[k].depth > 0
         /\ Alive(s, F[s], i) <=> ~Ended(s, F[s][i])
<1>1. F[s] \in Seq(RawLine) /\ Rooted(F[s]) /\ i \in Nat
  BY LineTyped DEF FileOk
<1>2. ~IsNote(F[s][i])
  BY <1>1 DEF Rooted
<1>3. Root(F[s], i, i) /\ i \in 1..i
  BY <1>1 DEF Root
<1>4. Alive(s, F[s], i) <=> ~Ended(s, F[s][i])
  BY <1>1, <1>3, AliveByRoot
<1>5. /\ Block(F[s], i) \in Seq(RawLine) /\ Block(F[s], i) # <<>> /\ Block(F[s], i)[1] = F[s][i]
      /\ \A k \in 2..Len(Block(F[s], i)) : Block(F[s], i)[k].depth > F[s][i].depth
  <2>1. \A L \in Seq(RawLine) : \A k \in 1..Len(L) :
           /\ Block(L, k) \in Seq(RawLine) /\ Block(L, k) # <<>> /\ Block(L, k)[1] = L[k]
           /\ \A m \in 2..Len(Block(L, k)) : Block(L, k)[m].depth > L[k].depth
    BY BlockLines
  <2> QED BY <1>1, <2>1
<1> QED BY <1>2, <1>4, <1>5

LEMMA GivesDone ==
  ASSUME NEW F, FileOk(F), NEW B \in Seq(RawLine), B # <<>>, B[1].depth = 0, ~IsNote(B[1]),
         \A k \in 2..Len(B) : B[k].depth > 0
  PROVE  /\ Given(F, IntoDone(F, B), B) /\ Given(F, IntoOpen(F, B), B)
         /\ Ended("done", B[1]) => Keeps(F, IntoDone(F, B))
<1>1. "done" \in Sections /\ "open" \in Sections
  BY DEF Sections
<1>2. /\ IntoDone(F, B) = [F EXCEPT !["done"] = InsertedAt(F["done"], 1, B)]
      /\ IntoOpen(F, B) = [F EXCEPT !["open"] = InsertedAt(F["open"], Len(F["open"]) + 1, B)]
  BY IntoDoneIs
<1>3. 1 \in 1..Len(F["done"]) + 1 /\ AsFamily(F["done"], 1, B)
  BY <1>1, FamilyFits
<1>4. Len(F["open"]) + 1 \in 1..Len(F["open"]) + 1 /\ AsFamily(F["open"], Len(F["open"]) + 1, B)
  BY <1>1, FamilyFits
<1>5. Ended("done", B[1]) => ~Lives("done", F["done"], 1, B)
  BY DEF Lives
<1>6. /\ Given(F, [F EXCEPT !["done"] = InsertedAt(F["done"], 1, B)], B)
      /\ Ended("done", B[1]) => Keeps(F, [F EXCEPT !["done"] = InsertedAt(F["done"], 1, B)])
  BY <1>1, <1>3, <1>5, Gives DEF Fitting
<1>7. Given(F, [F EXCEPT !["open"] = InsertedAt(F["open"], Len(F["open"]) + 1, B)], B)
  BY <1>1, <1>4, Gives DEF Fitting
<1> QED BY <1>2, <1>6, <1>7, Zenon

LEMMA MovedToDoneKeeps ==
  ASSUME NEW F, FileOk(F), NEW i \in 1..Len(F["open"]), F["open"][i].depth = 0
  PROVE  Keeps(F, MovedToDone(F, i))
<1> DEFINE B == Block(F["open"], i)  C == Stamped(B, TRUE)  G == [F EXCEPT !["open"] = Cut(F["open"], i)]
<1>1. "open" \in Sections
  BY DEF Sections
<1>2. /\ B \in Seq(RawLine) /\ B # <<>> /\ B[1] = F["open"][i] /\ ~IsNote(B[1])
      /\ \A k \in 2..Len(B) : B[k].depth > 0
      /\ Alive("open", F["open"], i)
  <2>1. /\ B \in Seq(RawLine) /\ B # <<>> /\ B[1] = F["open"][i] /\ ~IsNote(F["open"][i])
        /\ \A k \in 2..Len(B) : B[k].depth > 0
        /\ Alive("open", F["open"], i) <=> ~Ended("open", F["open"][i])
    BY <1>1, FamilyBlock
  <2>2. ~Ended("open", F["open"][i])
    BY DEF Ended
  <2> QED BY <2>1, <2>2
<1>3. Taken(F, G, B)
  BY <1>1, <1>2, Takes
<1>4. MovedToDone(F, i) = IntoDone(G, C)
  BY DEF MovedToDone
<1> HIDE DEF B, G
<1>5. C \in Seq(RawLine) /\ C # <<>> /\ SameTree(B, C)
  BY <1>2, StampedTree
<1>6. C[1].depth = 0 /\ ~IsNote(C[1]) /\ \A k \in 2..Len(C) : C[k].depth > 0
  <2>1. Len(B) \in Nat \ {0}
    BY <1>2, EmptySeq
  <2>2. Len(C) = Len(B) /\ \A k \in 1..Len(B) : C[k].depth = B[k].depth /\ C[k].item = B[k].item
    BY <1>5 DEF SameTree, Alike
  <2>3. 1 \in 1..Len(B) /\ \A k \in 2..Len(B) : k \in 1..Len(B)
    BY <2>1
  <2> QED BY <1>2, <2>2, <2>3 DEF IsNote
<1> HIDE DEF C
<1>7. FileOk(G)
  BY <1>3 DEF Taken
<1>8. Given(G, IntoDone(G, C), C)
  BY <1>5, <1>6, <1>7, GivesDone
<1> QED BY <1>3, <1>4, <1>5, <1>8, TakenGiven DEF SameTree

LEMMA MovedToOpenKeeps ==
  ASSUME NEW F, FileOk(F), NEW i \in 1..Len(F["done"]), F["done"][i].depth = 0,
         Alive("done", F["done"], i)
  PROVE  Keeps(F, MovedToOpen(F, i))
<1> DEFINE B == Block(F["done"], i)  C == Stamped(B, FALSE)  G == [F EXCEPT !["done"] = Cut(F["done"], i)]
<1>1. "done" \in Sections
  BY DEF Sections
<1>2. /\ B \in Seq(RawLine) /\ B # <<>> /\ B[1] = F["done"][i] /\ ~IsNote(B[1])
      /\ \A k \in 2..Len(B) : B[k].depth > 0
  BY <1>1, FamilyBlock
<1>3. Taken(F, G, B)
  BY <1>1, Takes
<1>4. MovedToOpen(F, i) = IntoOpen(G, C)
  BY DEF MovedToOpen
<1> HIDE DEF B, G
<1>5. C \in Seq(RawLine) /\ C # <<>> /\ SameTree(B, C)
  BY <1>2, StampedTree
<1>6. C[1].depth = 0 /\ ~IsNote(C[1]) /\ \A k \in 2..Len(C) : C[k].depth > 0
  <2>1. Len(B) \in Nat \ {0}
    BY <1>2, EmptySeq
  <2>2. Len(C) = Len(B) /\ \A k \in 1..Len(B) : C[k].depth = B[k].depth /\ C[k].item = B[k].item
    BY <1>5 DEF SameTree, Alike
  <2>3. 1 \in 1..Len(B) /\ \A k \in 2..Len(B) : k \in 1..Len(B)
    BY <2>1
  <2> QED BY <1>2, <2>2, <2>3 DEF IsNote
<1> HIDE DEF C
<1>7. FileOk(G)
  BY <1>3 DEF Taken
<1>8. Given(G, IntoOpen(G, C), C)
  BY <1>5, <1>6, <1>7, GivesDone
<1> QED BY <1>3, <1>4, <1>5, <1>8, TakenGiven DEF SameTree

LEMMA RecurredKeeps ==
  ASSUME BoardAssumption, NEW F, FileOk(F), NEW i \in 1..Len(F["open"]), F["open"][i].depth = 0,
         F["open"][i].item \in Recurring
  PROVE  Keeps(F, Recurred(F, i))
<1> DEFINE L == F["open"]  B == Block(L, i)  M == Cut(L, i)
           copy  == [k \in DOMAIN B |->
                       IF k = 1 THEN [B[k] EXCEPT !.status = "done", !.stamp = TRUE]
                                ELSE Marked(B[k], "done")]
           again == [k \in DOMAIN B |->
                       IF k = 1 THEN [B[k] EXCEPT !.status = "todo"] ELSE Marked(B[k], "todo")]
           G == [F EXCEPT !["open"] = M]
           H == [G EXCEPT !["open"] = InsertedAt(G["open"], i, again)]
<1>1. "open" \in Sections /\ "done" \in Sections
  BY DEF Sections
<1>2. /\ B \in Seq(RawLine) /\ B # <<>> /\ B[1] = F["open"][i] /\ ~IsNote(B[1])
      /\ \A k \in 2..Len(B) : B[k].depth > 0
      /\ Alive("open", L, i)
  <2>1. /\ B \in Seq(RawLine) /\ B # <<>> /\ B[1] = F["open"][i] /\ ~IsNote(F["open"][i])
        /\ \A k \in 2..Len(B) : B[k].depth > 0
        /\ Alive("open", F["open"], i) <=> ~Ended("open", F["open"][i])
    BY <1>1, FamilyBlock
  <2>2. ~Ended("open", F["open"][i])
    BY DEF Ended
  <2> QED BY <2>1, <2>2
<1>3. Taken(F, G, B)
  BY <1>1, <1>2, Takes
<1>4. Recurred(F, i) = IntoDone(H, copy)
  <2>1. F \in [Sections -> Seq(RawLine)]
    BY DEF FileOk
  <2>2. [F EXCEPT !["open"] = InsertedAt(Cut(L, i), i, again)] = H
    BY <1>1, <2>1
  <2>3. Recurred(F, i) = IntoDone([F EXCEPT !["open"] = InsertedAt(Cut(L, i), i, again)], copy)
    BY DEF Recurred
  <2> QED BY <2>2, <2>3
<1>5. G["open"] = M
  BY <1>1 DEF FileOk
<1>6. /\ i \in 1..Len(M) + 1
      /\ AsFamily(M, i, B) \/ AsPart(M, i, B)
  BY <1>1, FileSections, CutLines, CutSection
<1>7. Len(B) \in Nat \ {0} /\ DOMAIN B = 1..Len(B) /\ \A k \in 1..Len(B) : B[k] \in RawLine
  BY <1>2, LineTyped, EmptySeq
<1>7a. B[1].item \in Recurring /\ B[1].depth = 0
  BY <1>2
<1> HIDE DEF L, B, M
<1>8. ASSUME NEW k \in 1..Len(B)
      PROVE  /\ copy[k] \in RawLine /\ copy[k].item = B[k].item /\ copy[k].depth = B[k].depth
             /\ again[k] \in RawLine /\ again[k].item = B[k].item /\ again[k].depth = B[k].depth
             /\ k = 1 => copy[k].stamp
  <2>1. CASE k = 1
    BY <1>7, <2>1 DEF RawLine, BoardAssumption
  <2>2. CASE k # 1
    <3>1. copy[k] = Marked(B[k], "done") /\ again[k] = Marked(B[k], "todo")
      BY <1>7, <2>2
    <3> QED BY <1>7, <2>2, <3>1, MarkedLine
  <2> QED BY <2>1, <2>2
<1>9. copy \in [DOMAIN B -> RawLine] /\ again \in [DOMAIN B -> RawLine]
  <2>1. copy = [k \in DOMAIN B |-> copy[k]] /\ again = [k \in DOMAIN B |-> again[k]]
    OBVIOUS
  <2> HIDE DEF copy, again
  <2> QED BY <1>7, <1>8, <2>1
<1> HIDE DEF copy, again, G, H
<1>10. /\ copy \in Seq(RawLine) /\ Len(copy) = Len(B) /\ copy # <<>>
       /\ again \in Seq(RawLine) /\ Len(again) = Len(B) /\ again # <<>>
  <2>1. /\ copy \in Seq(RawLine) /\ Len(copy) = Len(B)
        /\ again \in Seq(RawLine) /\ Len(again) = Len(B)
    BY <1>2, <1>9, SeqOf
  <2> QED BY <1>7, <2>1, EmptySeq
<1>11. SameTree(B, again)
  BY <1>8, <1>10 DEF SameTree, Alike
<1>12. FileOk(G)
  BY <1>3 DEF Taken
<1>13. Given(G, H, again)
  <2>1. ~AsPart(M, i, B)
    BY <1>7, <1>7a DEF AsPart
  <2>2. AsFamily(M, i, again)
    BY <1>2, <1>6, <1>11, <2>1, SameTreeFits
  <2>3. Fitting("open", M, i, again)
    BY <2>2 DEF Fitting
  <2> QED BY <1>1, <1>5, <1>6, <1>10, <1>12, <2>3, Gives DEF H
<1>14. Keeps(F, H)
  BY <1>3, <1>11, <1>13, TakenGiven DEF SameTree
<1>15. Keeps(H, IntoDone(H, copy))
  <2>1. 1 \in 1..Len(B) /\ \A k \in 2..Len(copy) : k \in 1..Len(B) /\ k \in 2..Len(B)
    BY <1>7, <1>10
  <2>2. copy[1].depth = 0 /\ ~IsNote(copy[1]) /\ \A k \in 2..Len(copy) : copy[k].depth > 0
    BY <1>2, <1>7a, <1>8, <2>1 DEF IsNote
  <2>3. Ended("done", copy[1])
    BY <1>7a, <1>8, <2>1 DEF Ended
  <2>4. FileOk(H)
    BY <1>14 DEF Keeps
  <2> QED BY <1>10, <2>2, <2>3, <2>4, GivesDone
<1> QED BY <1>4, <1>14, <1>15, KeepsOn

-----------------------------------------------------------------------------
(* The status of a line, and what follows from it *)

LEMMA StatusLines ==
  ASSUME NEW s, NEW L, Section(L), NEW X \in Seq(RawLine), SameTree(L, X),
         \A k \in 1..Len(L) : X[k].stamp = L[k].stamp
  PROVE  /\ Section(X) /\ Said(X) = Said(L) /\ Held(s, X) = Held(s, L)
         /\ Once(s, L) => Once(s, X)
         /\ \A k \in 1..Len(L) : Alive(s, X, k) <=> Alive(s, L, k)
<1>1. Len(L) \in Nat /\ L \in Seq(RawLine)
  BY LineTyped DEF Section
<1>2. /\ Len(X) = Len(L)
      /\ \A k \in 1..Len(L) : /\ X[k].item = L[k].item /\ X[k].depth = L[k].depth
                              /\ X[k].stamp = L[k].stamp
  BY DEF SameTree, Alike
<1>3. Section(X)
  <2>1. X # <<>> => L # <<>> /\ 1 \in 1..Len(L)
    BY <1>1, <1>2, EmptySeq
  <2> QED BY <1>2, <2>1 DEF Section, Rooted, IsNote
<1>4. ASSUME NEW k \in 1..Len(L) PROVE Alive(s, X, k) <=> Alive(s, L, k)
  <2>0. \A r \in 1..k : r \in 1..Len(L) /\ \A m \in r + 1..k : m \in 1..Len(L)
    BY <1>1
  <2>1. \A r \in 1..k : Root(X, r, k) <=> Root(L, r, k)
    BY <1>2, <2>0 DEF Root
  <2>2. \A r \in 1..k : Ended(s, X[r]) <=> Ended(s, L[r])
    BY <1>2, <2>0 DEF Ended
  <2> QED BY <2>1, <2>2 DEF Alive
<1>5. Said(X) = Said(L)
  BY <1>2 DEF Said
<1>6. Held(s, X) = Held(s, L)
  BY <1>2, <1>4 DEF Held
<1>7. Once(s, L) => Once(s, X)
  BY <1>2, <1>4 DEF Once
<1> QED BY <1>3, <1>4, <1>5, <1>6, <1>7

LEMMA StatusKeeps ==
  ASSUME NEW F, FileOk(F), NEW s \in Sections, NEW i \in 1..Len(F[s]), Alive(s, F[s], i),
         NEW status \in Statuses
  PROVE  LET G == [F EXCEPT ![s][i].status = status] IN
         /\ Keeps(F, G) /\ Len(G[s]) = Len(F[s])
         /\ G[s][i].item = F[s][i].item
         /\ Alive(s, G[s], i) <=> Alive(s, F[s], i)
<1> DEFINE L == F[s]  line == [L[i] EXCEPT !.status = status]  X == [L EXCEPT ![i] = line]
           G == [F EXCEPT ![s] = X]
<1>1. Section(L) /\ L \in Seq(RawLine) /\ Len(L) \in Nat /\ i \in 1..Len(L)
  BY FileSections, LineTyped
<1>2. L[i] \in RawLine
  BY <1>1, LineTyped
<1>3. line \in RawLine /\ line.item = L[i].item /\ line.depth = L[i].depth /\ line.stamp = L[i].stamp
  BY <1>2 DEF RawLine
<1>4. [F EXCEPT ![s][i].status = status] = G
  OBVIOUS
<1>4a. L = F[s]
  OBVIOUS
<1> HIDE DEF line, L
<1>5. /\ X \in Seq(RawLine) /\ Len(X) = Len(L)
      /\ \A k \in 1..Len(L) : X[k] = IF k = i THEN line ELSE L[k]
  BY <1>1, <1>3, ExceptSeq
<1> HIDE DEF X
<1>6. SameTree(L, X) /\ \A k \in 1..Len(L) : X[k].stamp = L[k].stamp
  BY <1>3, <1>5 DEF SameTree, Alike
<1>7. /\ Section(X)
      /\ \A t \in Sections : /\ Said(X) = Said(L) /\ Held(t, X) = Held(t, L)
                             /\ Once(t, L) => Once(t, X)
      /\ \A k \in 1..Len(L) : Alive(s, X, k) <=> Alive(s, L, k)
  BY <1>1, <1>5, <1>6, StatusLines
<1>8. FileOk(G) /\ G[s] = X /\ \A t \in Sections : t # s => G[t] = F[t]
  BY <1>7, OneSection
<1> HIDE DEF G
<1>9. \A t \in Sections : /\ Said(G[t]) = Said(F[t]) /\ Held(t, G[t]) = Held(t, F[t])
                          /\ Once(t, F[t]) => Once(t, G[t])
  BY <1>4a, <1>7, <1>8
<1>10. Keeps(F, G)
  <2>1. SaidIn(F) = SaidIn(G) /\ HeldIn(F) = HeldIn(G)
    BY <1>9 DEF SaidIn, HeldIn
  <2>2. OnceIn(F) => OnceIn(G)
    BY <1>9 DEF OnceIn
  <2>3. CASE s = "done"
    <3>1. \A k \in 1..Len(L) : ~Alive(s, L, k) => X[k] = L[k]
      BY <1>4a, <1>5
    <3>2. \A k \in 1..Len(L) : X[k].depth = L[k].depth
      BY <1>6 DEF SameTree
    <3>3. PastIn(L, X)
      BY <1>1, <1>5, <1>7, <2>3, <3>1, <3>2, RewrittenPast
    <3> QED BY <1>4a, <1>8, <2>1, <2>2, <2>3, <3>3 DEF Keeps, Past
  <2>4. CASE s # "done"
    <3>1. G["done"] = F["done"] /\ Section(F["done"])
      BY <1>8, <2>4, FileSections DEF Sections
    <3>2. PastIn(F["done"], G["done"])
      BY <3>1, PastSelf
    <3> QED BY <1>8, <2>1, <2>2, <3>2 DEF Keeps, Past
  <2> QED BY <2>3, <2>4
<1>11. X[i].item = L[i].item
  BY <1>1, <1>3, <1>5
<1> QED BY <1>1, <1>4, <1>4a, <1>5, <1>7, <1>8, <1>10, <1>11

LEMMA SettledKeeps ==
  ASSUME BoardAssumption, NEW F, FileOk(F), NEW s \in Sections, NEW i \in 1..Len(F[s]),
         Alive(s, F[s], i), NEW was
  PROVE  Keeps(F, Settled(F, s, i, was))
<1> DEFINE top == TopOf(F[s], i)
<1>1. Section(F[s]) /\ Len(F[s]) \in Nat
  BY FileSections, LineTyped
<1>2. top \in 1..i /\ Root(F[s], top, i) /\ F[s][top].depth = 0
  BY <1>1, TopIsRoot
<1> HIDE DEF top
<1>3. top \in 1..Len(F[s])
  BY <1>1, <1>2
<1>4. Alive(s, F[s], top)
  <2>1. Root(F[s], top, top) /\ top \in 1..top
    BY <1>1, <1>2 DEF Root
  <2>2. Alive(s, F[s], top) <=> ~Ended(s, F[s][top])
    BY <1>2, <2>1, AliveByRoot
  <2>3. Alive(s, F[s], i) <=> ~Ended(s, F[s][top])
    BY <1>1, <1>2, AliveByRoot
  <2> QED BY <2>2, <2>3
<1>5. CASE s = "open" /\ F[s][i].status = "done" /\ IsPending(F[s], i)
  <2>1. F[s][i].depth = 0
    BY <1>1, <1>5, TopIsRoot DEF IsPending
  <2>2. F[s][i].item \in Recurring
    BY <1>5 DEF IsPending
  <2>3. Keeps(F, Recurred(F, i))
    BY <1>5, <2>1, <2>2, RecurredKeeps
  <2> QED BY <1>5, <2>3 DEF Settled
<1>6. CASE s = "open" /\ ~(F[s][i].status = "done" /\ IsPending(F[s], i))
  <2>1. Keeps(F, MovedToDone(F, top))
    BY <1>2, <1>3, <1>6, MovedToDoneKeeps
  <2>2. Settled(F, s, i, was) = MovedToDone(F, top) \/ Settled(F, s, i, was) = F
    BY <1>6 DEF Settled, top
  <2> QED BY <2>1, <2>2, KeepsSelf
<1>7. CASE s = "done"
  <2>1. Keeps(F, MovedToOpen(F, top))
    BY <1>2, <1>3, <1>4, <1>7, MovedToOpenKeeps
  <2>2. Settled(F, s, i, was) = MovedToOpen(F, top) \/ Settled(F, s, i, was) = F
    BY <1>7 DEF Settled, top
  <2> QED BY <2>1, <2>2, KeepsSelf
<1> QED BY <1>5, <1>6, <1>7 DEF Sections

-----------------------------------------------------------------------------
(* Blocks below a line *)

\* The lines of a block are as live as its first.
LEMMA BlockAlive ==
  ASSUME NEW s, NEW L, Section(L), NEW i \in 1..Len(L), NEW k \in i..BlockEnd(L, i)
  PROVE  /\ k \in 1..Len(L) /\ (L[i].depth > 0 => L[k].depth > 0)
         /\ Alive(s, L, k) <=> Alive(s, L, i)
<1>1. L \in Seq(RawLine) /\ Len(L) \in Nat /\ i \in Nat \ {0} /\ \A m \in 1..Len(L) : L[m].depth \in Nat
  BY LineTyped DEF Section
<1>2. BlockEnd(L, i) \in i..Len(L) /\ BlockEnd(L, i) \in Nat /\ \A m \in i + 1..BlockEnd(L, i) : L[m].depth > L[i].depth
  BY <1>1, BlockEnds DEF IsEnd
<1>3. k \in 1..Len(L) /\ k \in Nat
  BY <1>1, <1>2
<1>4. \A m \in i + 1..k : L[m].depth > 0
  <2>1. \A m \in i + 1..k : m \in i + 1..BlockEnd(L, i) /\ m \in 1..Len(L)
    BY <1>1, <1>2, <1>3
  <2> QED BY <1>1, <1>2, <2>1
<1>5. L[i].depth > 0 => L[k].depth > 0
  <2>1. k = i \/ k \in i + 1..k
    BY <1>1, <1>3
  <2> QED BY <1>4, <2>1
<1>6. PICK r \in 1..i : Root(L, r, i)
  BY RootExists
<1>7. Root(L, r, k) /\ r \in 1..k
  <2>1. \A m \in r + 1..k : m \in r + 1..i \/ m \in i + 1..k
    BY <1>1, <1>3
  <2>2. r \in 1..k
    BY <1>1, <1>3
  <2> QED BY <1>4, <1>6, <2>1, <2>2 DEF Root
<1>8. Alive(s, L, k) <=> ~Ended(s, L[r])
  BY <1>3, <1>7, AliveByRoot
<1>9. Alive(s, L, i) <=> ~Ended(s, L[r])
  BY <1>1, <1>6, AliveByRoot
<1> QED BY <1>3, <1>5, <1>8, <1>9

LEMMA UnderGiven ==
  ASSUME NEW F, FileOk(F), NEW s \in Sections, NEW i \in 1..Len(F[s]), NEW B \in Seq(RawLine), B # <<>>
  PROVE  /\ Alive(s, F[s], i) /\ (\A k \in 1..Len(B) : B[k].depth > 0)
            => Given(F, [F EXCEPT ![s] = Under(F[s], i, B)], B)
         /\ /\ F[s][i].depth = 0 /\ B[1].depth = 0 /\ ~IsNote(B[1])
            /\ \A k \in 2..Len(B) : B[k].depth > 0
            => Given(F, [F EXCEPT ![s] = Under(F[s], i, B)], B)
<1> DEFINE L == F[s]  a == BlockEnd(L, i) + 1
<1>1. L \in Seq(RawLine) /\ Len(L) \in Nat /\ \A k \in 1..Len(L) : L[k].depth \in Nat
  BY FileSections, LineTyped
<1>2. IsEnd(L, i, BlockEnd(L, i))
  BY <1>1, BlockEnds
<1>3. a \in 1..Len(L) + 1 /\ a > 1 /\ (a = Len(L) + 1 \/ (a \in 1..Len(L) /\ L[a].depth <= L[i].depth))
  <2>1. /\ BlockEnd(L, i) \in i..Len(L)
        /\ BlockEnd(L, i) = Len(L) \/ L[a].depth <= L[i].depth
    BY <1>2 DEF IsEnd
  <2>2. i \in Nat \ {0} /\ BlockEnd(L, i) \in Nat
    BY <1>1, <2>1
  <2>3. a \in Nat /\ a > 1 /\ a <= Len(L) + 1
    BY <1>1, <2>1, <2>2
  <2>4. a \in 1..Len(L) + 1 /\ (a # Len(L) + 1 => a \in 1..Len(L))
    <3>1. Len(L) \in Nat
      BY <1>1
    <3> HIDE DEF a, L
    <3> QED BY <2>3, <3>1
  <2>5. BlockEnd(L, i) = Len(L) => a = Len(L) + 1
    OBVIOUS
  <2> HIDE DEF a
  <2> QED BY <2>1, <2>3, <2>4, <2>5
<1>4. Under(L, i, B) = InsertedAt(L, a, B)
  BY DEF Under
<1>5. L[i].depth = 0 => a = Len(L) + 1 \/ L[a].depth = 0
  BY <1>1, <1>3
<1>5a. Alive(s, L, a - 1) <=> Alive(s, L, i)
  <2>1. Section(L)
    BY FileSections
  <2>2. BlockEnd(L, i) \in i..BlockEnd(L, i) /\ a - 1 = BlockEnd(L, i)
    BY <1>1, <1>2 DEF IsEnd
  <2> QED BY <2>1, <2>2, BlockAlive
<1>6. Fitting(s, L, a, B) => Given(F, [F EXCEPT ![s] = InsertedAt(L, a, B)], B)
  BY <1>3, Gives
<1> HIDE DEF a
<1> QED BY <1>3, <1>4, <1>5, <1>5a, <1>6 DEF Fitting, AsFamily, AsPart

LEMMA IndentDeep ==
  ASSUME NEW L \in Seq(RawLine), NEW i \in 1..Len(L)
  PROVE  ChildIndent(L, i) \in Nat \ {0} /\ NoteIndent(L, i) \in Nat \ {0}
<1>1. Len(L) \in Nat /\ i \in Nat /\ \A k \in 1..Len(L) : L[k].depth \in Nat
  BY LineTyped
<1>2. IsEnd(L, i, BlockEnd(L, i))
  BY BlockEnds
<1>3. ASSUME NEW T PROVE IndentFor(L, i, T) \in Nat \ {0}
  <2>1. \A d \in Depths(L, i, T) : d \in Nat \ {0}
    <3>1. \A k \in i + 1..BlockEnd(L, i) : L[k].depth \in Nat \ {0}
      BY <1>1, <1>2 DEF IsEnd
    <3> QED BY <3>1 DEF Depths
  <2>2. CASE Depths(L, i, T) # {}
    <3>1. Depths(L, i, T) \in SUBSET Nat
      BY <2>1
    <3>2. PICK m \in Depths(L, i, T) : \A d \in Depths(L, i, T) : m <= d
      BY <2>2, <3>1, Least
    <3>3. Min(Depths(L, i, T)) = m
      BY <3>1, <3>2, MinIs
    <3> QED BY <2>1, <2>2, <3>2, <3>3 DEF IndentFor
  <2>3. CASE Depths(L, i, T) = {}
    BY <1>1, <2>3 DEF IndentFor
  <2> QED BY <2>2, <2>3
<1> QED BY <1>3 DEF ChildIndent, NoteIndent

LEMMA OneLine ==
  ASSUME NEW line \in RawLine, NEW B, B = <<line>>
  PROVE  /\ B \in Seq(RawLine) /\ B # <<>> /\ Len(B) = 1 /\ B[1] = line
         /\ Said(B) = {line.item} /\ Distinct(B)
<1>1. B \in Seq(RawLine) /\ B # <<>> /\ Len(B) = 1 /\ B[1] = line
  OBVIOUS
<1>2. \A k \in 1..1 : k = 1
  OBVIOUS
<1>3. 1 \in 1..1
  OBVIOUS
<1>4. Said(B) = {line.item}
  BY <1>1, <1>2, <1>3 DEF Said
<1>5. Distinct(B)
  BY <1>1, <1>2 DEF Distinct
<1> QED BY <1>1, <1>4, <1>5

-----------------------------------------------------------------------------
(* The sweep *)

LEMMA SweepStepKeeps ==
  ASSUME BoardAssumption, NEW F, FileOk(F)
  PROVE  Keeps(F, SweepStep(F))
<1> DEFINE L == F["open"]
           pending == {i \in DOMAIN L : IsPending(L, i)}
           over    == {i \in DOMAIN L : IsTop(L, i) /\ ~IsPending(L, i) /\ Finished(L, i)}
<1>1. "open" \in Sections
  BY DEF Sections
<1>2. Section(L) /\ Len(L) \in Nat /\ DOMAIN L = 1..Len(L)
  BY <1>1, FileSections, LineTyped
<1>3. \A i \in 1..Len(L) : IsTop(L, i) => L[i].depth = 0
  BY <1>2, TopIsRoot
<1>4. ASSUME NEW S \in SUBSET (1..Len(L)), S # {} PROVE Max(S) \in S
  <2>1. S \in SUBSET (0..Len(L))
    BY <1>2
  <2> QED BY <1>2, <1>4, <2>1, MaxIs
<1>5. CASE pending # {}
  <2>1. Max(pending) \in pending
    BY <1>2, <1>4, <1>5
  <2>2. Keeps(F, Recurred(F, Max(pending)))
    <3>1. /\ Max(pending) \in 1..Len(L) /\ IsTop(L, Max(pending))
          /\ L[Max(pending)].item \in Recurring
      BY <1>2, <2>1 DEF IsPending
    <3>2. L[Max(pending)].depth = 0
      BY <1>3, <3>1
    <3> HIDE DEF pending
    <3> QED BY <3>1, <3>2, RecurredKeeps
  <2> QED BY <1>5, <2>2 DEF SweepStep
<1>6. CASE pending = {} /\ over # {}
  <2>1. Max(over) \in over
    BY <1>2, <1>4, <1>6
  <2>2. Keeps(F, MovedToDone(F, Max(over)))
    <3>1. Max(over) \in 1..Len(L) /\ IsTop(L, Max(over))
      BY <1>2, <2>1
    <3>2. L[Max(over)].depth = 0
      BY <1>3, <3>1
    <3> HIDE DEF over
    <3> QED BY <3>1, <3>2, MovedToDoneKeeps
  <2> QED BY <1>6, <2>2 DEF SweepStep
<1>7. CASE pending = {} /\ over = {}
  BY <1>7, KeepsSelf DEF SweepStep
<1> QED BY <1>5, <1>6, <1>7

\* The files that a sweep goes through.
IsSwept(run, F, n) == run = [k \in 0..n |-> IF k = 0 THEN F ELSE SweepStep(run[k - 1])]

LEMMA SweptExists ==
  ASSUME NEW F, NEW last \in Nat
  PROVE  \E run : IsSwept(run, F, last)
<1> DEFINE Bad == {n \in Nat : ~ \E run : IsSwept(run, F, n)}
<1>1. SUFFICES ASSUME Bad # {} PROVE FALSE
  OBVIOUS
<1>2. PICK n \in Bad : \A m \in Bad : n <= m
  BY <1>1, Least, Zenon
<1>3. n # 0
  <2>1. IsSwept([k \in 0..0 |-> F], F, 0)
    BY DEF IsSwept
  <2> QED BY <2>1
<1>4. PICK run : IsSwept(run, F, n - 1)
  BY <1>2, <1>3
<1> DEFINE more == [k \in 0..n |-> IF k < n THEN run[k] ELSE SweepStep(run[n - 1])]
<1>5. IsSwept(more, F, n)
  <2>1. \A k \in 0..n : k < n => k \in 0..(n - 1)
    OBVIOUS
  <2>2. \A k \in 0..(n - 1) : run[k] = IF k = 0 THEN F ELSE SweepStep(run[k - 1])
    BY <1>4 DEF IsSwept
  <2>3. \A k \in 0..n : more[k] = IF k = 0 THEN F ELSE SweepStep(more[k - 1])
    BY <2>2, <1>3
  <2>4. more = [k \in 0..n |-> more[k]]
    OBVIOUS
  <2> HIDE DEF more
  <2> QED BY <2>3, <2>4 DEF IsSwept
<1> QED BY <1>5

LEMMA SweptKeeps ==
  ASSUME BoardAssumption, NEW F, FileOk(F)
  PROVE  Keeps(F, Swept(F))
<1> DEFINE n == 2 * MaxLines  run == CHOOSE after : IsSwept(after, F, n)
<1>1. n \in Nat
  BY DEF BoardAssumption
<1>2. IsSwept(run, F, n)
  BY <1>1, SweptExists
<1>3. Swept(F) = run[n]
  BY Zenon DEF Swept, IsSwept
<1> HIDE DEF n, run
<1>4. \A k \in 0..n : run[k] = IF k = 0 THEN F ELSE SweepStep(run[k - 1])
  BY <1>2 DEF IsSwept
<1> DEFINE Bad == {k \in Nat : k <= n /\ ~Keeps(F, run[k])}
<1>5. Bad = {}
  <2> SUFFICES ASSUME Bad # {} PROVE FALSE
    OBVIOUS
  <2>1. PICK k \in Bad : \A m \in Bad : k <= m
    BY Least, Zenon
  <2>2. k # 0
    BY <1>1, <1>4, <2>1, KeepsSelf
  <2>3. Keeps(F, run[k - 1]) /\ k \in 0..n
    BY <1>1, <2>1, <2>2
  <2>4. Keeps(run[k - 1], SweepStep(run[k - 1]))
    BY <2>3, SweepStepKeeps DEF Keeps
  <2>5. Keeps(F, run[k])
    BY <1>4, <2>2, <2>3, <2>4, KeepsOn
  <2> QED BY <2>1, <2>5
<1>6. n \notin Bad
  BY <1>5
<1> QED BY <1>1, <1>3, <1>6

-----------------------------------------------------------------------------
(* Lines that are taken out one by one *)

IsLeft(run, L, gone, n) ==
  run = [k \in 0..n |-> IF k = 0 THEN <<>> ELSE IF k \in gone THEN run[k - 1]
                        ELSE Append(run[k - 1], L[k])]

\* N are the lines of L up to n that are not gone, g says where they were.
Picks(N, L, gone, n, g) ==
  /\ N \in Seq(RawLine)
  /\ g \in [1..Len(N) -> (1..n) \ gone]
  /\ \A k, m \in 1..Len(N) : k < m => g[k] < g[m]
  /\ \A m \in (1..n) \ gone : \E k \in 1..Len(N) : g[k] = m
  /\ \A k \in 1..Len(N) : N[k] = L[g[k]]

LEMMA LeftExists ==
  ASSUME NEW L, NEW gone, NEW last \in Nat
  PROVE  \E run : IsLeft(run, L, gone, last)
<1> DEFINE Bad == {n \in Nat : ~ \E run : IsLeft(run, L, gone, n)}
<1>1. SUFFICES ASSUME Bad # {} PROVE FALSE
  OBVIOUS
<1>2. PICK n \in Bad : \A m \in Bad : n <= m
  BY <1>1, Least, Zenon
<1>3. n # 0
  <2>1. IsLeft([k \in 0..0 |-> <<>>], L, gone, 0)
    BY DEF IsLeft
  <2> QED BY <2>1
<1>4. PICK run : IsLeft(run, L, gone, n - 1)
  BY <1>2, <1>3
<1> DEFINE next(r, k) == IF k \in gone THEN r ELSE Append(r, L[k])
<1> DEFINE more == [k \in 0..n |-> IF k < n THEN run[k] ELSE next(run[n - 1], n)]
<1>5. IsLeft(more, L, gone, n)
  <2>1. \A k \in 0..n : k < n => k \in 0..(n - 1)
    OBVIOUS
  <2>2. \A k \in 0..(n - 1) : run[k] = IF k = 0 THEN <<>> ELSE next(run[k - 1], k)
    BY <1>4 DEF IsLeft
  <2> HIDE DEF next
  <2>3. \A k \in 0..n : more[k] = IF k = 0 THEN <<>> ELSE next(more[k - 1], k)
    BY <2>2, <1>3
  <2>4. more = [k \in 0..n |-> more[k]]
    OBVIOUS
  <2> HIDE DEF more
  <2> QED BY <2>3, <2>4 DEF IsLeft, next
<1> QED BY <1>5

LEMMA PickOne ==
  ASSUME NEW L \in Seq(RawLine), NEW gone, NEW n \in 1..Len(L), NEW N, NEW g, Picks(N, L, gone, n - 1, g)
  PROVE  /\ n \in gone => Picks(N, L, gone, n, g)
         /\ n \notin gone => \E h : Picks(Append(N, L[n]), L, gone, n, h)
<1>1. Len(L) \in Nat /\ n \in Nat \ {0} /\ L[n] \in RawLine
  BY LineTyped
<1>2. N \in Seq(RawLine) /\ Len(N) \in Nat
  BY LenProperties DEF Picks
<1>3. ASSUME n \in gone PROVE Picks(N, L, gone, n, g)
  <2>1. (1..n) \ gone = (1..(n - 1)) \ gone
    BY <1>1, <1>3
  <2> QED BY <2>1 DEF Picks
<1>4. ASSUME n \notin gone PROVE \E h : Picks(Append(N, L[n]), L, gone, n, h)
  <2> DEFINE A == Append(N, L[n])  l == Len(N)
             h == [k \in 1..l + 1 |-> IF k = l + 1 THEN n ELSE g[k]]
  <2>1. /\ A \in Seq(RawLine) /\ Len(A) = l + 1
        /\ \A k \in 1..l : A[k] = N[k]
        /\ A[l + 1] = L[n]
    BY <1>1, <1>2, AppendProperties
  <2>2. /\ g \in [1..l -> (1..(n - 1)) \ gone]
        /\ \A k, m \in 1..l : k < m => g[k] < g[m]
        /\ \A m \in (1..(n - 1)) \ gone : \E k \in 1..l : g[k] = m
        /\ \A k \in 1..l : N[k] = L[g[k]]
    BY DEF Picks
  <2>3. l \in Nat
    BY <1>2
  <2> HIDE DEF A, l
  <2>4. \A k \in 1..l : h[k] = g[k] /\ g[k] \in (1..(n - 1)) \ gone /\ g[k] \in 1..(n - 1)
    BY <2>2, <2>3
  <2>5. h[l + 1] = n /\ \A k \in 1..l + 1 : k = l + 1 \/ k \in 1..l
    BY <2>3
  <2>6. h \in [1..l + 1 -> (1..n) \ gone]
    <3>1. \A k \in 1..l + 1 : h[k] \in (1..n) \ gone
      <4>1. n \in (1..n) \ gone
        BY <1>1, <1>4
      <4>2. (1..(n - 1)) \ gone \subseteq (1..n) \ gone
        BY <1>1
      <4> HIDE DEF h
      <4> QED BY <2>4, <2>5, <4>1, <4>2
    <3> QED BY <3>1
  <2> HIDE DEF h
  <2>7. \A k, m \in 1..l + 1 : k < m => h[k] < h[m]
    <3> SUFFICES ASSUME NEW k \in 1..l + 1, NEW m \in 1..l + 1, k < m PROVE h[k] < h[m]
      OBVIOUS
    <3>1. k \in 1..l
      BY <2>3
    <3>2. CASE m = l + 1
      BY <1>1, <2>4, <2>5, <3>1, <3>2
    <3>3. CASE m \in 1..l
      BY <2>2, <2>4, <3>1, <3>3
    <3> QED BY <2>5, <3>2, <3>3
  <2>8. \A m \in (1..n) \ gone : \E k \in 1..l + 1 : h[k] = m
    <3> SUFFICES ASSUME NEW m \in (1..n) \ gone PROVE \E k \in 1..l + 1 : h[k] = m
      OBVIOUS
    <3>1. CASE m = n
      BY <2>3, <2>5, <3>1
    <3>2. CASE m # n
      <4>1. m \in (1..(n - 1)) \ gone
        BY <1>1, <3>2
      <4>2. PICK k \in 1..l : g[k] = m
        BY <2>2, <4>1
      <4>3. k \in 1..l + 1 /\ h[k] = m
        BY <2>3, <2>4, <4>2
      <4> QED BY <4>3
    <3> QED BY <3>1, <3>2
  <2>9. \A k \in 1..l + 1 : A[k] = L[h[k]]
    BY <2>1, <2>2, <2>4, <2>5
  <2>10. Picks(A, L, gone, n, h)
    BY <2>1, <2>6, <2>7, <2>8, <2>9 DEF Picks
  <2> QED BY <2>10 DEF A
<1> QED BY <1>3, <1>4

LEMMA WithoutPicks ==
  ASSUME NEW L \in Seq(RawLine), NEW gone
  PROVE  \E g : Picks(Without(L, gone), L, gone, Len(L), g)
<1> DEFINE n == Len(L)  run == CHOOSE left : IsLeft(left, L, gone, n)
<1>1. n \in Nat
  BY LineTyped
<1>2. IsLeft(run, L, gone, n)
  BY <1>1, LeftExists
<1>3. Without(L, gone) = run[n]
  BY Zenon DEF Without, IsLeft
<1> HIDE DEF run
<1>4. \A k \in 0..n : run[k] = IF k = 0 THEN <<>> ELSE IF k \in gone THEN run[k - 1]
                               ELSE Append(run[k - 1], L[k])
  BY <1>2 DEF IsLeft
<1> HIDE DEF n
<1> DEFINE Bad == {k \in Nat : k <= n /\ ~ \E g : Picks(run[k], L, gone, k, g)}
<1>5. Bad = {}
  <2> SUFFICES ASSUME Bad # {} PROVE FALSE
    OBVIOUS
  <2>1. PICK k \in Bad : \A m \in Bad : k <= m
    BY Least, Zenon
  <2>2. k # 0
    <3>1. Picks(<<>>, L, gone, 0, [m \in {} |-> m])
      <4>1. <<>> \in Seq(RawLine) /\ Len(<<>>) = 0
        BY EmptySeq
      <4>2. 1..0 = {}
        OBVIOUS
      <4> QED BY <4>1, <4>2 DEF Picks
    <3>2. run[0] = <<>>
      BY <1>1, <1>4
    <3> QED BY <2>1, <3>1, <3>2
  <2>3. k - 1 \in Nat /\ k - 1 <= n /\ k \in 0..n /\ k \in 1..Len(L)
    BY <1>1, <2>1, <2>2 DEF n
  <2>4. PICK g : Picks(run[k - 1], L, gone, k - 1, g)
    BY <2>1, <2>3
  <2>5. \E h : Picks(run[k], L, gone, k, h)
    <3>1. run[k] = IF k \in gone THEN run[k - 1] ELSE Append(run[k - 1], L[k])
      BY <1>4, <2>2, <2>3
    <3>2. /\ k \in gone => Picks(run[k - 1], L, gone, k, g)
          /\ k \notin gone => \E h : Picks(Append(run[k - 1], L[k]), L, gone, k, h)
      BY <2>3, <2>4, PickOne
    <3> QED BY <3>1, <3>2
  <2> QED BY <2>1, <2>5
<1>6. n \notin Bad
  BY <1>5
<1> QED BY <1>1, <1>3, <1>6 DEF n

\* Lines that are indented may go: what hangs under a line that is not stays
\* there.
LEMMA PickedAlive ==
  ASSUME NEW s, NEW L, Section(L), NEW gone, \A k \in gone : k \in 1..Len(L) => L[k].depth > 0,
         NEW N, NEW g, Picks(N, L, gone, Len(L), g)
  PROVE  /\ Section(N)
         /\ \A k \in 1..Len(N) : g[k] \in 1..Len(L) /\ (Alive(s, N, k) <=> Alive(s, L, g[k]))
<1>1. /\ Len(L) \in Nat /\ L \in Seq(RawLine) /\ \A k \in 1..Len(L) : L[k].depth \in Nat
      /\ \A k \in 1..Len(L) : IsNote(L[k]) => L[k].depth > 0
  BY LineTyped DEF Section, Rooted
<1>2. /\ N \in Seq(RawLine) /\ Len(N) \in Nat
      /\ g \in [1..Len(N) -> (1..Len(L)) \ gone]
      /\ \A k, m \in 1..Len(N) : k < m => g[k] < g[m]
      /\ \A m \in (1..Len(L)) \ gone : \E k \in 1..Len(N) : g[k] = m
      /\ \A k \in 1..Len(N) : N[k] = L[g[k]]
  BY LenProperties DEF Picks
<1>3. \A k \in 1..Len(N) : g[k] \in 1..Len(L) /\ g[k] \notin gone /\ g[k] \in Nat
  BY <1>1, <1>2
<1>4. ASSUME NEW k \in 1..Len(N), NEW m \in 1..Len(N), g[k] <= g[m] PROVE k <= m
  BY <1>2, <1>3, <1>4
<1>5. ASSUME NEW k \in 1..Len(N), NEW r \in 1..g[k], Root(L, r, g[k])
      PROVE  \E q \in 1..k : Root(N, q, k) /\ N[q] = L[r]
  <2>1. r \in 1..Len(L) /\ r \notin gone
    <3>1. r \in 1..Len(L) /\ L[r].depth = 0
      BY <1>1, <1>3, <1>5 DEF Root
    <3> QED BY <3>1
  <2>2. PICK q \in 1..Len(N) : g[q] = r
    BY <1>2, <2>1
  <2>3. q <= k /\ q \in 1..k
    BY <1>1, <1>2, <1>3, <1>4, <2>2
  <2>4. N[q] = L[r]
    BY <1>2, <2>2
  <2>5. ASSUME NEW m \in q + 1..k PROVE N[m].depth > 0
    <3>1. m \in 1..Len(N) /\ q < m /\ (m < k \/ m = k)
      BY <1>2, <2>3
    <3>2. g[q] < g[m] /\ (g[m] < g[k] \/ g[m] = g[k])
      BY <1>2, <3>1
    <3>3. g[m] \in r + 1..g[k]
      BY <1>3, <2>2, <3>1, <3>2
    <3> QED BY <1>2, <1>5, <3>1, <3>3 DEF Root
  <2>6. Root(N, q, k)
    BY <1>5, <2>3, <2>4, <2>5 DEF Root
  <2> QED BY <2>3, <2>4, <2>6
<1>6. ASSUME NEW k \in 1..Len(N) PROVE Alive(s, N, k) <=> Alive(s, L, g[k])
  <2>1. PICK r \in 1..g[k] : Root(L, r, g[k])
    BY <1>3, RootExists
  <2>2. PICK q \in 1..k : Root(N, q, k) /\ N[q] = L[r]
    BY <1>5, <2>1
  <2>3. Alive(s, N, k) <=> ~Ended(s, N[q])
    BY <1>2, <2>2, AliveByRoot
  <2>4. Alive(s, L, g[k]) <=> ~Ended(s, L[r])
    BY <1>3, <2>1, AliveByRoot
  <2> QED BY <2>2, <2>3, <2>4
<1>7. \A k \in 1..Len(N) : IsNote(N[k]) => N[k].depth > 0
  BY <1>1, <1>2, <1>3
<1>8. N # <<>> => N[1].depth = 0
  <2> SUFFICES ASSUME N # <<>> PROVE N[1].depth = 0
    OBVIOUS
  <2>1. 1 \in 1..Len(N)
    BY <1>2, EmptySeq
  <2>2. PICK r \in 1..g[1] : Root(L, r, g[1])
    BY <1>3, <2>1, RootExists
  <2>3. PICK q \in 1..1 : Root(N, q, 1)
    BY <1>5, <2>1, <2>2
  <2> QED BY <2>3 DEF Root
<1> QED BY <1>2, <1>3, <1>6, <1>7, <1>8 DEF Section, Rooted

LEMMA PickedPast ==
  ASSUME NEW L, Section(L), NEW gone, \A k \in gone : L[k].depth > 0 /\ Alive("done", L, k),
         NEW N, NEW g, Picks(N, L, gone, Len(L), g)
  PROVE  PastIn(L, N)
<1>1. /\ Len(L) \in Nat /\ Len(N) \in Nat
      /\ g \in [1..Len(N) -> (1..Len(L)) \ gone]
      /\ \A k, m \in 1..Len(N) : k < m => g[k] < g[m]
      /\ \A m \in (1..Len(L)) \ gone : \E k \in 1..Len(N) : g[k] = m
      /\ \A k \in 1..Len(N) : N[k] = L[g[k]]
  BY LineTyped, LenProperties DEF Section, Picks
<1>2. \A k \in 1..Len(N) : g[k] \in 1..Len(L) /\ (Alive("done", N, k) <=> Alive("done", L, g[k]))
  <2>1. \A k \in gone : k \in 1..Len(L) => L[k].depth > 0
    OBVIOUS
  <2> QED BY <2>1, PickedAlive
<1> DEFINE h == [k \in Over(L) |-> CHOOSE m \in 1..Len(N) : g[m] = k]
<1>3. ASSUME NEW k \in Over(L)
      PROVE  h[k] \in 1..Len(N) /\ g[h[k]] = k /\ h[k] \in Over(N) /\ N[h[k]] = L[k]
  <2>1. k \in (1..Len(L)) \ gone /\ ~Alive("done", L, k)
    BY DEF Over
  <2>2. h[k] \in 1..Len(N) /\ g[h[k]] = k
    BY <1>1, <2>1
  <2> HIDE DEF h
  <2> QED BY <1>1, <1>2, <2>1, <2>2 DEF Over
<1>4. h \in [Over(L) -> Over(N)]
  BY <1>3
<1> HIDE DEF h
<1>5. \A k, m \in Over(L) : h[k] = h[m] => k = m
  BY <1>3
\* Lines that follow each other still do.
<1>6. ASSUME NEW k \in 1..Len(N), NEW m \in 1..Len(N), g[m] = g[k] + 1 PROVE m = k + 1
  <2>1. g[k] \in Nat /\ g[m] \in Nat /\ g[k] < g[m]
    BY <1>1, <1>2, <1>6
  <2>2. k < m
    BY <1>1, <2>1
  <2>3. ~(k + 1 < m)
    <3> SUFFICES ASSUME k + 1 < m PROVE FALSE
      OBVIOUS
    <3>1. k + 1 \in 1..Len(N)
      BY <1>1
    <3>2. g[k] < g[k + 1] /\ g[k + 1] < g[m] /\ g[k + 1] \in Nat
      BY <1>1, <1>2, <3>1
    <3> QED BY <1>6, <2>1, <3>2
  <2> QED BY <2>2, <2>3
<1>7. ASSUME NEW k \in Over(L), Within(L, k) PROVE k + 1 \in Over(L) /\ h[k + 1] = h[k] + 1
  <2>1. k + 1 \in Over(L)
    BY <1>7, OverNext
  <2> QED BY <1>3, <1>6, <2>1
<1>8. ASSUME NEW k \in Over(L), ~Within(L, k) PROVE ~Within(N, h[k])
  <2>1. k \in 1..Len(L) /\ (k = Len(L) \/ ~(L[k + 1].depth > 0))
    BY <1>8 DEF Over, Within
  <2>2. CASE k = Len(L)
    <3>1. ~(h[k] < Len(N))
      <4> SUFFICES ASSUME h[k] < Len(N) PROVE FALSE
        OBVIOUS
      <4>1. Len(N) \in 1..Len(N)
        BY <1>1, <1>3
      <4>2. g[h[k]] < g[Len(N)] /\ g[Len(N)] \in 1..Len(L)
        BY <1>1, <1>2, <1>3, <4>1
      <4> QED BY <1>1, <1>3, <2>2, <4>2
    <3>2. h[k] = Len(N)
      BY <1>1, <1>3, <3>1
    <3> QED BY <3>2 DEF Within
  <2>3. CASE k # Len(L)
    <3>1. k + 1 \in (1..Len(L)) \ gone
      BY <1>1, <2>1, <2>3
    <3>2. PICK m \in 1..Len(N) : g[m] = k + 1
      BY <1>1, <3>1
    <3>3. m = h[k] + 1
      BY <1>3, <1>6, <3>2
    <3>4. N[h[k] + 1] = L[k + 1]
      BY <1>1, <3>2, <3>3
    <3> QED BY <2>1, <2>3, <3>4 DEF Within
  <2> QED BY <2>2, <2>3
<1>9. Carries(L, N, h)
  BY <1>3, <1>4, <1>5, <1>7, <1>8 DEF Carries
<1> QED BY <1>9 DEF PastIn

\* H is F without some lines, which say X.
Dropped(F, H, X) ==
  /\ FileOk(H) /\ Past(F, H) /\ SaidIn(F) \subseteq SaidIn(H) \cup X
  /\ HeldIn(H) \subseteq HeldIn(F) /\ X \subseteq HeldIn(F)
  /\ OnceIn(F) => OnceIn(H) /\ HeldIn(H) \cap X = {}

LEMMA WithoutDrops ==
  ASSUME NEW F, FileOk(F), NEW s \in Sections, NEW gone \in SUBSET (1..Len(F[s])),
         \A k \in gone : F[s][k].depth > 0 /\ Alive(s, F[s], k)
  PROVE  Dropped(F, [F EXCEPT ![s] = Without(F[s], gone)], {F[s][k].item : k \in gone})
<1> DEFINE L == F[s]  N == Without(L, gone)  H == [F EXCEPT ![s] = N]  X == {L[k].item : k \in gone}
<1>1. Section(L) /\ L \in Seq(RawLine) /\ L = F[s]
  BY FileSections
<1>2. PICK g : Picks(N, L, gone, Len(L), g)
  BY <1>1, WithoutPicks
<1> HIDE DEF L, N
<1>3. /\ Section(N)
      /\ \A k \in 1..Len(N) : g[k] \in 1..Len(L) /\ (Alive(s, N, k) <=> Alive(s, L, g[k]))
  <2>1. \A k \in gone : k \in 1..Len(L) => L[k].depth > 0
    BY <1>1
  <2> QED BY <1>1, <1>2, <2>1, PickedAlive
<1>4. FileOk(H) /\ H[s] = N /\ \A t \in Sections : t # s => H[t] = F[t]
  BY <1>3, OneSection
<1>5. /\ g \in [1..Len(N) -> (1..Len(L)) \ gone]
      /\ \A k, m \in 1..Len(N) : k < m => g[k] < g[m]
      /\ \A m \in (1..Len(L)) \ gone : \E k \in 1..Len(N) : g[k] = m
      /\ \A k \in 1..Len(N) : N[k] = L[g[k]]
  BY <1>2 DEF Picks
<1>5a. Len(N) \in Nat /\ Len(L) \in Nat
  BY <1>1, <1>3, LenProperties DEF Section
<1>5b. \A k \in gone : k \in 1..Len(L) /\ Alive(s, L, k)
  BY <1>1
<1> HIDE DEF H, X
<1>6. Said(L) \subseteq Said(N) \cup X
  <2> SUFFICES ASSUME NEW k \in 1..Len(L), k \notin gone PROVE L[k].item \in Said(N)
    BY DEF Said, X
  <2>1. PICK m \in 1..Len(N) : g[m] = k
    BY <1>5
  <2>2. N[m] = L[k]
    BY <1>5, <2>1
  <2> QED BY <2>2 DEF Said
<1>7. Held(s, N) \subseteq Held(s, L)
  BY <1>3, <1>5 DEF Held
<1>8. X \subseteq Held(s, L)
  BY <1>5b DEF X, Held
<1>9. ASSUME Once(s, L) PROVE Once(s, N) /\ Held(s, N) \cap X = {}
  <2>1. ASSUME NEW k \in 1..Len(N), NEW m \in 1..Len(N), Alive(s, N, k), Alive(s, N, m),
               N[k].item = N[m].item
        PROVE  k = m
    <3>1. g[k] = g[m]
      BY <1>3, <1>5, <1>9, <2>1 DEF Once
    <3>2. g[k] \in Nat /\ k \in Nat /\ m \in Nat
      BY <1>3, <1>5a
    <3>3. ~(k < m) /\ ~(m < k)
      BY <1>5, <3>1, <3>2
    <3> QED BY <3>2, <3>3
  <2>2. ASSUME NEW k \in 1..Len(N), Alive(s, N, k), NEW m \in gone, N[k].item = L[m].item PROVE FALSE
    <3>1. g[k] \in 1..Len(L) /\ g[k] \notin gone /\ Alive(s, L, g[k]) /\ N[k] = L[g[k]]
      BY <1>3, <1>5, <2>2
    <3>2. g[k] = m
      BY <1>5b, <1>9, <2>2, <3>1 DEF Once
    <3> QED BY <3>1, <3>2
  <2>3. Once(s, N)
    BY <2>1 DEF Once
  <2> QED BY <2>2, <2>3 DEF Held, X
<1>10. SaidIn(F) \subseteq SaidIn(H) \cup X
  BY <1>1, <1>4, <1>6 DEF SaidIn
<1>11. \A t \in Sections : Held(t, H[t]) \subseteq Held(t, F[t])
  BY <1>1, <1>4, <1>7
<1>12. HeldIn(H) \subseteq HeldIn(F) /\ X \subseteq HeldIn(F)
  BY <1>1, <1>8, <1>11 DEF HeldIn
<1>13. ASSUME OnceIn(F) PROVE OnceIn(H) /\ HeldIn(H) \cap X = {}
  <2>1. Once(s, N) /\ Held(s, N) \cap X = {}
    BY <1>1, <1>9, <1>13 DEF OnceIn
  <2>2. \A t \in Sections : Once(t, H[t])
    BY <1>4, <1>13, <2>1 DEF OnceIn
  <2>3. \A t, u \in Sections : t # u => Held(t, F[t]) \cap Held(u, F[u]) = {}
    BY <1>13 DEF OnceIn
  <2>4. \A t, u \in Sections : t # u => Held(t, H[t]) \cap Held(u, H[u]) = {}
    BY <1>11, <2>3
  <2>5. \A t \in Sections : Held(t, H[t]) \cap X = {}
    BY <1>1, <1>4, <1>8, <2>1, <2>3
  <2> QED BY <2>2, <2>4, <2>5 DEF OnceIn, HeldIn
<1>14. Past(F, H)
  <2>1. CASE s = "done"
    <3>1. \A k \in gone : L[k].depth > 0 /\ Alive("done", L, k)
      BY <1>1, <2>1
    <3>2. PastIn(L, N)
      BY <1>1, <1>2, <3>1, PickedPast
    <3> QED BY <1>1, <1>4, <2>1, <3>2 DEF Past
  <2>2. CASE s # "done"
    <3>1. H["done"] = F["done"] /\ Section(F["done"])
      BY <1>4, <2>2, FileSections DEF Sections
    <3> QED BY <3>1, PastSelf DEF Past
  <2> QED BY <2>1, <2>2
<1> QED BY <1>4, <1>10, <1>12, <1>13, <1>14 DEF Dropped, L, N, H, X

-----------------------------------------------------------------------------
(* Neighbours that change places *)

\* The block of j is the one after that of i.
Follows(L, i, j) == j = BlockEnd(L, i) + 1

Exchanged(L, i, j) ==
  SubSeq(L, 1, i - 1) \o Block(L, j) \o Block(L, i) \o SubSeq(L, BlockEnd(L, j) + 1, Len(L))

LEMMA ExchangedLines ==
  ASSUME NEW L \in Seq(RawLine), NEW i \in 1..Len(L), NEW j \in 1..Len(L), Follows(L, i, j)
  PROVE  LET bi == Len(Block(L, i))  bj == Len(Block(L, j))  N == Exchanged(L, i, j) IN
         /\ N \in Seq(RawLine) /\ Len(N) = Len(L)
         /\ \A k \in 1..i - 1 : N[k] = L[k]
         /\ \A k \in 1..bj : N[i - 1 + k] = Block(L, j)[k]
         /\ \A k \in 1..bi : N[i - 1 + bj + k] = Block(L, i)[k]
         /\ \A k \in i + bi + bj..Len(L) : N[k] = L[k]
<1> DEFINE B == Block(L, i)  C == Block(L, j)  bi == Len(B)  bj == Len(C)  f == BlockEnd(L, j)
           P == SubSeq(L, 1, i - 1)  T == SubSeq(L, f + 1, Len(L))  N == Exchanged(L, i, j)
<1>1. Len(L) \in Nat /\ i \in Nat \ {0} /\ j \in Nat /\ \A m \in 1..Len(L) : L[m] \in RawLine
  BY LineTyped
<1>2. /\ B \in Seq(RawLine) /\ bi = j - i /\ bi \in Nat \ {0}
      /\ C \in Seq(RawLine) /\ bj = f - j + 1 /\ bj \in Nat \ {0} /\ f \in j..Len(L) /\ f \in Nat
  <2>1. B \in Seq(RawLine) /\ bi = BlockEnd(L, i) - i + 1 /\ bi \in Nat \ {0} /\ BlockEnd(L, i) \in Nat
    BY BlockLines
  <2>2. bi = j - i
    BY <1>1, <2>1 DEF Follows
  <2> QED BY <1>1, <2>1, <2>2, BlockLines
<1> N = ((P \o C) \o B) \o T
  BY DEF Exchanged
<1> HIDE DEF B, C, f, P, T, N, bi, bj
<1>3. P \in Seq(RawLine) /\ Len(P) = i - 1 /\ \A k \in 1..i - 1 : P[k] = L[k]
  <2>1. (\A m \in 1..i - 1 : L[m] \in RawLine) /\ i - 1 \in Int /\ 1 \in Int
    BY <1>1
  <2>2. /\ P \in Seq(RawLine) /\ Len(P) = IF 1 <= i - 1 THEN i - 1 - 1 + 1 ELSE 0
        /\ \A k \in 1 .. (i - 1) - 1 + 1 : P[k] = L[1 + k - 1]
    BY <2>1, SubSeqProperties DEF P
  <2> QED BY <1>1, <2>2
<1>4. T \in Seq(RawLine) /\ Len(T) = Len(L) - f /\ \A k \in 1..Len(T) : T[k] = L[f + k]
  <2>1. (\A m \in f + 1..Len(L) : L[m] \in RawLine) /\ f + 1 \in Int /\ Len(L) \in Int
    BY <1>1, <1>2
  <2>2. /\ T \in Seq(RawLine) /\ Len(T) = IF f + 1 <= Len(L) THEN Len(L) - (f + 1) + 1 ELSE 0
        /\ \A k \in 1 .. Len(L) - (f + 1) + 1 : T[k] = L[f + 1 + k - 1]
    BY <2>1, SubSeqProperties DEF T
  <2>3. Len(T) = Len(L) - f
    BY <1>1, <1>2, <2>2
  <2>4. \A k \in 1..Len(T) : k \in 1 .. Len(L) - (f + 1) + 1 /\ f + 1 + k - 1 = f + k
    BY <1>1, <1>2, <2>3
  <2> QED BY <2>2, <2>3, <2>4
<1> DEFINE Q == P \o C  R == Q \o B
<1>5. /\ Q \in Seq(RawLine) /\ Len(Q) = Len(P) + Len(C)
      /\ \A k \in 1..Len(P) + Len(C) : Q[k] = IF k <= Len(P) THEN P[k] ELSE C[k - Len(P)]
  BY <1>2, <1>3, ConcatProperties, Zenon
<1> HIDE DEF Q
<1>6. /\ R \in Seq(RawLine) /\ Len(R) = Len(Q) + Len(B)
      /\ \A k \in 1..Len(Q) + Len(B) : R[k] = IF k <= Len(Q) THEN Q[k] ELSE B[k - Len(Q)]
  <2>1. Q \in Seq(RawLine) /\ B \in Seq(RawLine)
    BY <1>2, <1>5
  <2> QED BY <2>1, ConcatProperties, Zenon
<1> N = R \o T
  BY DEF R, Q
<1> HIDE DEF R
<1>7. /\ N \in Seq(RawLine) /\ Len(N) = Len(R) + Len(T)
      /\ \A k \in 1..Len(R) + Len(T) : N[k] = IF k <= Len(R) THEN R[k] ELSE T[k - Len(R)]
  <2>1. R \in Seq(RawLine) /\ T \in Seq(RawLine)
    BY <1>4, <1>6
  <2>2. /\ R \o T \in Seq(RawLine) /\ Len(R \o T) = Len(R) + Len(T)
        /\ \A k \in 1..Len(R) + Len(T) : (R \o T)[k] = IF k <= Len(R) THEN R[k] ELSE T[k - Len(R)]
    BY <2>1, ConcatProperties, ZenonT(40)
  <2> QED BY <2>2
<1>7a. /\ Len(L) \in Nat /\ i \in Nat \ {0} /\ j \in Nat
       /\ bi = j - i /\ bi \in Nat \ {0} /\ Len(B) = bi
       /\ bj = f - j + 1 /\ bj \in Nat \ {0} /\ Len(C) = bj /\ f \in j..Len(L) /\ f \in Nat
       /\ Len(P) = i - 1 /\ Len(T) = Len(L) - f
       /\ Len(Q) = Len(P) + Len(C) /\ Len(R) = Len(Q) + Len(B) /\ Len(N) = Len(R) + Len(T)
  BY <1>1, <1>2, <1>3, <1>4, <1>5, <1>6, <1>7, Zenon DEF bi, bj
<1>8. Len(P) = i - 1 /\ Len(Q) = i - 1 + bj /\ Len(R) = i - 1 + bj + bi /\ Len(R) = f /\ Len(N) = Len(L)
  BY <1>7a
<1>9. ASSUME NEW k \in 1..i - 1 PROVE N[k] = L[k]
  <2>1. /\ k \in 1..Len(R) + Len(T) /\ k <= Len(R) /\ k \in 1..Len(Q) + Len(B) /\ k <= Len(Q)
        /\ k \in 1..Len(P) + Len(C) /\ k <= Len(P)
    BY <1>7a, <1>8
  <2> QED BY <1>3, <1>5, <1>6, <1>7, <2>1
<1>10. ASSUME NEW k \in 1..bj PROVE N[i - 1 + k] = C[k]
  <2> DEFINE m == i - 1 + k
  <2>1. /\ m \in 1..Len(R) + Len(T) /\ m <= Len(R) /\ m \in 1..Len(Q) + Len(B) /\ m <= Len(Q)
        /\ m \in 1..Len(P) + Len(C) /\ ~(m <= Len(P)) /\ m - Len(P) = k
    BY <1>7a, <1>8
  <2> HIDE DEF m
  <2>2. N[m] = C[k]
    BY <1>5, <1>6, <1>7, <2>1
  <2> QED BY <2>2 DEF m
<1>11. ASSUME NEW k \in 1..bi PROVE N[i - 1 + bj + k] = B[k]
  <2> DEFINE m == i - 1 + bj + k
  <2>1. /\ m \in 1..Len(R) + Len(T) /\ m <= Len(R) /\ m \in 1..Len(Q) + Len(B) /\ ~(m <= Len(Q))
        /\ m - Len(Q) = k
    BY <1>7a, <1>8
  <2> HIDE DEF m
  <2>2. N[m] = B[k]
    BY <1>6, <1>7, <2>1
  <2> QED BY <2>2 DEF m
<1>12. ASSUME NEW k \in i + bi + bj..Len(L) PROVE N[k] = L[k]
  <2>1. /\ k \in 1..Len(R) + Len(T) /\ ~(k <= Len(R)) /\ k - Len(R) \in 1..Len(T)
        /\ f + (k - Len(R)) = k
    BY <1>7a, <1>8
  <2>2. N[k] = T[k - Len(R)]
    BY <1>7, <2>1
  <2> QED BY <1>4, <2>1, <2>2
<1> QED BY <1>7, <1>8, <1>9, <1>10, <1>11, <1>12 DEF N, B, C, bi, bj

\* It is as if either block had been taken out and put behind, or before, the
\* other one.
LEMMA ExchangedIs ==
  ASSUME NEW L, Section(L), NEW i \in 1..Len(L), NEW j \in 1..Len(L), Follows(L, i, j),
         NEW d \in Nat, L[i].depth = d, L[j].depth = d
  PROVE  LET B == Block(L, i)  C == Block(L, j)  M == Cut(L, i)  K == Cut(L, j) IN
         /\ i + Len(C) \in 1..Len(M) + 1 /\ i \in 1..Len(K) + 1
         /\ Joined(M, i + Len(C), B, Exchanged(L, i, j))
         /\ AsFamily(M, i + Len(C), B) \/ AsPart(M, i + Len(C), B)
         /\ Joined(K, i, C, Exchanged(L, i, j))
         /\ AsFamily(K, i, C) \/ AsPart(K, i, C)
<1> DEFINE B == Block(L, i)  C == Block(L, j)  M == Cut(L, i)  K == Cut(L, j)
           bi == Len(B)  bj == Len(C)  f == BlockEnd(L, j)  N == Exchanged(L, i, j)
<1>1. /\ Len(L) \in Nat /\ i \in Nat \ {0} /\ j \in Nat /\ L \in Seq(RawLine)
      /\ i \in 1..Len(L) /\ j \in 1..Len(L)
  BY LineTyped DEF Section
<1>2. /\ N \in Seq(RawLine) /\ Len(N) = Len(L)
      /\ \A k \in 1..i - 1 : N[k] = L[k]
      /\ \A k \in 1..bj : N[i - 1 + k] = C[k]
      /\ \A k \in 1..bi : N[i - 1 + bj + k] = B[k]
      /\ \A k \in i + bi + bj..Len(L) : N[k] = L[k]
  BY <1>1, ExchangedLines
<1>3. /\ B \in Seq(RawLine) /\ B # <<>> /\ bi = j - i /\ bi \in Nat \ {0}
      /\ \A k \in 1..bi : B[k] = L[i + k - 1]
      /\ B[1] = L[i] /\ \A k \in 2..bi : B[k].depth > d
  <2>1. BlockEnd(L, i) \in Nat /\ bi = BlockEnd(L, i) - i + 1
    BY <1>1, BlockLines
  <2>2. bi = j - i
    BY <1>1, <2>1 DEF Follows
  <2>3. /\ B \in Seq(RawLine) /\ B # <<>> /\ bi \in Nat \ {0}
        /\ \A k \in 1..bi : B[k] = L[i + k - 1]
        /\ B[1] = L[i] /\ \A k \in 2..bi : B[k].depth > L[i].depth
    BY <1>1, BlockLines, Zenon
  <2> QED BY <2>2, <2>3
<1>4. /\ C \in Seq(RawLine) /\ C # <<>> /\ bj \in Nat \ {0}
      /\ bj = f - j + 1 /\ f \in j..Len(L) /\ f \in Nat
      /\ \A k \in 1..bj : C[k] = L[j + k - 1]
      /\ C[1] = L[j] /\ \A k \in 2..bj : C[k].depth > d
  <2>1. /\ C \in Seq(RawLine) /\ C # <<>> /\ bj \in Nat \ {0}
        /\ bj = f - j + 1 /\ f \in j..Len(L) /\ f \in Nat
        /\ \A k \in 1..bj : C[k] = L[j + k - 1]
        /\ C[1] = L[j] /\ \A k \in 2..bj : C[k].depth > L[j].depth
    BY <1>1, BlockLines, Zenon
  <2> QED BY <2>1
<1>5. /\ M \in Seq(RawLine) /\ Len(M) \in Nat /\ Len(L) = Len(M) + bi
      /\ \A k \in 1..i - 1 : L[k] = M[k]
      /\ \A k \in i..Len(M) : L[k + bi] = M[k]
  BY <1>1, CutLines, LineTyped DEF Joined
<1>6. /\ K \in Seq(RawLine) /\ Len(K) \in Nat /\ Len(L) = Len(K) + bj
      /\ \A k \in 1..j - 1 : L[k] = K[k]
      /\ \A k \in j..Len(K) : L[k + bj] = K[k]
  BY <1>1, CutLines, LineTyped DEF Joined
<1>7. f = Len(L) \/ (f + 1 \in 1..Len(L) /\ L[f + 1].depth \in Nat /\ L[f + 1].depth <= d)
  <2>1. f = Len(L) \/ L[f + 1].depth <= d
    BY <1>1, BlockEnds DEF IsEnd
  <2>2. f # Len(L) => f + 1 \in 1..Len(L)
    BY <1>1, <1>4
  <2> QED BY <1>1, <2>1, <2>2, LineTyped
<1>8. L[1].depth = 0
  <2>1. L # <<>>
    BY <1>1, EmptySeq
  <2> QED BY <2>1 DEF Section, Rooted
<1>9. d = 0 => ~IsNote(B[1]) /\ ~IsNote(C[1])
  <2>1. \A k \in 1..Len(L) : IsNote(L[k]) => L[k].depth > 0
    BY DEF Section, Rooted
  <2> QED BY <1>1, <1>3, <1>4, <2>1
<1> HIDE DEF B, C, M, K, bi, bj, f, N
\* Only where the lines are.
<1>10. /\ Len(L) \in Nat /\ i \in Nat \ {0} /\ j \in Nat /\ Len(M) \in Nat /\ Len(K) \in Nat
       /\ bi \in Nat \ {0} /\ bj \in Nat \ {0} /\ f \in Nat /\ f <= Len(L)
       /\ bi = j - i /\ bj = f - j + 1 /\ Len(L) = Len(M) + bi /\ Len(L) = Len(K) + bj
  <2>1. f \in j..Len(L) /\ f \in Nat /\ Len(L) \in Nat /\ j \in Nat
    BY <1>1, <1>4, Zenon
  <2>2. f <= Len(L)
    BY <2>1
  <2> QED BY <1>1, <1>3, <1>4, <1>5, <1>6, <2>2, Zenon
<1>11. i + bj \in 1..Len(M) + 1 /\ i \in 1..Len(K) + 1
  BY <1>10
<1>12. ASSUME NEW k \in 1..i + bj - 1 PROVE N[k] = M[k]
  <2>1. CASE k < i
    <3>1. k \in 1..i - 1
      BY <1>10, <2>1
    <3> QED BY <1>2, <1>5, <3>1
  <2>2. CASE k >= i
    <3>1. k - i + 1 \in 1..bj /\ i - 1 + (k - i + 1) = k /\ j + (k - i + 1) - 1 = k + bi /\ k \in i..Len(M)
      BY <1>10, <2>2
    <3>2. N[k] = C[k - i + 1]
      BY <1>2, <3>1
    <3>3. C[k - i + 1] = L[k + bi]
      BY <1>4, <3>1
    <3> QED BY <1>5, <3>1, <3>2, <3>3
  <2> QED BY <1>10, <2>1, <2>2
<1>13. ASSUME NEW k \in 1..bi PROVE N[i + bj - 1 + k] = B[k]
  <2>1. i + bj - 1 + k = i - 1 + bj + k
    BY <1>10
  <2> QED BY <1>2, <2>1
<1>14. ASSUME NEW k \in i + bj..Len(M) PROVE N[k + bi] = M[k]
  <2>1. k + bi \in i + bi + bj..Len(L) /\ k \in i..Len(M)
    BY <1>10
  <2> QED BY <1>2, <1>5, <2>1
<1>15. Joined(M, i + bj, B, N)
  BY <1>2, <1>10, <1>12, <1>13, <1>14 DEF Joined, bi
<1>16. AsFamily(M, i + bj, B) \/ AsPart(M, i + bj, B)
  <2>1. CASE d = 0
    <3>1. i + bj = Len(M) + 1 \/ M[i + bj].depth = 0
      <4> SUFFICES ASSUME i + bj # Len(M) + 1 PROVE M[i + bj].depth = 0
        OBVIOUS
      <4>1. i + bj \in i..Len(M) /\ (i + bj) + bi = f + 1 /\ f # Len(L)
        BY <1>10
      <4>2. M[i + bj] = L[f + 1]
        BY <1>5, <4>1
      <4> QED BY <1>7, <2>1, <4>1, <4>2
    <3> QED BY <1>3, <1>9, <2>1, <3>1 DEF AsFamily, bi
  <2>2. CASE d # 0
    <3>1. \A k \in 1..bi : B[k].depth > 0
      <4>1. \A k \in 1..bi : k = 1 \/ k \in 2..bi
        BY <1>10
      <4>2. \A k \in 1..bi : B[k].depth \in Nat
        BY <1>3, LineTyped DEF bi
      <4> QED BY <1>3, <2>2, <4>1, <4>2
    <3>2. i + bj > 1
      BY <1>10
    <3> QED BY <3>1, <3>2 DEF AsPart, bi
  <2> QED BY <2>1, <2>2
<1>17. ASSUME NEW k \in 1..i - 1 PROVE N[k] = K[k]
  <2>1. k \in 1..j - 1
    BY <1>10
  <2> QED BY <1>2, <1>6, <2>1
<1>18. ASSUME NEW k \in i..Len(K) PROVE N[k + bj] = K[k]
  <2>1. CASE k < j
    <3>1. k - i + 1 \in 1..bi /\ i - 1 + bj + (k - i + 1) = k + bj /\ i + (k - i + 1) - 1 = k /\ k \in 1..j - 1
      BY <1>10, <2>1
    <3>2. N[k + bj] = B[k - i + 1]
      BY <1>2, <3>1
    <3>3. B[k - i + 1] = L[k]
      BY <1>3, <3>1
    <3> QED BY <1>6, <3>1, <3>2, <3>3
  <2>2. CASE k >= j
    <3>1. k + bj \in i + bi + bj..Len(L) /\ k \in j..Len(K)
      BY <1>10, <2>2
    <3> QED BY <1>2, <1>6, <3>1
  <2> QED BY <1>10, <2>1, <2>2
<1>19. Joined(K, i, C, N)
  BY <1>2, <1>10, <1>17, <1>18 DEF Joined, bj
<1>20. AsFamily(K, i, C) \/ AsPart(K, i, C)
  <2>1. CASE d = 0
    <3>1. K[i] = L[i]
      <4>1. i \in 1..j - 1
        BY <1>10
      <4> QED BY <1>6, <4>1
    <3> QED BY <1>4, <1>9, <2>1, <3>1 DEF AsFamily, bj
  <2>2. CASE d # 0
    <3>1. \A k \in 1..bj : C[k].depth > 0
      <4>1. \A k \in 1..bj : k = 1 \/ k \in 2..bj
        BY <1>10
      <4>2. \A k \in 1..bj : C[k].depth \in Nat
        BY <1>4, LineTyped DEF bj
      <4> QED BY <1>4, <2>2, <4>1, <4>2
    <3>2. i > 1
      BY <1>8, <1>10, <2>2
    <3> QED BY <3>1, <3>2 DEF AsPart, bj
  <2> QED BY <2>1, <2>2
<1> QED BY <1>11, <1>15, <1>16, <1>19, <1>20 DEF B, C, M, K, bi, bj, N

LEMMA PutBack ==
  ASSUME NEW F, FileOk(F), NEW s \in Sections, NEW S \in Seq(RawLine), NEW B \in Seq(RawLine), B # <<>>,
         Taken(F, [F EXCEPT ![s] = S], B), NEW a \in 1..Len(S) + 1,
         Fitting(s, S, a, B), NEW N, Joined(S, a, B, N)
  PROVE  Keeps(F, [F EXCEPT ![s] = N])
<1> DEFINE G == [F EXCEPT ![s] = S]
<1>1. FileOk(G) /\ G[s] = S
  BY DEF Taken, FileOk
<1>2. N = InsertedAt(S, a, B)
  BY JoinedOnly
<1>3. [G EXCEPT ![s] = N] = [F EXCEPT ![s] = N]
  OBVIOUS
<1>4. Taken(F, G, B)
  OBVIOUS
<1> HIDE DEF G
<1>5. Given(G, [G EXCEPT ![s] = N], B)
  BY <1>1, <1>2, Gives
<1>6. Alike(B, B)
  BY DEF Alike
<1> QED BY <1>3, <1>4, <1>5, <1>6, TakenGiven

\* What a neighbour is put behind, or before, is as live as the neighbour.
LEMMA ExchangedFits ==
  ASSUME NEW s, NEW L, Section(L), NEW i \in 1..Len(L), NEW j \in 1..Len(L), Follows(L, i, j),
         NEW d \in Nat, L[i].depth = d, L[j].depth = d, Alive(s, L, i) \/ Alive(s, L, j)
  PROVE  LET B == Block(L, i)  C == Block(L, j)  M == Cut(L, i)  K == Cut(L, j) IN
         Fitting(s, M, i + Len(C), B) /\ Fitting(s, K, i, C)
<1> DEFINE B == Block(L, i)  C == Block(L, j)  M == Cut(L, i)  K == Cut(L, j)
           bi == Len(B)  bj == Len(C)  f == BlockEnd(L, j)
<1>1. /\ Len(L) \in Nat /\ i \in Nat \ {0} /\ j \in Nat /\ L \in Seq(RawLine)
      /\ i \in 1..Len(L) /\ j \in 1..Len(L)
  BY LineTyped DEF Section
<1>2. /\ B \in Seq(RawLine) /\ B # <<>> /\ B[1] = L[i] /\ bi = j - i /\ bi \in Nat \ {0}
      /\ j - 1 \in i..BlockEnd(L, i)
  <2>1. /\ BlockEnd(L, i) \in Nat /\ bi = BlockEnd(L, i) - i + 1 /\ bi \in Nat \ {0}
        /\ B \in Seq(RawLine) /\ B # <<>> /\ B[1] = L[i]
    BY <1>1, BlockLines
  <2>2. j = BlockEnd(L, i) + 1
    BY DEF Follows
  <2> HIDE DEF B
  <2> QED BY <1>1, <2>1, <2>2
<1>3. /\ C \in Seq(RawLine) /\ C # <<>> /\ C[1] = L[j] /\ bj \in Nat \ {0}
      /\ bj = f - j + 1 /\ f \in j..Len(L) /\ f \in Nat
  BY <1>1, BlockLines, Zenon
<1>4. /\ M \in Seq(RawLine) /\ i \in 1..Len(M) + 1 /\ Joined(M, i, B, L) /\ Section(M)
      /\ AsFamily(M, i, B) \/ AsPart(M, i, B)
  BY <1>1, CutLines, CutSection
<1>5. /\ K \in Seq(RawLine) /\ j \in 1..Len(K) + 1 /\ Joined(K, j, C, L) /\ Section(K)
      /\ AsFamily(K, j, C) \/ AsPart(K, j, C)
  BY <1>1, CutLines, CutSection
<1>6. /\ i + Len(C) \in 1..Len(M) + 1 /\ i \in 1..Len(K) + 1
      /\ AsFamily(M, i + Len(C), B) \/ AsPart(M, i + Len(C), B)
      /\ AsFamily(K, i, C) \/ AsPart(K, i, C)
  BY ExchangedIs
<1>6a. j - 1 \in 1..Len(L) /\ j - 1 # Len(L) /\ (j - 1) + 1 = j /\ f \in j..f
  BY <1>1, <1>2, <1>3
<1>7. Alive(s, L, j - 1) <=> Alive(s, L, i)
  BY <1>2, BlockAlive
<1>8. Alive(s, L, f) <=> Alive(s, L, j)
  BY <1>6a, BlockAlive
<1>9. d > 0 => (Alive(s, L, j) <=> Alive(s, L, j - 1))
  <2> DEFINE k == j - 1
  <2>1. k \in 1..Len(L) /\ k # Len(L) /\ k + 1 = j
    BY <1>6a
  <2> HIDE DEF k
  <2>2. d > 0 => (Alive(s, L, k + 1) <=> Alive(s, L, k))
    BY <2>1, NextAlive
  <2> QED BY <2>1, <2>2 DEF k
<1>10. d > 0 => i - 1 \in 1..Len(L) /\ (Alive(s, L, i) <=> Alive(s, L, i - 1))
  <2> SUFFICES ASSUME d > 0 PROVE i - 1 \in 1..Len(L) /\ (Alive(s, L, i) <=> Alive(s, L, i - 1))
    OBVIOUS
  <2>1. i # 1
    <3>1. L # <<>>
      BY <1>1, EmptySeq
    <3> QED BY <3>1 DEF Section, Rooted
  <2> DEFINE k == i - 1
  <2>2. k \in 1..Len(L) /\ k # Len(L) /\ k + 1 = i
    BY <1>1, <2>1
  <2> HIDE DEF k
  <2>3. Alive(s, L, k + 1) <=> Alive(s, L, k)
    BY <2>2, NextAlive
  <2> QED BY <2>2, <2>3 DEF k
<1> HIDE DEF B, C, M, K, f, bi, bj
<1>11. d > 0 => Alive(s, M, i + Len(C) - 1)
  <2> SUFFICES ASSUME d > 0 PROVE Alive(s, M, i + Len(C) - 1)
    OBVIOUS
  <2>1. Len(M) \in Nat /\ Len(L) = Len(M) + bi /\ Len(C) = bj /\ Len(B) = bi
    BY <1>4, LineTyped DEF Joined, bi, bj
  <2>2. i + Len(C) - 1 \in i..Len(M) /\ (i + Len(C) - 1) + Len(B) = f
    BY <1>1, <1>2, <1>3, <2>1
  <2>3. \A k \in i..Len(M) : Alive(s, L, k + Len(B)) <=> Alive(s, M, k)
    BY <1>2, <1>4, JoinedAlive
  <2>4. Alive(s, L, f) <=> Alive(s, M, i + Len(C) - 1)
    BY <2>2, <2>3
  <2> QED BY <1>7, <1>8, <1>9, <2>4
<1>12. d > 0 => Alive(s, K, i - 1)
  <2> SUFFICES ASSUME d > 0 PROVE Alive(s, K, i - 1)
    OBVIOUS
  <2>1. i - 1 \in 1..j - 1
    BY <1>1, <1>2, <1>10
  <2>2. \A k \in 1..j - 1 : Alive(s, L, k) <=> Alive(s, K, k)
    BY <1>3, <1>5, JoinedAlive
  <2> QED BY <1>7, <1>9, <1>10, <2>1, <2>2
<1>13. AsPart(M, i + Len(C), B) => d > 0
  BY <1>2 DEF AsPart, bi
<1>14. AsPart(K, i, C) => d > 0
  BY <1>3 DEF AsPart, bj
<1> QED BY <1>6, <1>11, <1>12, <1>13, <1>14 DEF Fitting, B, C, M, K

LEMMA ExchangedKeeps ==
  ASSUME NEW F, FileOk(F), NEW s \in Sections, NEW i \in 1..Len(F[s]), NEW j \in 1..Len(F[s]),
         Follows(F[s], i, j), F[s][i].depth = F[s][j].depth,
         Alive(s, F[s], i) \/ Alive(s, F[s], j)
  PROVE  Keeps(F, [F EXCEPT ![s] = Exchanged(F[s], i, j)])
<1> DEFINE L == F[s]  B == Block(L, i)  C == Block(L, j)  M == Cut(L, i)  K == Cut(L, j)
           N == Exchanged(L, i, j)
<1>1. Section(L) /\ L \in Seq(RawLine) /\ L[i].depth \in Nat
  BY FileSections, LineTyped
<1>2. /\ i + Len(C) \in 1..Len(M) + 1 /\ i \in 1..Len(K) + 1
      /\ Joined(M, i + Len(C), B, N) /\ Fitting(s, M, i + Len(C), B)
      /\ Joined(K, i, C, N) /\ Fitting(s, K, i, C)
  BY <1>1, ExchangedIs, ExchangedFits
<1>3. /\ B \in Seq(RawLine) /\ B # <<>> /\ C \in Seq(RawLine) /\ C # <<>>
      /\ M \in Seq(RawLine) /\ K \in Seq(RawLine)
  BY <1>1, BlockLines, CutLines
<1>4. Alive(s, L, i) => Taken(F, [F EXCEPT ![s] = M], B)
  BY Takes
<1>5. Alive(s, L, j) => Taken(F, [F EXCEPT ![s] = K], C)
  BY Takes
<1>6. Alive(s, L, i) \/ Alive(s, L, j)
  OBVIOUS
<1> HIDE DEF N, B, C, M, K, L
<1>7. Alive(s, L, i) => Keeps(F, [F EXCEPT ![s] = N])
  BY <1>2, <1>3, <1>4, PutBack
<1>8. Alive(s, L, j) => Keeps(F, [F EXCEPT ![s] = N])
  BY <1>2, <1>3, <1>5, PutBack
<1> QED BY <1>6, <1>7, <1>8 DEF N, L

-----------------------------------------------------------------------------
(* The invariant *)

AllSaid(files) == UNION {SaidIn(files[p]) : p \in Projects}

BoardInv ==
  /\ doc \in [Projects -> [Sections -> Seq(RawLine)]]
  /\ \A p \in Projects : FileOk(doc[p])
  /\ written \subseteq AllSaid(doc)
  /\ faults \in Nat
  /\ faults = 0 =>
       /\ \A p \in Projects : OnceIn(doc[p]) /\ HeldIn(doc[p]) \subseteq written
       /\ \A p, q \in Projects : p # q => HeldIn(doc[p]) \cap HeldIn(doc[q]) = {}

LEMMA InFilesSaid ==
  ASSUME \A p \in Projects : FileOk(doc[p])
  PROVE  InFiles = AllSaid(doc)
<1>1. \A p \in Projects, s \in Sections : DOMAIN doc[p][s] = 1..Len(doc[p][s])
  BY FileSections, LenProperties
<1>2. \A p \in Projects, s \in Sections :
         {doc[p][s][i].item : i \in DOMAIN doc[p][s]} = Said(doc[p][s])
  BY <1>1 DEF Said
<1>3. ASSUME NEW x \in InFiles PROVE x \in AllSaid(doc)
  <2>1. PICK p \in Projects, s \in Sections : x \in {doc[p][s][i].item : i \in DOMAIN doc[p][s]}
    BY <1>3 DEF InFiles
  <2>2. x \in Said(doc[p][s])
    BY <1>2, <2>1
  <2> QED BY <2>2 DEF AllSaid, SaidIn
<1>4. ASSUME NEW x \in AllSaid(doc) PROVE x \in InFiles
  <2>1. PICK p \in Projects, s \in Sections : x \in Said(doc[p][s])
    BY <1>4 DEF AllSaid, SaidIn
  <2>2. x \in {doc[p][s][i].item : i \in DOMAIN doc[p][s]}
    BY <1>2, <2>1
  <2> DEFINE In(q, t) == {doc[q][t][i].item : i \in DOMAIN doc[q][t]}
  <2>3. InFiles = UNION {In(q, t) : q \in Projects, t \in Sections} /\ x \in In(p, s)
    BY <2>2 DEF InFiles
  <2> HIDE DEF In
  <2> QED BY <2>3
<1> QED BY <1>3, <1>4

LEMMA HeldSaid ==
  ASSUME NEW F
  PROVE  HeldIn(F) \subseteq SaidIn(F)
  BY DEF HeldIn, SaidIn, Held, Said

LEMMA FileIs ==
  ASSUME NEW H, FileOk(H)
  PROVE  H \in [Sections -> Seq(RawLine)]
  BY DEF FileOk

\* What a step has to do.
StepKept == BoardInv' /\ \A p \in Projects : Past(doc[p], doc'[p])

LEMMA OthersPast ==
  ASSUME BoardInv, NEW q \in Projects
  PROVE  Past(doc[q], doc[q])
  BY PastFiles DEF BoardInv

LEMMA StepKeeps ==
  ASSUME BoardInv, NEW p \in Projects, NEW H, Keeps(doc[p], H),
         doc' = [doc EXCEPT ![p] = H], written' = written, faults' = faults
  PROVE  StepKept
<1>1. /\ FileOk(H) /\ H \in [Sections -> Seq(RawLine)]
      /\ SaidIn(doc[p]) \subseteq SaidIn(H) /\ HeldIn(H) \subseteq HeldIn(doc[p])
      /\ OnceIn(doc[p]) => OnceIn(H)
  BY FileIs DEF Keeps
<1>1a. \A q \in Projects : Past(doc[q], IF q = p THEN H ELSE doc[q])
  BY OthersPast DEF Keeps
<1>2. doc \in [Projects -> [Sections -> Seq(RawLine)]] /\ \A q \in Projects : FileOk(doc[q])
  BY DEF BoardInv
<1>3. doc' \in [Projects -> [Sections -> Seq(RawLine)]]
      /\ \A q \in Projects : doc'[q] = IF q = p THEN H ELSE doc[q]
  BY <1>1, <1>2
<1>4. AllSaid(doc) \subseteq AllSaid(doc')
  BY <1>1, <1>3 DEF AllSaid
<1>5. \A q \in Projects : HeldIn(doc'[q]) \subseteq HeldIn(doc[q]) /\ (OnceIn(doc[q]) => OnceIn(doc'[q]))
  BY <1>1, <1>3
<1>6. faults = 0 =>
        /\ \A q \in Projects : OnceIn(doc'[q]) /\ HeldIn(doc'[q]) \subseteq written
        /\ \A q, r \in Projects : q # r => HeldIn(doc'[q]) \cap HeldIn(doc'[r]) = {}
  <2> SUFFICES ASSUME faults = 0
               PROVE  /\ \A q \in Projects : OnceIn(doc'[q]) /\ HeldIn(doc'[q]) \subseteq written
                      /\ \A q, r \in Projects : q # r => HeldIn(doc'[q]) \cap HeldIn(doc'[r]) = {}
    OBVIOUS
  <2>1. /\ \A q \in Projects : OnceIn(doc[q]) /\ HeldIn(doc[q]) \subseteq written
        /\ \A q, r \in Projects : q # r => HeldIn(doc[q]) \cap HeldIn(doc[r]) = {}
    BY DEF BoardInv
  <2> QED BY <1>5, <2>1
<1>7. \A q \in Projects : FileOk(doc'[q])
  BY <1>1, <1>2, <1>3
<1>8. written \subseteq AllSaid(doc') /\ faults \in Nat
  BY <1>4 DEF BoardInv
<1> QED BY <1>1a, <1>3, <1>6, <1>7, <1>8 DEF BoardInv, StepKept

LEMMA StepGiven ==
  ASSUME BoardInv, NEW p \in Projects, NEW x, x \notin AllSaid(doc), NEW H, NEW B,
         Given(doc[p], H, B), Said(B) = {x}, Distinct(B),
         doc' = [doc EXCEPT ![p] = H], written' = written \cup {x}, faults' = faults
  PROVE  StepKept
<1>1. /\ FileOk(H) /\ H \in [Sections -> Seq(RawLine)]
      /\ SaidIn(doc[p]) \cup {x} \subseteq SaidIn(H) /\ HeldIn(H) \subseteq HeldIn(doc[p]) \cup {x}
      /\ OnceIn(doc[p]) /\ HeldIn(doc[p]) \cap {x} = {} => OnceIn(H)
  BY FileIs DEF Given
<1>1a. \A q \in Projects : Past(doc[q], IF q = p THEN H ELSE doc[q])
  BY OthersPast DEF Given
<1>2. doc \in [Projects -> [Sections -> Seq(RawLine)]] /\ \A q \in Projects : FileOk(doc[q])
  BY DEF BoardInv
<1>3. doc' \in [Projects -> [Sections -> Seq(RawLine)]]
      /\ \A q \in Projects : doc'[q] = IF q = p THEN H ELSE doc[q]
  BY <1>1, <1>2
<1>4. AllSaid(doc) \cup {x} \subseteq AllSaid(doc')
  BY <1>1, <1>3 DEF AllSaid
<1>5. \A q \in Projects : x \notin HeldIn(doc[q])
  BY HeldSaid DEF AllSaid
<1>6. faults = 0 =>
        /\ \A q \in Projects : OnceIn(doc'[q]) /\ HeldIn(doc'[q]) \subseteq written \cup {x}
        /\ \A q, r \in Projects : q # r => HeldIn(doc'[q]) \cap HeldIn(doc'[r]) = {}
  <2> SUFFICES ASSUME faults = 0
               PROVE  /\ \A q \in Projects : OnceIn(doc'[q]) /\ HeldIn(doc'[q]) \subseteq written \cup {x}
                      /\ \A q, r \in Projects : q # r => HeldIn(doc'[q]) \cap HeldIn(doc'[r]) = {}
    OBVIOUS
  <2>1. /\ \A q \in Projects : OnceIn(doc[q]) /\ HeldIn(doc[q]) \subseteq written
        /\ \A q, r \in Projects : q # r => HeldIn(doc[q]) \cap HeldIn(doc[r]) = {}
    BY DEF BoardInv
  <2>2. OnceIn(H)
    BY <1>1, <1>5, <2>1
  <2>3. \A q \in Projects : OnceIn(doc'[q]) /\ HeldIn(doc'[q]) \subseteq written \cup {x}
    BY <1>1, <1>3, <2>1, <2>2
  <2>4. \A q \in Projects : q # p => HeldIn(doc'[q]) \cap HeldIn(H) = {}
    BY <1>1, <1>3, <1>5, <2>1
  <2>5. \A q, r \in Projects : q # r => HeldIn(doc'[q]) \cap HeldIn(doc'[r]) = {}
    <3> SUFFICES ASSUME NEW q \in Projects, NEW r \in Projects, q # r
                 PROVE  HeldIn(doc'[q]) \cap HeldIn(doc'[r]) = {}
      OBVIOUS
    <3>1. CASE q = p
      BY <1>3, <2>4, <3>1
    <3>2. CASE r = p
      BY <1>3, <2>4, <3>2
    <3>3. CASE q # p /\ r # p
      BY <1>3, <2>1, <3>3
    <3> QED BY <3>1, <3>2, <3>3
  <2> QED BY <2>3, <2>5
<1>7. \A q \in Projects : FileOk(doc'[q])
  BY <1>1, <1>2, <1>3
<1>8. written \cup {x} \subseteq AllSaid(doc') /\ faults \in Nat
  BY <1>4 DEF BoardInv
<1> QED BY <1>1a, <1>3, <1>6, <1>7, <1>8 DEF BoardInv, StepKept

LEMMA StepDropped ==
  ASSUME BoardInv, NEW p \in Projects, NEW H, NEW X, Dropped(doc[p], H, X),
         doc' = [doc EXCEPT ![p] = H], written' = written \ X, faults' = faults
  PROVE  StepKept
<1>1. /\ FileOk(H) /\ H \in [Sections -> Seq(RawLine)]
      /\ SaidIn(doc[p]) \subseteq SaidIn(H) \cup X
      /\ HeldIn(H) \subseteq HeldIn(doc[p]) /\ X \subseteq HeldIn(doc[p])
      /\ OnceIn(doc[p]) => OnceIn(H) /\ HeldIn(H) \cap X = {}
  BY FileIs DEF Dropped
<1>1a. \A q \in Projects : Past(doc[q], IF q = p THEN H ELSE doc[q])
  BY OthersPast DEF Dropped
<1>2. doc \in [Projects -> [Sections -> Seq(RawLine)]] /\ \A q \in Projects : FileOk(doc[q])
  BY DEF BoardInv
<1>3. doc' \in [Projects -> [Sections -> Seq(RawLine)]]
      /\ \A q \in Projects : doc'[q] = IF q = p THEN H ELSE doc[q]
  BY <1>1, <1>2
<1>4. AllSaid(doc) \subseteq AllSaid(doc') \cup X
  BY <1>1, <1>3 DEF AllSaid
<1>5. faults = 0 =>
        /\ \A q \in Projects : OnceIn(doc'[q]) /\ HeldIn(doc'[q]) \subseteq written \ X
        /\ \A q, r \in Projects : q # r => HeldIn(doc'[q]) \cap HeldIn(doc'[r]) = {}
  <2> SUFFICES ASSUME faults = 0
               PROVE  /\ \A q \in Projects : OnceIn(doc'[q]) /\ HeldIn(doc'[q]) \subseteq written \ X
                      /\ \A q, r \in Projects : q # r => HeldIn(doc'[q]) \cap HeldIn(doc'[r]) = {}
    OBVIOUS
  <2>1. /\ \A q \in Projects : OnceIn(doc[q]) /\ HeldIn(doc[q]) \subseteq written
        /\ \A q, r \in Projects : q # r => HeldIn(doc[q]) \cap HeldIn(doc[r]) = {}
    BY DEF BoardInv
  <2>2. \A q \in Projects : HeldIn(doc'[q]) \subseteq HeldIn(doc[q]) /\ OnceIn(doc'[q])
    BY <1>1, <1>3, <2>1
  <2>3. \A q \in Projects : HeldIn(doc'[q]) \cap X = {}
    BY <1>1, <1>3, <2>1
  <2> QED BY <2>1, <2>2, <2>3
<1>6. \A q \in Projects : FileOk(doc'[q])
  BY <1>1, <1>2, <1>3
<1>7. written \ X \subseteq AllSaid(doc') /\ faults \in Nat
  BY <1>4 DEF BoardInv
<1> QED BY <1>1a, <1>3, <1>5, <1>6, <1>7 DEF BoardInv, StepKept

LEMMA StepMoves ==
  ASSUME BoardInv, NEW p \in Projects, NEW q \in Projects, p # q, NEW G, NEW H, NEW B, NEW C,
         Taken(doc[p], G, B), Given(doc[q], H, C), Alike(B, C),
         doc' = [doc EXCEPT ![p] = G, ![q] = H], written' = written, faults' = faults
  PROVE  StepKept
<1>0. Said(B) = Said(C) /\ (Distinct(B) <=> Distinct(C))
  BY AlikeSays
<1>1. /\ FileOk(G) /\ G \in [Sections -> Seq(RawLine)]
      /\ SaidIn(doc[p]) \subseteq SaidIn(G) \cup Said(B)
      /\ HeldIn(G) \subseteq HeldIn(doc[p]) /\ Said(B) \subseteq HeldIn(doc[p])
      /\ OnceIn(doc[p]) => OnceIn(G) /\ Distinct(B) /\ HeldIn(G) \cap Said(B) = {}
  BY FileIs DEF Taken
<1>2. /\ FileOk(H) /\ H \in [Sections -> Seq(RawLine)]
      /\ SaidIn(doc[q]) \cup Said(B) \subseteq SaidIn(H)
      /\ HeldIn(H) \subseteq HeldIn(doc[q]) \cup Said(B)
      /\ OnceIn(doc[q]) /\ Distinct(B) /\ HeldIn(doc[q]) \cap Said(B) = {} => OnceIn(H)
  BY <1>0, FileIs DEF Given
<1>2a. \A r \in Projects : Past(doc[r], IF r = q THEN H ELSE IF r = p THEN G ELSE doc[r])
  BY OthersPast DEF Taken, Given
<1>3. doc \in [Projects -> [Sections -> Seq(RawLine)]] /\ \A r \in Projects : FileOk(doc[r])
  BY DEF BoardInv
<1>4. doc' \in [Projects -> [Sections -> Seq(RawLine)]]
      /\ \A r \in Projects : doc'[r] = IF r = q THEN H ELSE IF r = p THEN G ELSE doc[r]
  BY <1>1, <1>2, <1>3
<1>5. AllSaid(doc) \subseteq AllSaid(doc')
  <2>1. \A r \in Projects : SaidIn(doc[r]) \subseteq SaidIn(doc'[r]) \cup SaidIn(doc'[q])
    BY <1>1, <1>2, <1>4
  <2> QED BY <2>1 DEF AllSaid
<1>6. faults = 0 =>
        /\ \A r \in Projects : OnceIn(doc'[r]) /\ HeldIn(doc'[r]) \subseteq written
        /\ \A r, t \in Projects : r # t => HeldIn(doc'[r]) \cap HeldIn(doc'[t]) = {}
  <2> SUFFICES ASSUME faults = 0
               PROVE  /\ \A r \in Projects : OnceIn(doc'[r]) /\ HeldIn(doc'[r]) \subseteq written
                      /\ \A r, t \in Projects : r # t => HeldIn(doc'[r]) \cap HeldIn(doc'[t]) = {}
    OBVIOUS
  <2>1. /\ \A r \in Projects : OnceIn(doc[r]) /\ HeldIn(doc[r]) \subseteq written
        /\ \A r, t \in Projects : r # t => HeldIn(doc[r]) \cap HeldIn(doc[t]) = {}
    BY DEF BoardInv
  <2>2. OnceIn(G) /\ Distinct(B) /\ HeldIn(G) \cap Said(B) = {}
    BY <1>1, <2>1
  <2>3. OnceIn(H)
    BY <1>1, <1>2, <2>1, <2>2
  <2>4. \A r \in Projects : r # p => HeldIn(doc[r]) \cap Said(B) = {}
    BY <1>1, <2>1
  <2>5. \A r \in Projects : r # q => HeldIn(doc'[r]) \subseteq HeldIn(doc[r]) /\ HeldIn(doc'[r]) \cap Said(B) = {}
    BY <1>1, <1>4, <2>2, <2>4
  <2>6. \A r \in Projects : r # q => HeldIn(doc'[r]) \cap HeldIn(doc'[q]) = {}
    <3> SUFFICES ASSUME NEW r \in Projects, r # q PROVE HeldIn(doc'[r]) \cap HeldIn(doc'[q]) = {}
      OBVIOUS
    <3>1. HeldIn(doc'[q]) \subseteq HeldIn(doc[q]) \cup Said(B)
      BY <1>2, <1>4
    <3>2. HeldIn(doc[r]) \cap HeldIn(doc[q]) = {}
      BY <2>1
    <3> QED BY <2>5, <3>1, <3>2
  <2>7. \A r, t \in Projects : r # t => HeldIn(doc'[r]) \cap HeldIn(doc'[t]) = {}
    <3> SUFFICES ASSUME NEW r \in Projects, NEW t \in Projects, r # t
                 PROVE  HeldIn(doc'[r]) \cap HeldIn(doc'[t]) = {}
      OBVIOUS
    <3>1. CASE r = q
      BY <2>6, <3>1
    <3>2. CASE t = q
      BY <2>6, <3>2
    <3>3. CASE r # q /\ t # q
      BY <2>1, <2>5, <3>3
    <3> QED BY <3>1, <3>2, <3>3
  <2>8. \A r \in Projects : OnceIn(doc'[r])
    BY <1>4, <2>1, <2>2, <2>3
  <2>9. \A r \in Projects : HeldIn(doc'[r]) \subseteq written
    BY <1>1, <1>2, <1>4, <2>1
  <2> QED BY <2>7, <2>8, <2>9
<1>7. \A r \in Projects : FileOk(doc'[r])
  BY <1>1, <1>2, <1>3, <1>4
<1>8. written \subseteq AllSaid(doc') /\ faults \in Nat
  BY <1>5 DEF BoardInv
<1> QED BY <1>2a, <1>4, <1>6, <1>7, <1>8 DEF BoardInv, StepKept

LEMMA StepFails ==
  ASSUME BoardInv, NEW q \in Projects, NEW H, NEW C, Given(doc[q], H, C),
         doc' = [doc EXCEPT ![q] = H], written' = written, faults' = faults + 1
  PROVE  StepKept
<1>1. /\ FileOk(H) /\ H \in [Sections -> Seq(RawLine)] /\ SaidIn(doc[q]) \subseteq SaidIn(H)
  BY FileIs DEF Given
<1>1a. \A r \in Projects : Past(doc[r], IF r = q THEN H ELSE doc[r])
  BY OthersPast DEF Given
<1>2. doc \in [Projects -> [Sections -> Seq(RawLine)]] /\ \A r \in Projects : FileOk(doc[r])
  BY DEF BoardInv
<1>3. doc' \in [Projects -> [Sections -> Seq(RawLine)]]
      /\ \A r \in Projects : doc'[r] = IF r = q THEN H ELSE doc[r]
  BY <1>1, <1>2
<1>4. AllSaid(doc) \subseteq AllSaid(doc')
  BY <1>1, <1>3 DEF AllSaid
<1>5. \A r \in Projects : FileOk(doc'[r])
  BY <1>1, <1>2, <1>3
<1>6. written' \subseteq AllSaid(doc')
  BY <1>4 DEF BoardInv
<1>7. faults' \in Nat /\ faults' # 0
  <2>1. faults \in Nat
    BY DEF BoardInv
  <2> QED BY <2>1
<1> QED BY <1>1a, <1>3, <1>5, <1>6, <1>7 DEF BoardInv, StepKept

-----------------------------------------------------------------------------
(* The operations keep it *)

LEMMA Place ==
  ASSUME BoardInv, NEW p \in Projects, NEW s \in Sections, NEW i \in DOMAIN doc[p][s]
  PROVE  /\ FileOk(doc[p]) /\ Section(doc[p][s]) /\ doc[p][s] \in Seq(RawLine)
         /\ i \in 1..Len(doc[p][s])
         /\ doc[p][s][i].item \in Items
         /\ Editable(doc[p], s, i) <=> Alive(s, doc[p][s], i)
<1>1. FileOk(doc[p])
  BY DEF BoardInv
<1>2. Section(doc[p][s]) /\ doc[p][s] \in Seq(RawLine)
  BY <1>1, FileSections
<1>3. i \in 1..Len(doc[p][s]) /\ doc[p][s][i].item \in Items
  BY <1>2, LineTyped
<1> QED BY <1>1, <1>2, <1>3, EditableAlive

LEMMA WriteStatusKeeps ==
  ASSUME BoardAssumption, BoardInv, NEW p \in Projects, NEW s \in Sections, NEW i \in DOMAIN doc[p][s],
         NEW status \in Statuses, WriteStatus(p, s, i, status)
  PROVE  StepKept
<1> DEFINE G == [doc[p] EXCEPT ![s][i].status = status]
           H == Settled(G, s, i, doc[p][s][i].status)
<1>1. /\ Editable(doc[p], s, i) /\ doc' = [doc EXCEPT ![p] = H]
      /\ written' = written /\ faults' = faults
  BY DEF WriteStatus, Task, Commit
<1>2. FileOk(doc[p]) /\ i \in 1..Len(doc[p][s]) /\ Alive(s, doc[p][s], i)
  BY <1>1, Place
<1>3. /\ Keeps(doc[p], G) /\ Len(G[s]) = Len(doc[p][s])
      /\ G[s][i].item = doc[p][s][i].item
      /\ Alive(s, G[s], i) <=> Alive(s, doc[p][s], i)
  <2> HIDE DEF G
  <2>1. LET G0 == [doc[p] EXCEPT ![s][i].status = status] IN
        /\ Keeps(doc[p], G0) /\ Len(G0[s]) = Len(doc[p][s])
        /\ G0[s][i].item = doc[p][s][i].item
        /\ Alive(s, G0[s], i) <=> Alive(s, doc[p][s], i)
    BY <1>2, StatusKeeps, Zenon
  <2> QED BY <2>1 DEF G
<1> HIDE DEF G
<1>4. FileOk(G) /\ i \in 1..Len(G[s]) /\ Alive(s, G[s], i)
  BY <1>2, <1>3 DEF Keeps
<1>5. Keeps(G, H)
  BY <1>4, SettledKeeps
<1>6. Keeps(doc[p], H)
  BY <1>3, <1>5, KeepsOn
<1> QED BY <1>1, <1>6, StepKeeps

LEMMA VaultTicksKeeps ==
  ASSUME BoardAssumption, BoardInv, NEW p \in Projects, NEW i, NEW status \in {"todo", "done"},
         VaultTicks(p, i, status)
  PROVE  StepKept
<1>1. "open" \in Sections /\ status \in Statuses
  BY DEF Sections, BoardAssumption
<1>2. /\ i \in DOMAIN doc[p]["open"]
      /\ doc' = [doc EXCEPT ![p] = [doc[p] EXCEPT !["open"][i].status = status]]
      /\ written' = written /\ faults' = faults
  BY DEF VaultTicks, Commit
<1>3. FileOk(doc[p]) /\ i \in 1..Len(doc[p]["open"]) /\ Alive("open", doc[p]["open"], i)
  BY <1>1, <1>2, Place, OpenAlive
<1>4. Keeps(doc[p], [doc[p] EXCEPT !["open"][i].status = status])
  BY <1>1, <1>3, StatusKeeps
<1> QED BY <1>2, <1>4, StepKeeps

LEMMA SweepKeeps ==
  ASSUME BoardAssumption, BoardInv, NEW p \in Projects, Sweep(p)
  PROVE  StepKept
<1>1. doc' = [doc EXCEPT ![p] = Swept(doc[p])] /\ written' = written /\ faults' = faults
  BY DEF Sweep, Commit
<1>2. Keeps(doc[p], Swept(doc[p]))
  BY SweptKeeps DEF BoardInv
<1> QED BY <1>1, <1>2, StepKeeps

\* A new line, below a task or as a task of its own.
LEMMA PlainLine ==
  ASSUME NEW x \in Items, NEW d \in Nat, NEW status \in Statuses
  PROVE  /\ NewLine(x, d, status) \in RawLine
         /\ NewLine(x, d, status).item = x /\ NewLine(x, d, status).depth = d
BY DEF NewLine, RawLine

LEMMA NewBelow ==
  ASSUME NEW F, FileOk(F), NEW s \in Sections, NEW i \in 1..Len(F[s]), Alive(s, F[s], i),
         NEW x \in Items, NEW status \in Statuses,
         NEW B \in {<<NewLine(x, d, status)>> : d \in {ChildIndent(F[s], i), NoteIndent(F[s], i)}}
  PROVE  Given(F, [F EXCEPT ![s] = Under(F[s], i, B)], B) /\ Said(B) = {x} /\ Distinct(B)
<1>0. PICK d \in {ChildIndent(F[s], i), NoteIndent(F[s], i)} : B = <<NewLine(x, d, status)>>
  OBVIOUS
<1>1. d \in Nat \ {0} /\ d \in Nat
  BY FileSections, IndentDeep
<1>2. NewLine(x, d, status) \in RawLine /\ NewLine(x, d, status).item = x /\ NewLine(x, d, status).depth = d
  BY <1>1, PlainLine
<1>3. /\ B \in Seq(RawLine) /\ B # <<>> /\ Len(B) = 1 /\ B[1].depth = d
      /\ Said(B) = {x} /\ Distinct(B)
  BY <1>0, <1>2, OneLine
<1>4. \A k \in 1..Len(B) : B[k].depth > 0
  BY <1>1, <1>3
<1>5. Given(F, [F EXCEPT ![s] = Under(F[s], i, B)], B)
  BY <1>3, <1>4, UnderGiven
<1> QED BY <1>3, <1>5

LEMMA NewAlone ==
  ASSUME NEW F, FileOk(F), NEW x \in Items \ Notes, NEW line \in RawLine, line.depth = 0, line.item = x,
         NEW B, B = <<line>>
  PROVE  Given(F, IntoOpen(F, B), B) /\ Given(F, IntoDone(F, B), B) /\ Said(B) = {x} /\ Distinct(B)
<1>1. B \in Seq(RawLine) /\ B # <<>> /\ Len(B) = 1 /\ B[1] = line /\ Said(B) = {x} /\ Distinct(B)
  BY OneLine
<1>2. B[1].depth = 0 /\ ~IsNote(B[1]) /\ \A k \in 2..Len(B) : B[k].depth > 0
  BY <1>1 DEF IsNote
<1> QED BY <1>1, <1>2, GivesDone

LEMMA CreateKeeps ==
  ASSUME BoardAssumption, BoardInv, NEW p \in Projects, NEW x \in Items, NEW status \in Statuses,
         Create(p, x, status)
  PROVE  StepKept
<1> DEFINE F == doc[p]
<1>1. /\ x \in Items \ Notes /\ x \notin AllSaid(doc) /\ written' = written \cup {x} /\ faults' = faults
  BY InFilesSaid DEF Create, BoardInv
<1>2. FileOk(F)
  BY DEF BoardInv
<1> DEFINE B == <<NewLine(x, 0, status)>>  C == <<[NewLine(x, 0, status) EXCEPT !.stamp = TRUE]>>
<1>3. /\ Given(F, IntoOpen(F, B), B) /\ Said(B) = {x} /\ Distinct(B)
      /\ Given(F, IntoDone(F, C), C) /\ Said(C) = {x} /\ Distinct(C)
  <2>1. NewLine(x, 0, status) \in RawLine /\ NewLine(x, 0, status).depth = 0 /\ NewLine(x, 0, status).item = x
    BY <1>1, PlainLine
  <2> DEFINE plain == NewLine(x, 0, status)  line == [plain EXCEPT !.stamp = TRUE]
  <2>2. line \in RawLine /\ line.depth = 0 /\ line.item = x
    BY <2>1 DEF RawLine
  <2>3. B = <<plain>> /\ C = <<line>>
    OBVIOUS
  <2>4. plain \in RawLine /\ plain.depth = 0 /\ plain.item = x
    BY <2>1
  <2> HIDE DEF plain, line, B, C
  <2> QED BY <1>1, <1>2, <2>2, <2>3, <2>4, NewAlone
<1>4. CASE Commit(p, IF status = "done" THEN IntoDone(F, C) ELSE IntoOpen(F, B), x)
  <2>1. doc' = [doc EXCEPT ![p] = IntoDone(F, C)] \/ doc' = [doc EXCEPT ![p] = IntoOpen(F, B)]
    BY <1>4 DEF Commit
  <2> HIDE DEF B, C
  <2> QED BY <1>1, <1>3, <2>1, StepGiven
<1>5. CASE \E w \in Places(p) : LET s == w[1]  i == w[2] IN
             /\ Task(p, s, i)
             /\ Commit(p, [F EXCEPT ![s] = Under(@, i, <<NewLine(x, ChildIndent(@, i), status)>>)], x)
  <2>1. PICK w \in Places(p) :
          /\ Task(p, w[1], w[2])
          /\ Commit(p, [F EXCEPT ![w[1]] = Under(@, w[2], <<NewLine(x, ChildIndent(@, w[2]), status)>>)], x)
    BY <1>5
  <2> DEFINE s == w[1]  i == w[2]  D == <<NewLine(x, ChildIndent(F[s], i), status)>>
  <2>2. s \in Sections /\ i \in DOMAIN F[s]
    BY DEF Places
  <2>3. doc' = [doc EXCEPT ![p] = [F EXCEPT ![s] = Under(F[s], i, D)]]
    BY <2>1 DEF Commit
  <2> HIDE DEF s, i
  <2>4. i \in 1..Len(F[s]) /\ Alive(s, F[s], i)
    BY <2>1, <2>2, Place DEF Task, s, i
  <2>5. Given(F, [F EXCEPT ![s] = Under(F[s], i, D)], D) /\ Said(D) = {x} /\ Distinct(D)
    <3>1. D \in {<<NewLine(x, d, status)>> : d \in {ChildIndent(F[s], i), NoteIndent(F[s], i)}}
      OBVIOUS
    <3> HIDE DEF D
    <3>2. FileOk(F) /\ s \in Sections /\ i \in 1..Len(F[s]) /\ Alive(s, F[s], i)
      BY <1>2, <2>2, <2>4
    <3> HIDE DEF F
    <3> QED BY <3>1, <3>2, NewBelow
  <2> HIDE DEF D
  <2> QED BY <1>1, <2>3, <2>5, StepGiven
<1> QED BY <1>4, <1>5 DEF Create

LEMMA AddNoteKeeps ==
  ASSUME BoardAssumption, BoardInv, NEW p \in Projects, NEW s \in Sections, NEW i \in DOMAIN doc[p][s],
         NEW x \in Items, AddNote(p, s, i, x)
  PROVE  StepKept
<1> DEFINE F == doc[p]  B == <<NewLine(x, NoteIndent(F[s], i), "todo")>>
           H == [F EXCEPT ![s] = Under(F[s], i, B)]
<1>1. /\ x \notin AllSaid(doc) /\ doc' = [doc EXCEPT ![p] = H] /\ Editable(F, s, i)
      /\ written' = written \cup {x} /\ faults' = faults
  BY InFilesSaid DEF AddNote, Commit, Task, BoardInv
<1>2. FileOk(F) /\ i \in 1..Len(F[s]) /\ Alive(s, F[s], i)
  BY <1>1, Place
<1>3. Given(F, H, B) /\ Said(B) = {x} /\ Distinct(B)
  <2>1. "todo" \in Statuses
    BY DEF BoardAssumption
  <2>2. B \in {<<NewLine(x, d, "todo")>> : d \in {ChildIndent(F[s], i), NoteIndent(F[s], i)}}
    OBVIOUS
  <2> HIDE DEF F, B
  <2> QED BY <1>2, <2>1, <2>2, NewBelow
<1> HIDE DEF H, B
<1> QED BY <1>1, <1>3, StepGiven

LEMMA DeleteNoteKeeps ==
  ASSUME BoardInv, NEW p \in Projects, NEW s \in Sections, NEW i \in DOMAIN doc[p][s],
         DeleteNote(p, s, i)
  PROVE  StepKept
<1> DEFINE F == doc[p]  L == F[s]
           kept == {k \in (i + 1)..BlockEnd(L, i) :
                      \E j \in (i + 1)..k : ~IsNote(L[j]) /\ k <= BlockEnd(L, j)}
           gone == i..BlockEnd(L, i) \ kept
           H    == [F EXCEPT ![s] = Without(L, gone)]
           X    == {L[k].item : k \in gone}
<1>1. /\ IsNote(L[i]) /\ Editable(F, s, i)
      /\ doc' = [doc EXCEPT ![p] = H] /\ written' = written \ X /\ faults' = faults
  BY DEF DeleteNote, Owned, Commit
<1>2. FileOk(F) /\ Section(L) /\ i \in 1..Len(L) /\ Alive(s, L, i)
  BY <1>1, Place
<1>3. L[i].depth > 0
  BY <1>1, <1>2 DEF Section, Rooted
<1>4. \A k \in i..BlockEnd(L, i) : k \in 1..Len(L) /\ L[k].depth > 0 /\ Alive(s, L, k)
  BY <1>2, <1>3, BlockAlive
<1>5. gone \subseteq i..BlockEnd(L, i)
  OBVIOUS
<1> HIDE DEF gone, F
<1>6. gone \in SUBSET (1..Len(L)) /\ \A k \in gone : L[k].depth > 0 /\ Alive(s, L, k)
  BY <1>4, <1>5
<1>7. Dropped(F, H, X)
  BY <1>2, <1>6, WithoutDrops
<1> HIDE DEF H, X
<1> QED BY <1>1, <1>7, StepDropped DEF F

LEMMA MoveKeeps ==
  ASSUME BoardInv, NEW p \in Projects, NEW s \in Sections, NEW i \in DOMAIN doc[p][s],
         NEW j \in 1..MaxLines, Move(p, s, i, j)
  PROVE  StepKept
<1> DEFINE F == doc[p]  L == F[s]  H == [F EXCEPT ![s] = Exchanged(L, i, j)]
<1>1. /\ j = BlockEnd(L, i) + 1 /\ j <= Len(L) /\ L[i].depth = L[j].depth
      /\ \E k \in {i, j} : Editable(F, s, k)
      /\ doc' = [doc EXCEPT ![p] = H]
      /\ written' = written /\ faults' = faults
  <2>1. doc' = [doc EXCEPT ![p][s] = Exchanged(L, i, j)]
    BY DEF Move, Exchanged
  <2> QED BY <2>1 DEF Move
<1>2. FileOk(F) /\ Section(L) /\ L \in Seq(RawLine) /\ i \in 1..Len(L) /\ (Editable(F, s, i) <=> Alive(s, L, i))
  BY Place
<1>3. Len(L) \in Nat /\ DOMAIN L = 1..Len(L)
  BY <1>2, LenProperties
<1>4. Follows(L, i, j)
  BY <1>1 DEF Follows
<1>5. j \in 1..Len(L) /\ j \in DOMAIN L
  <2>1. j <= Len(L)
    BY <1>1
  <2>2. j \in 1..Len(L)
    BY <1>3, <2>1
  <2> QED BY <1>3, <2>2
<1>6. Editable(F, s, j) <=> Alive(s, L, j)
  BY <1>5, Place
<1>7. Alive(s, L, i) \/ Alive(s, L, j)
  BY <1>1, <1>2, <1>6
<1>8. Keeps(F, H)
  BY <1>1, <1>2, <1>4, <1>5, <1>7, ExchangedKeeps
<1> HIDE DEF H
<1> QED BY <1>1, <1>8, StepKeeps

-----------------------------------------------------------------------------
(* A block that is indented anew *)

LEMMA RebasedTask ==
  ASSUME NEW L, Section(L), NEW i \in 1..Len(L), ~IsNote(L[i]), NEW d \in Nat, NEW R, R = Rebased(Block(L, i), d)
  PROVE  /\ R \in Seq(RawLine) /\ R # <<>> /\ Alike(Block(L, i), R)
         /\ R[1].depth = d /\ ~IsNote(R[1])
         /\ \A k \in 2..Len(R) : R[k].depth > 0
         /\ d > 0 => \A k \in 1..Len(R) : R[k].depth > 0
<1> DEFINE B == Block(L, i)
<1>1. /\ B \in Seq(RawLine) /\ B # <<>> /\ B[1] = L[i] /\ Len(B) \in Nat \ {0}
      /\ \A k \in 2..Len(B) : B[k].depth > B[1].depth
  BY BlockLines DEF Section
<1> HIDE DEF B
<1>2. /\ R \in Seq(RawLine) /\ R # <<>> /\ Alike(B, R) /\ R[1].depth = d
      /\ \A k \in 2..Len(B) : R[k].depth > d
  BY <1>1, RebasedLines DEF B
<1>3. Len(R) = Len(B) /\ R[1].item = B[1].item
  <2>1. 1 \in 1..Len(B)
    BY <1>1
  <2> QED BY <1>2, <2>1 DEF Alike
<1>4. \A k \in 1..Len(R) : R[k].depth \in Nat /\ (k = 1 \/ k \in 2..Len(R))
  BY <1>1, <1>2, <1>3, LineTyped
<1>5. \A k \in 2..Len(R) : R[k].depth > 0
  <2>1. \A k \in 2..Len(R) : k \in 1..Len(R)
    BY <1>1, <1>3
  <2> QED BY <1>2, <1>3, <1>4, <2>1
<1>6. d > 0 => \A k \in 1..Len(R) : R[k].depth > 0
  BY <1>2, <1>4, <1>5
<1>7. ~IsNote(R[1])
  BY <1>1, <1>3 DEF IsNote
<1> QED BY <1>2, <1>5, <1>6, <1>7 DEF B

LEMMA RebasedBelow ==
  ASSUME NEW L, Section(L), NEW i \in 1..Len(L), ~IsNote(L[i]), NEW d \in Nat, d > 0
  PROVE  /\ Rebased(Block(L, i), d) \in Seq(RawLine) /\ Rebased(Block(L, i), d) # <<>>
         /\ Alike(Block(L, i), Rebased(Block(L, i), d))
         /\ \A k \in 1..Len(Rebased(Block(L, i), d)) : Rebased(Block(L, i), d)[k].depth > 0
<1> DEFINE R == Rebased(Block(L, i), d)
<1>1. R = Rebased(Block(L, i), d)
  OBVIOUS
<1> HIDE DEF R
<1>2. /\ R \in Seq(RawLine) /\ R # <<>> /\ Alike(Block(L, i), R)
      /\ d > 0 => \A k \in 1..Len(R) : R[k].depth > 0
  BY <1>1, RebasedTask
<1> QED BY <1>2 DEF R

LEMMA PromoteKeeps ==
  ASSUME BoardInv, NEW p \in Projects, NEW s \in Sections, NEW i \in DOMAIN doc[p][s], Promote(p, s, i)
  PROVE  StepKept
<1> DEFINE F == doc[p]  L == F[s]  B == Block(L, i)  M == Cut(L, i)  G == [F EXCEPT ![s] = M]
           R == Rebased(B, 0)  top == TopOf(L, i)  H == [G EXCEPT ![s] = Under(G[s], top, R)]
<1>1. FileOk(F) /\ Section(L) /\ L \in Seq(RawLine) /\ i \in 1..Len(L) /\ (Editable(F, s, i) <=> Alive(s, L, i))
  BY Place
<1>2. /\ ~IsNote(L[i]) /\ Alive(s, L, i) /\ Above(L, i) # {}
      /\ doc' = [doc EXCEPT ![p] = [F EXCEPT ![s] = Under(M, top, R)]]
      /\ written' = written /\ faults' = faults
  BY <1>1 DEF Promote, Commit, Task
<1>3. Taken(F, G, B)
  BY <1>1, <1>2, Takes
<1>4. R \in Seq(RawLine) /\ R # <<>> /\ Alike(B, R) /\ R[1].depth = 0 /\ ~IsNote(R[1])
      /\ \A k \in 2..Len(R) : R[k].depth > 0
  <2>1. 0 \in Nat
    OBVIOUS
  <2>2. R = Rebased(Block(L, i), 0)
    OBVIOUS
  <2> HIDE DEF R, L
  <2> QED BY <1>1, <1>2, <2>1, <2>2, RebasedTask DEF B
<1>5. top \in 1..i /\ L[top].depth = 0 /\ IsTop(L, top)
  BY <1>1, TopIsRoot
<1>6. top # i
  BY <1>2, <1>5 DEF IsTop
<1>7. i \in 1..Len(M) + 1 /\ Len(M) \in Nat /\ \A k \in 1..i - 1 : M[k] = L[k]
  BY <1>1, CutLines, LineTyped DEF Joined
<1>8. FileOk(G) /\ G[s] = M
  <2>1. Section(M)
    BY <1>1, CutSection
  <2> QED BY <1>1, <2>1, OneSection
<1>9. [F EXCEPT ![s] = Under(M, top, R)] = H
  <2>1. F \in [Sections -> Seq(RawLine)]
    BY <1>1 DEF FileOk
  <2> QED BY <1>8, <2>1
<1> HIDE DEF F, L, B, M, G, R, top, H
<1>10. top \in 1..i - 1 /\ top \in 1..Len(M)
  BY <1>5, <1>6, <1>7
<1>11. M[top].depth = 0
  BY <1>5, <1>7, <1>10
<1>12. Given(G, H, R)
  BY <1>4, <1>8, <1>10, <1>11, UnderGiven DEF H
<1>13. Keeps(F, H)
  BY <1>3, <1>4, <1>12, TakenGiven
<1> QED BY <1>2, <1>9, <1>13, StepKeeps DEF F

LEMMA ReparentKeeps ==
  ASSUME BoardInv, NEW p \in Projects, NEW s \in Sections, NEW i \in DOMAIN doc[p][s],
         NEW t \in Sections, NEW j \in DOMAIN doc[p][t], Reparent(p, s, i, t, j)
  PROVE  StepKept
<1> DEFINE F == doc[p]  L == F[s]  B == Block(L, i)  M == Cut(L, i)  G == [F EXCEPT ![s] = M]
           d == ChildIndent(F[t], j)  R == Rebased(B, d)
           at == IF s = t /\ j > i THEN j - Len(B) ELSE j
           H == [G EXCEPT ![t] = Under(G[t], at, R)]
<1>1. FileOk(F) /\ Section(L) /\ L \in Seq(RawLine) /\ i \in 1..Len(L) /\ (Editable(F, s, i) <=> Alive(s, L, i))
  BY Place
<1>2. /\ ~IsNote(L[i]) /\ Alive(s, L, i)
      /\ ~(s = t /\ j \in i..BlockEnd(L, i))
      /\ Editable(F, t, j)
      /\ doc' = [doc EXCEPT ![p] = H]
      /\ written' = written /\ faults' = faults
  BY <1>1 DEF Reparent, Commit, Task
<1>3. Section(F[t]) /\ F[t] \in Seq(RawLine) /\ j \in 1..Len(F[t]) /\ Alive(t, F[t], j)
  BY <1>2, Place
<1>4. Taken(F, G, B)
  BY <1>1, <1>2, Takes
<1>5. d \in Nat \ {0} /\ d \in Nat /\ d > 0
  BY <1>3, IndentDeep
<1> HIDE DEF d
<1>6. R \in Seq(RawLine) /\ R # <<>> /\ Alike(B, R) /\ \A k \in 1..Len(R) : R[k].depth > 0
  BY <1>1, <1>2, <1>5, RebasedTask
<1>7. /\ i \in 1..Len(M) + 1 /\ Len(M) \in Nat /\ Len(L) = Len(M) + Len(B) /\ i \in Nat /\ j \in Nat
      /\ Len(B) = BlockEnd(L, i) - i + 1 /\ Len(B) \in Nat \ {0} /\ BlockEnd(L, i) \in Nat
  <2> HIDE DEF L
  <2>1. i \in Nat /\ j \in Nat
    BY <1>1, <1>3, LineTyped
  <2>2. M \in Seq(RawLine) /\ i \in 1..Len(M) + 1 /\ Joined(M, i, B, L)
    BY <1>1, CutLines
  <2>3. Len(B) = BlockEnd(L, i) - i + 1 /\ Len(B) \in Nat \ {0} /\ BlockEnd(L, i) \in Nat
    BY <1>1, BlockLines
  <2> HIDE DEF M, B
  <2>4. Len(M) \in Nat /\ Len(L) = Len(M) + Len(B)
    BY <2>2, LineTyped DEF Joined
  <2> QED BY <2>1, <2>2, <2>3, <2>4
<1>8. FileOk(G) /\ G[s] = M /\ (t # s => G[t] = F[t])
  <2>1. Section(M)
    BY <1>1, CutSection
  <2> QED BY <1>1, <2>1, OneSection
<1>9. at \in 1..Len(G[t]) /\ Alive(t, G[t], at)
  <2>1. CASE s # t
    BY <1>3, <1>8, <2>1
  <2>2. CASE s = t
    <3>1. G[t] = M /\ j \in 1..Len(L) /\ j \notin i..BlockEnd(L, i)
      BY <1>2, <1>3, <1>8, <2>2
    <3>2. at = IF j > i THEN j - Len(B) ELSE j
      BY <2>2
    <3>2a. Alive(s, L, j)
      BY <1>3, <2>2
    <3>2b. /\ \A k \in 1..i - 1 : Alive(s, L, k) <=> Alive(s, M, k)
           /\ \A k \in i..Len(M) : Alive(s, L, k + Len(B)) <=> Alive(s, M, k)
      <4>1. M \in Seq(RawLine) /\ i \in 1..Len(M) + 1 /\ Joined(M, i, B, L) /\ B \in Seq(RawLine) /\ B # <<>>
        BY <1>1, CutLines, BlockLines
      <4>2. Section(M) /\ (AsFamily(M, i, B) \/ AsPart(M, i, B))
        BY <1>1, CutSection
      <4> HIDE DEF L, B, M
      <4> QED BY <4>1, <4>2, JoinedAlive
    <3> HIDE DEF at, L, B, M, G
    <3>3. \/ j \in 1..i - 1 /\ at = j /\ at \in 1..Len(M)
          \/ j - Len(B) \in i..Len(M) /\ at = j - Len(B) /\ (j - Len(B)) + Len(B) = j /\ at \in 1..Len(M)
      <4>1. CASE j < i
        <5>1. j \in 1..i - 1 /\ at = j /\ at \in 1..Len(M)
          BY <1>7, <3>1, <3>2, <4>1
        <5> QED BY <5>1
      <4>2. CASE ~(j < i)
        <5>1. j > BlockEnd(L, i) /\ j <= Len(L) /\ j > i
          BY <1>7, <3>1, <4>2
        <5>2. at = j - Len(B)
          BY <3>2, <5>1
        <5>3. j - Len(B) \in i..Len(M) /\ (j - Len(B)) + Len(B) = j /\ j - Len(B) \in 1..Len(M)
          BY <1>7, <5>1
        <5> QED BY <5>2, <5>3
      <4> QED BY <4>1, <4>2
    <3>4. Alive(s, M, at)
      BY <3>2a, <3>2b, <3>3
    <3> QED BY <2>2, <3>1, <3>3, <3>4
  <2> QED BY <2>1, <2>2
<1> HIDE DEF F, L, B, M, G, R, at, H
<1>10. Given(G, H, R)
  BY <1>6, <1>8, <1>9, UnderGiven DEF H
<1>11. Keeps(F, H)
  BY <1>4, <1>6, <1>10, TakenGiven
<1> QED BY <1>2, <1>11, StepKeeps DEF F

\* Where a block of another file goes.
LEMMA PlacedGiven ==
  ASSUME BoardInv, NEW p \in Projects, NEW s \in Sections, NEW i \in DOMAIN doc[p][s],
         ~IsNote(doc[p][s][i]), NEW q \in Projects, NEW w \in Places(q) \cup {None},
         w # None => Editable(doc[q], w[1], w[2])
  PROVE  \E R : Alike(Block(doc[p][s], i), R) /\ Given(doc[q], Placed(p, s, i, q, w), R)
<1> DEFINE L == doc[p][s]  B == Block(L, i)  F == doc[q]
<1>1. Section(L) /\ i \in 1..Len(L)
  BY Place
<1>2. FileOk(F)
  BY DEF BoardInv
<1>3. CASE w # None
  <2> DEFINE d == ChildIndent(F[w[1]], w[2])  R == Rebased(B, d)
  <2>1. w[1] \in Sections /\ w[2] \in DOMAIN F[w[1]]
    BY <1>3 DEF Places
  <2>2. F[w[1]] \in Seq(RawLine) /\ w[2] \in 1..Len(F[w[1]]) /\ Alive(w[1], F[w[1]], w[2])
    BY <1>3, <2>1, Place
  <2>3. Placed(p, s, i, q, w) = [F EXCEPT ![w[1]] = Under(F[w[1]], w[2], R)]
    BY <1>3 DEF Placed
  <2>4. d \in Nat \ {0} /\ d \in Nat /\ d > 0
    BY <2>2, IndentDeep
  <2> HIDE DEF d
  <2>5. R \in Seq(RawLine) /\ R # <<>> /\ Alike(B, R) /\ \A k \in 1..Len(R) : R[k].depth > 0
    <3> HIDE DEF L, d
    <3>1. ~IsNote(L[i])
      BY DEF L
    <3> QED BY <1>1, <2>4, <3>1, RebasedBelow
  <2> HIDE DEF F, R
  <2>6. Given(F, [F EXCEPT ![w[1]] = Under(F[w[1]], w[2], R)], R)
    BY <1>2, <2>1, <2>2, <2>5, UnderGiven
  <2> QED BY <2>3, <2>5, <2>6 DEF F
<1>4. CASE w = None
  <2> DEFINE R == Rebased(B, 0)
  <2>1. 0 \in Nat
    OBVIOUS
  <2>2. R \in Seq(RawLine) /\ R # <<>> /\ Alike(B, R) /\ R[1].depth = 0 /\ ~IsNote(R[1])
        /\ \A k \in 2..Len(R) : R[k].depth > 0
    BY <1>1, <2>1, RebasedTask
  <2>3. Placed(p, s, i, q, w) \in {IntoDone(F, R), IntoOpen(F, R)}
    BY <1>4 DEF Placed
  <2> HIDE DEF R, F
  <2>4. Given(F, IntoDone(F, R), R) /\ Given(F, IntoOpen(F, R), R)
    BY <1>2, <2>2, GivesDone
  <2> QED BY <2>2, <2>3, <2>4 DEF F
<1> QED BY <1>3, <1>4

LEMMA MoveToProjectKeeps ==
  ASSUME BoardInv, NEW p \in Projects, NEW s \in Sections, NEW i \in DOMAIN doc[p][s],
         NEW q \in Projects, NEW w \in Places(q) \cup {None}, MoveToProject(p, s, i, q, w)
  PROVE  StepKept
<1> DEFINE F == doc[p]  L == F[s]  B == Block(L, i)  G == [F EXCEPT ![s] = Cut(L, i)]  H == Placed(p, s, i, q, w)
<1>1. FileOk(F) /\ i \in 1..Len(L) /\ (Editable(F, s, i) <=> Alive(s, L, i))
  BY Place
<1>2. /\ p # q /\ ~IsNote(L[i]) /\ Alive(s, L, i)
      /\ \/ doc' = [doc EXCEPT ![p] = G, ![q] = H] /\ faults' = faults
         \/ doc' = [doc EXCEPT ![q] = H] /\ faults' = faults + 1
      /\ written' = written
      /\ w # None => Editable(doc[q], w[1], w[2])
  BY <1>1 DEF MoveToProject, Task, Written
<1>3. Taken(F, G, B)
  BY <1>1, <1>2, Takes
<1>4. PICK R : Alike(B, R) /\ Given(doc[q], H, R)
  BY <1>2, PlacedGiven
<1> HIDE DEF F, L, B, G, H
<1>5. CASE doc' = [doc EXCEPT ![p] = G, ![q] = H] /\ faults' = faults
  BY <1>2, <1>3, <1>4, <1>5, StepMoves DEF F
<1>6. CASE doc' = [doc EXCEPT ![q] = H] /\ faults' = faults + 1
  BY <1>2, <1>4, <1>6, StepFails
<1> QED BY <1>2, <1>5, <1>6

-----------------------------------------------------------------------------
(* The specification *)

LEMMA BoardNext ==
  ASSUME BoardAssumption, BoardInv, [Next]_vars
  PROVE  StepKept
<1>1. \A w \in Everywhere : w[1] \in Projects /\ w[2] \in Sections /\ w[3] \in DOMAIN doc[w[1]][w[2]]
  BY DEF Everywhere
<1>2. \A p \in Projects : \A v \in Places(p) : v[1] \in Sections /\ v[2] \in DOMAIN doc[p][v[1]]
  BY DEF Places
<1>3. ASSUME NEW p \in Projects, NEW x \in Items, NEW status \in Statuses, Create(p, x, status)
      PROVE  StepKept
  BY <1>3, CreateKeeps
<1>4. ASSUME NEW w \in Everywhere, NEW status \in Statuses, WriteStatus(w[1], w[2], w[3], status)
      PROVE  StepKept
  BY <1>1, <1>4, WriteStatusKeeps
<1>5. ASSUME NEW w \in Everywhere, NEW x \in Items, AddNote(w[1], w[2], w[3], x)
      PROVE  StepKept
  BY <1>1, <1>5, AddNoteKeeps
<1>6. ASSUME NEW w \in Everywhere, DeleteNote(w[1], w[2], w[3])
      PROVE  StepKept
  BY <1>1, <1>6, DeleteNoteKeeps
<1>7. ASSUME NEW w \in Everywhere, NEW j \in 1..MaxLines, Move(w[1], w[2], w[3], j)
      PROVE  StepKept
  BY <1>1, <1>7, MoveKeeps
<1>8. ASSUME NEW w \in Everywhere, Promote(w[1], w[2], w[3])
      PROVE  StepKept
  BY <1>1, <1>8, PromoteKeeps
<1>9. ASSUME NEW w \in Everywhere, NEW v \in Places(w[1]), Reparent(w[1], w[2], w[3], v[1], v[2])
      PROVE  StepKept
  BY <1>1, <1>2, <1>9, ReparentKeeps
<1>10. ASSUME NEW w \in Everywhere, NEW q \in Projects, NEW v \in Places(q) \cup {None},
              MoveToProject(w[1], w[2], w[3], q, v)
       PROVE  StepKept
  BY <1>1, <1>10, MoveToProjectKeeps
<1>11. ASSUME NEW p \in Projects, Sweep(p)
       PROVE  StepKept
  BY <1>11, SweepKeeps
<1>12. ASSUME NEW p \in Projects, NEW i \in 1..MaxLines, NEW status \in {"todo", "done"}, VaultTicks(p, i, status)
       PROVE  StepKept
  BY <1>12, VaultTicksKeeps
<1>13. CASE UNCHANGED vars
  <2>1. BoardInv' /\ doc' = doc
    BY <1>13 DEF vars, BoardInv
  <2> QED BY <2>1, OthersPast DEF StepKept
<1> QED BY <1>3, <1>4, <1>5, <1>6, <1>7, <1>8, <1>9, <1>10, <1>11, <1>12, <1>13 DEF Next

LEMMA BoardStarts ==
  ASSUME BoardAssumption, StartAssumption, Init
  PROVE  BoardInv
<1>1. /\ doc \in Start /\ doc \in [Projects -> [Sections -> Seq(Line)]]
      /\ written = InFiles /\ faults = 0
  BY DEF Init, BoardAssumption
<1>2. Line \subseteq RawLine
  BY DEF Line, RawLine, BoardAssumption
<1>3. /\ \A p \in Projects : doc[p] \in [Sections -> Seq(RawLine)]
      /\ \A p \in Projects, s \in Sections : doc[p][s] \in Seq(RawLine)
  <2>1. \A L \in Seq(Line) : L \in Seq(RawLine)
    BY <1>2
  <2> QED BY <1>1, <2>1
<1>4. doc \in [Projects -> [Sections -> Seq(RawLine)]]
  BY <1>1, <1>3
<1>5. /\ \A p \in Projects, s \in Sections :
           /\ doc[p][s] # <<>> => doc[p][s][1].depth = 0
           /\ \A i \in DOMAIN doc[p][s] : IsNote(doc[p][s][i]) => doc[p][s][i].depth > 0
      /\ \A p, q \in Projects, s, t \in Sections :
           \A i \in DOMAIN doc[p][s], j \in DOMAIN doc[q][t] :
             /\ Editable(doc[p], s, i) /\ Editable(doc[q], t, j)
             /\ doc[p][s][i].item = doc[q][t][j].item
             => p = q /\ s = t /\ i = j
  BY <1>1, Zenon DEF StartAssumption
<1>6. \A p \in Projects, s \in Sections : DOMAIN doc[p][s] = 1..Len(doc[p][s])
  BY <1>3
<1>7. \A p \in Projects : FileOk(doc[p])
  BY <1>3, <1>5, <1>6 DEF FileOk, Rooted
<1>8. \A p \in Projects, s \in Sections : Section(doc[p][s])
  BY <1>7, FileSections
<1>9. \A p \in Projects, s \in Sections : \A i \in 1..Len(doc[p][s]) :
        Editable(doc[p], s, i) <=> Alive(s, doc[p][s], i)
  BY <1>8, EditableAlive
<1>10. \A p, q \in Projects, s, t \in Sections :
         \A i \in 1..Len(doc[p][s]), j \in 1..Len(doc[q][t]) :
           /\ Alive(s, doc[p][s], i) /\ Alive(t, doc[q][t], j)
           /\ doc[p][s][i].item = doc[q][t][j].item
           => p = q /\ s = t /\ i = j
  BY <1>5, <1>6, <1>9
<1>11. \A p \in Projects : OnceIn(doc[p])
  <2>1. \A p \in Projects, s \in Sections : Once(s, doc[p][s])
    BY <1>10 DEF Once
  <2>2. ASSUME NEW p \in Projects, NEW s \in Sections, NEW t \in Sections, s # t
        PROVE  Held(s, doc[p][s]) \cap Held(t, doc[p][t]) = {}
    BY <1>10, <2>2 DEF Held
  <2> QED BY <2>1, <2>2 DEF OnceIn
<1>12. ASSUME NEW p \in Projects, NEW q \in Projects, p # q
       PROVE  HeldIn(doc[p]) \cap HeldIn(doc[q]) = {}
  <2>1. \A s, t \in Sections : Held(s, doc[p][s]) \cap Held(t, doc[q][t]) = {}
    <3> SUFFICES ASSUME NEW s \in Sections, NEW t \in Sections,
                        NEW x \in Held(s, doc[p][s]), x \in Held(t, doc[q][t])
                 PROVE  FALSE
      OBVIOUS
    <3>1. PICK i \in 1..Len(doc[p][s]) : Alive(s, doc[p][s], i) /\ doc[p][s][i].item = x
      BY DEF Held
    <3>2. PICK j \in 1..Len(doc[q][t]) : Alive(t, doc[q][t], j) /\ doc[q][t][j].item = x
      BY DEF Held
    <3> QED BY <1>10, <1>12, <3>1, <3>2
  <2> QED BY <2>1 DEF HeldIn
<1>13. written = AllSaid(doc)
  BY <1>1, <1>7, InFilesSaid
<1>14. \A p \in Projects : HeldIn(doc[p]) \subseteq written
  BY <1>13, HeldSaid DEF AllSaid
<1> QED BY <1>1, <1>4, <1>7, <1>11, <1>12, <1>13, <1>14 DEF BoardInv

LEMMA BoardTold ==
  ASSUME BoardAssumption, BoardInv
  PROVE  NothingLost
<1>1. written \subseteq InFiles
  BY InFilesSaid DEF BoardInv
<1>2. ASSUME faults = 0, NEW x \in Items PROVE Copies(x) <= IF x \in written THEN 1 ELSE 0
  <2> DEFINE S == {w \in Live : doc[w[1]][w[2]][w[3]].item = x}
  <2>1. /\ \A p \in Projects : OnceIn(doc[p]) /\ HeldIn(doc[p]) \subseteq written
        /\ \A p, q \in Projects : p # q => HeldIn(doc[p]) \cap HeldIn(doc[q]) = {}
    BY <1>2 DEF BoardInv
  <2>2. ASSUME NEW w \in S
        PROVE  /\ w[1] \in Projects /\ w[2] \in Sections /\ w = <<w[1], w[2], w[3]>>
               /\ w[3] \in 1..Len(doc[w[1]][w[2]]) /\ Alive(w[2], doc[w[1]][w[2]], w[3])
               /\ doc[w[1]][w[2]][w[3]].item = x
               /\ x \in Held(w[2], doc[w[1]][w[2]]) /\ x \in HeldIn(doc[w[1]])
    <3>1. /\ w[1] \in Projects /\ w[2] \in Sections /\ w = <<w[1], w[2], w[3]>>
          /\ w[3] \in DOMAIN doc[w[1]][w[2]] /\ Editable(doc[w[1]], w[2], w[3])
          /\ doc[w[1]][w[2]][w[3]].item = x
      BY DEF Live, Everywhere
    <3>2. w[3] \in 1..Len(doc[w[1]][w[2]]) /\ Alive(w[2], doc[w[1]][w[2]], w[3])
      BY <3>1, Place
    <3>3. x \in Held(w[2], doc[w[1]][w[2]])
      BY <3>1, <3>2 DEF Held
    <3> QED BY <3>1, <3>2, <3>3 DEF HeldIn
  <2> HIDE DEF S
  <2>3. ASSUME NEW v \in S, NEW w \in S PROVE v = w
    <3>1. v[1] = w[1]
      BY <2>1, <2>2
    <3>2. v[2] = w[2]
      BY <2>1, <2>2, <3>1 DEF OnceIn
    <3>3. Once(v[2], doc[v[1]][v[2]])
      BY <2>1, <2>2 DEF OnceIn
    <3>4. v[3] = w[3]
      BY <2>2, <3>1, <3>2, <3>3 DEF Once
    <3> QED BY <2>2, <3>1, <3>2, <3>4
  <2>4. CASE S = {}
    <3>1. Cardinality(S) = 0
      BY <2>4, FS_EmptySet
    <3> QED BY <3>1 DEF Copies, S
  <2>5. CASE S # {}
    <3>1. PICK w \in S : S = {w}
      BY <2>3, <2>5
    <3>2. Cardinality(S) = 1
      BY <3>1, FS_Singleton
    <3>3. x \in written
      BY <2>1, <2>2, <3>1
    <3> QED BY <3>2, <3>3 DEF Copies, S
  <2> QED BY <2>4, <2>5
<1> QED BY <1>1, <1>2 DEF NothingLost

\* Whatever is asked of the board, and wherever a move between files is broken
\* off: what was written is in a file until it is deleted, and unless a move was
\* broken off it is there once.
THEOREM NothingIsLost ==
  ASSUME BoardAssumption, StartAssumption
  PROVE  Spec => []NothingLost
<1>1. Init => BoardInv
  BY BoardStarts
<1>2. BoardInv /\ [Next]_vars => BoardInv'
  BY BoardNext DEF StepKept
<1>3. BoardInv => NothingLost
  BY BoardTold
<1> QED BY <1>1, <1>2, <1>3, PTL DEF Spec

-----------------------------------------------------------------------------
(* Finished occurrences *)

LEMMA OccurrenceStays ==
  ASSUME NEW F, FileOk(F), NEW H, FileOk(H), NEW h, Carries(F["done"], H["done"], h),
         NEW i \in 1..Len(F["done"]), IsOccurrence(F, "done", i)
  PROVE  /\ i \in Over(F["done"]) /\ h[i] \in 1..Len(H["done"])
         /\ IsOccurrence(H, "done", h[i]) /\ Block(H["done"], h[i]) = Block(F["done"], i)
<1> DEFINE L == F["done"]  N == H["done"]  e == BlockEnd(L, i)
<1>1. /\ Section(L) /\ L \in Seq(RawLine) /\ Len(L) \in Nat /\ i \in 1..Len(L)
      /\ Section(N) /\ N \in Seq(RawLine) /\ Len(N) \in Nat
      /\ \A k \in 1..Len(L) : L[k].depth \in Nat
      /\ \A k \in 1..Len(N) : N[k].depth \in Nat
  <2>1. "done" \in Sections
    BY DEF Sections
  <2> QED BY <2>1, FileSections, LineTyped
<1>2. Ended("done", L[i]) /\ L[i].depth = 0
  BY <1>1, TopIsRoot DEF IsOccurrence, Ended
<1>3. i \in Over(L)
  <2>1. Root(L, i, i) /\ i \in 1..i /\ i \in Nat
    BY <1>1, <1>2 DEF Root
  <2> QED BY <1>1, <1>2, <2>1, AliveByRoot DEF Over
<1>4. IsEnd(L, i, e)
  BY <1>1, BlockEnds
<1> HIDE DEF e
<1>5. /\ e \in i..Len(L) /\ e \in Nat /\ i \in Nat
      /\ \A k \in i + 1..e : L[k].depth > 0
      /\ e = Len(L) \/ L[e + 1].depth = 0
  <2>1. /\ e \in i..Len(L) /\ \A k \in i + 1..e : L[k].depth > 0
        /\ e = Len(L) \/ L[e + 1].depth <= 0
    BY <1>2, <1>4 DEF IsEnd
  <2>2. e # Len(L) => e + 1 \in 1..Len(L)
    BY <1>1, <2>1
  <2> QED BY <1>1, <2>1, <2>2
<1>6. /\ h \in [Over(L) -> Over(N)]
      /\ \A k \in Over(L) : /\ N[h[k]] = L[k]
                            /\ Within(L, k) => k + 1 \in Over(L) /\ h[k + 1] = h[k] + 1
                            /\ ~Within(L, k) => ~Within(N, h[k])
  BY DEF Carries
<1>7. \A k \in Over(L) : h[k] \in Over(N) /\ h[k] \in 1..Len(N) /\ h[k] \in Nat /\ ~Alive("done", N, h[k])
  BY <1>1, <1>6 DEF Over
<1> DEFINE o == h[i]
<1> HIDE DEF L, N
\* The lines of the block are found one after the other.
<1>8. \A k \in i..e : k \in Over(L) /\ h[k] = o + (k - i)
  <2> DEFINE Bad == {k \in Nat : k \in i..e /\ ~(k \in Over(L) /\ h[k] = o + (k - i))}
  <2> SUFFICES ASSUME Bad # {} PROVE FALSE
    BY <1>5
  <2>1. PICK k \in Bad : \A m \in Bad : k <= m
    BY Least, Zenon
  <2>2. k # i
    BY <1>3, <1>5, <1>7, <2>1
  <2>3. k - 1 \in i..e /\ (k - 1) + 1 = k /\ k \in i + 1..e /\ k - 1 \in Nat
    BY <1>5, <2>1, <2>2
  <2>4. k - 1 \in Over(L) /\ h[k - 1] = o + ((k - 1) - i)
    BY <2>1, <2>3
  <2>5. Within(L, k - 1)
    <3>1. k - 1 # Len(L)
      BY <1>1, <1>5, <2>3 DEF L
    <3> QED BY <1>5, <2>3, <3>1 DEF Within
  <2>6. k \in Over(L) /\ h[k] = h[k - 1] + 1
    BY <1>6, <2>3, <2>4, <2>5
  <2>7. o \in Nat
    BY <1>3, <1>7
  <2> HIDE DEF o
  <2>8. o + ((k - 1) - i) + 1 = o + (k - i)
    BY <1>5, <2>1, <2>7
  <2> QED BY <2>1, <2>4, <2>6, <2>8
<1>9. o \in 1..Len(N) /\ o \in Nat /\ N[o] = L[i]
  BY <1>3, <1>6, <1>7
<1>10. /\ o + (e - i) \in 1..Len(N) /\ N[o + (e - i)] = L[e] /\ ~Within(N, o + (e - i))
  <2>1. e \in i..e
    BY <1>5
  <2>2. e \in Over(L) /\ h[e] = o + (e - i)
    BY <1>8, <2>1
  <2>3. ~Within(L, e)
    BY <1>5 DEF Within
  <2> QED BY <1>6, <1>7, <2>2, <2>3
<1>11. \A k \in i..e : N[o + (k - i)] = L[k] /\ o + (k - i) \in 1..Len(N)
  BY <1>6, <1>7, <1>8
<1> HIDE DEF o
<1>12. IsEnd(N, o, o + (e - i))
  <2>1. ASSUME NEW m \in o + 1..o + (e - i) PROVE N[m].depth > N[o].depth
    <3>1. i + (m - o) \in i + 1..e /\ i + (m - o) \in i..e /\ o + ((i + (m - o)) - i) = m
      BY <1>5, <1>9
    <3>2. N[m] = L[i + (m - o)]
      BY <1>11, <3>1
    <3>3. N[o].depth = 0
      BY <1>2, <1>9 DEF L
    <3> QED BY <1>5, <3>1, <3>2, <3>3
  <2>2. o + (e - i) \in o..Len(N)
    BY <1>5, <1>9, <1>10
  <2>3. o + (e - i) = Len(N) \/ N[(o + (e - i)) + 1].depth <= N[o].depth
    <3> SUFFICES ASSUME o + (e - i) # Len(N) PROVE N[(o + (e - i)) + 1].depth <= N[o].depth
      OBVIOUS
    <3>1. (o + (e - i)) + 1 \in 1..Len(N)
      <4>1. Len(N) \in Nat
        BY <1>1 DEF N
      <4> QED BY <1>10, <4>1
    <3>2. ~(N[(o + (e - i)) + 1].depth > 0)
      BY <1>10 DEF Within
    <3>3. N[(o + (e - i)) + 1].depth \in Nat
      BY <1>1, <3>1 DEF N
    <3>4. N[o].depth = 0
      BY <1>2, <1>9 DEF L
    <3> QED BY <3>2, <3>3, <3>4
  <2> QED BY <2>1, <2>2, <2>3 DEF IsEnd
<1>13. BlockEnd(N, o) = o + (e - i)
  <2>1. N \in Seq(RawLine)
    BY <1>1 DEF N
  <2> QED BY <1>9, <1>12, <2>1, EndUnique
<1>14. Block(N, o) = Block(L, i)
  <2> DEFINE B == Block(L, i)  C == Block(N, o)
  <2>0. L \in Seq(RawLine) /\ N \in Seq(RawLine) /\ i \in 1..Len(L)
    BY <1>1 DEF L, N
  <2>1. /\ B \in Seq(RawLine) /\ Len(B) = e - i + 1 /\ \A k \in 1..Len(B) : B[k] = L[i + k - 1]
    BY <2>0, BlockLines DEF e
  <2>2. /\ C \in Seq(RawLine) /\ Len(C) = (o + (e - i)) - o + 1 /\ \A k \in 1..Len(C) : C[k] = N[o + k - 1]
    BY <1>9, <1>13, <2>0, BlockLines
  <2> HIDE DEF B, C
  <2>3. Len(C) = Len(B)
    BY <1>5, <1>9, <2>1, <2>2
  <2>4. ASSUME NEW k \in 1..Len(B) PROVE C[k] = B[k]
    <3>1. i + k - 1 \in i..e /\ o + ((i + k - 1) - i) = o + k - 1
      BY <1>5, <1>9, <2>1
    <3>2. N[o + k - 1] = L[i + k - 1]
      BY <1>11, <3>1
    <3> QED BY <2>1, <2>2, <2>3, <3>2
  <2>5. C = B
    BY <2>1, <2>2, <2>3, <2>4, SeqEqual
  <2> QED BY <2>5 DEF B, C
<1>15. IsOccurrence(H, "done", o)
  <2>1. N[o].depth = 0 /\ Ended("done", N[o])
    BY <1>2, <1>9 DEF L
  <2>2. IsTop(N, o)
    BY <1>1, <1>9, <2>1, TopIsRoot DEF N
  <2> QED BY <2>1, <2>2 DEF IsOccurrence, Ended, N
<1> QED BY <1>3, <1>9, <1>14, <1>15 DEF L, N, o

\* The occurrences that are as b says.
Finishes(F, b) == {i \in DOMAIN F["done"] : IsOccurrence(F, "done", i) /\ Block(F["done"], i) = b}

LEMMA FinishesStay ==
  ASSUME NEW F, FileOk(F), NEW H, FileOk(H), Past(F, H), NEW b
  PROVE  /\ Cardinality(Finishes(H, b)) \in Nat
         /\ Cardinality(Finishes(F, b)) \in Nat
         /\ Cardinality(Finishes(H, b)) >= Cardinality(Finishes(F, b))
         /\ Finishes(F, b) # {} => Finishes(H, b) # {}
<1>1. PICK h : Carries(F["done"], H["done"], h)
  BY DEF Past, PastIn
<1>2. "done" \in Sections
  BY DEF Sections
<1>3. /\ F["done"] \in Seq(RawLine) /\ DOMAIN F["done"] = 1..Len(F["done"])
      /\ H["done"] \in Seq(RawLine) /\ DOMAIN H["done"] = 1..Len(H["done"])
      /\ Len(H["done"]) \in Nat
  BY <1>2, FileSections, LineTyped
<1> DEFINE S == Finishes(F, b)  T == Finishes(H, b)  f == [i \in S |-> h[i]]
<1>4. ASSUME NEW i \in S PROVE i \in Over(F["done"]) /\ h[i] \in T
  <2>1. i \in 1..Len(F["done"]) /\ IsOccurrence(F, "done", i) /\ Block(F["done"], i) = b
    BY <1>3 DEF Finishes
  <2>2. /\ i \in Over(F["done"]) /\ h[i] \in 1..Len(H["done"])
        /\ IsOccurrence(H, "done", h[i]) /\ Block(H["done"], h[i]) = Block(F["done"], i)
    BY <1>1, <2>1, OccurrenceStays
  <2> QED BY <1>3, <2>1, <2>2 DEF Finishes
<1>5. IsFiniteSet(T)
  <2>1. IsFiniteSet(1..Len(H["done"]))
    BY <1>3, FS_Interval
  <2>2. T \in SUBSET (1..Len(H["done"]))
    BY <1>3 DEF Finishes
  <2> QED BY <2>1, <2>2, FS_Subset
<1>6. \A k, m \in Over(F["done"]) : h[k] = h[m] => k = m
  BY <1>1 DEF Carries
<1> HIDE DEF S, T
<1>7. f \in Injection(S, T)
  <2>1. f \in [S -> T]
    BY <1>4
  <2>2. \A k, m \in S : f[k] = f[m] => k = m
    BY <1>4, <1>6
  <2> HIDE DEF f
  <2>3. IsInjective(f)
    BY <2>1, <2>2 DEF IsInjective
  <2> QED BY <2>1, <2>3 DEF Injection
<1>8. IsFiniteSet(S) /\ Cardinality(S) <= Cardinality(T)
  BY <1>5, <1>7, FS_Injection, Zenon
<1>9. Cardinality(S) \in Nat /\ Cardinality(T) \in Nat
  BY <1>5, <1>8, FS_CardinalityType
<1>10. S # {} => T # {}
  BY <1>4
<1> QED BY <1>8, <1>9, <1>10 DEF S, T

LEMMA OccurrencesAre ==
  ASSUME NEW p \in Projects
  PROVE  /\ DOMAIN Occurrences(p) = {b \in {Block(doc[p]["done"], i) : i \in DOMAIN doc[p]["done"]} :
                                       Finishes(doc[p], b) # {}}
         /\ \A b \in DOMAIN Occurrences(p) :
              Occurrences(p)[b] = Cardinality(Finishes(doc[p], b))
  BY DEF Occurrences, Finishes

\* One step leaves the occurrences there are, as often as they are there.
LEMMA StepKeepsOccurrences ==
  ASSUME BoardAssumption, StartAssumption, BoardInv, [Next]_vars
  PROVE  \A p \in Projects : \A b \in DOMAIN Occurrences(p) :
           b \in DOMAIN Occurrences(p)' /\ Occurrences(p)'[b] >= Occurrences(p)[b]
<1>1. BoardInv' /\ \A p \in Projects : Past(doc[p], doc'[p])
  BY BoardNext DEF StepKept
<1> SUFFICES ASSUME NEW p \in Projects, NEW b \in DOMAIN Occurrences(p)
             PROVE  b \in DOMAIN Occurrences(p)' /\ Occurrences(p)'[b] >= Occurrences(p)[b]
  OBVIOUS
<1>2. FileOk(doc[p]) /\ FileOk(doc'[p]) /\ Past(doc[p], doc'[p])
  BY <1>1 DEF BoardInv
<1>3. /\ Cardinality(Finishes(doc'[p], b)) \in Nat /\ Cardinality(Finishes(doc[p], b)) \in Nat
      /\ Cardinality(Finishes(doc'[p], b)) >= Cardinality(Finishes(doc[p], b))
      /\ Finishes(doc[p], b) # {} => Finishes(doc'[p], b) # {}
  BY <1>2, FinishesStay
<1>4. Finishes(doc[p], b) # {} /\ Occurrences(p)[b] = Cardinality(Finishes(doc[p], b))
  BY OccurrencesAre
<1>5. b \in DOMAIN Occurrences(p)' /\ Occurrences(p)'[b] = Cardinality(Finishes(doc'[p], b))
  BY <1>3, <1>4 DEF Occurrences, Finishes
<1> QED BY <1>3, <1>4, <1>5

\* Whatever the hub does to a file, what was finished of a recurring task is
\* still there with every line below it, as often as it was.
THEOREM OccurrencesAreKept ==
  ASSUME BoardAssumption, StartAssumption
  PROVE  Spec => OccurrencesKept
<1>1. Init => BoardInv
  BY BoardStarts
<1>2. BoardInv /\ [Next]_vars => BoardInv'
  BY BoardNext DEF StepKept
<1>3. BoardInv /\ [Next]_vars =>
        [doc' # doc => \A p \in Projects : \A b \in DOMAIN Occurrences(p) :
           b \in DOMAIN Occurrences(p)' /\ Occurrences(p)'[b] >= Occurrences(p)[b]]_vars
  BY StepKeepsOccurrences
<1> QED BY <1>1, <1>2, <1>3, PTL DEF Spec, OccurrencesKept
=============================================================================
