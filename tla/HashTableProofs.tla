------------------------ MODULE HashTableProofs ------------------------
(***************************************************************************)
(* Theorems about Hash_Table for all elements, keys and hashes: every      *)
(* element is in the bucket of its key, reserve() is honoured, a loop meets *)
(* each element once, and the table implements a multiset.                 *)
(*                                                                         *)
(* The lemmas are about any table B of n buckets, so that they apply to the *)
(* buckets before and after a step.                                        *)
(***************************************************************************)
EXTENDS HashTable, FiniteSetTheorems, SequenceTheorems, TLAPS

----------------------------------------------------------------------------
(* Sets of numbers *)

\* A set of naturals that has, with each number, those below it, and is finite, is
\* 0 .. c - 1: so induction over the members of a set needs no operator.
LEMMA DownwardClosed ==
  ASSUME NEW A \in SUBSET Nat, IsFiniteSet(A), \A i \in A : 0 .. i \subseteq A
  PROVE  A = 0 .. Cardinality(A) - 1
<1> DEFINE c == Cardinality(A)
<1>1. c \in Nat
  BY FS_CardinalityType
<1>2. \A i \in A : i < c
  <2> TAKE i \in A
  <2>1. IsFiniteSet(0 .. i) /\ Cardinality(0 .. i) = i + 1
    BY FS_Interval
  <2>2. Cardinality(0 .. i) <= c
    BY FS_Subset
  <2> QED BY <1>1, <2>1, <2>2
<1>3. A \subseteq 0 .. c - 1
  BY <1>1, <1>2
<1> HIDE DEF c
<1>4. IsFiniteSet(0 .. c - 1) /\ Cardinality(0 .. c - 1) = c
  BY <1>1, FS_Interval
<1>5. A \in SUBSET (0 .. c - 1) /\ Cardinality(0 .. c - 1) = Cardinality(A)
  BY <1>3, <1>4 DEF c
<1>6. 0 .. c - 1 = A
  <2> DEFINE I == 0 .. c - 1
  <2>1. IsFiniteSet(I) /\ A \in SUBSET I /\ Cardinality(I) = Cardinality(A)
    BY <1>4, <1>5
  <2> HIDE DEF I
  <2>2. I = A
    BY <2>1, FS_Subset
  <2> QED BY <2>2 DEF I
<1> QED BY <1>6 DEF c

\* A set of naturals with an upper bound, if it has any, has a greatest.
LEMMA GreatestExists ==
  ASSUME NEW n \in Nat, NEW S \in SUBSET (0 .. n), S # {}
  PROVE  \E m \in S : \A i \in S : i <= m
<1> DEFINE A == {k \in 0 .. n : \E s \in S : k <= s}
           c == Cardinality(A)
<1>1. A \in SUBSET Nat /\ IsFiniteSet(A)
  <2>1. A \in SUBSET (0 .. n) /\ A \in SUBSET Nat
    OBVIOUS
  <2>2. IsFiniteSet(0 .. n)
    BY FS_Interval
  <2> HIDE DEF A
  <2> QED BY <2>1, <2>2, FS_Subset
<1>2. A = 0 .. c - 1
  <2>1. \A i \in A : 0 .. i \subseteq A
    OBVIOUS
  <2> HIDE DEF A
  <2> QED BY <1>1, <2>1, DownwardClosed
<1>3. S \subseteq A
  OBVIOUS
<1>4. c \in Nat
  BY <1>1, FS_CardinalityType
<1> HIDE DEF c
<1>5. c - 1 \in A
  <2>1. A # {}
    BY <1>3
  <2> HIDE DEF A
  <2> QED BY <1>2, <1>4, <2>1
<1>6. PICK s \in S : c - 1 <= s
  BY <1>5
<1>7. \A i \in S : i <= c - 1
  BY <1>2, <1>3, <1>4
<1>8. \A i \in S : i <= s
  BY <1>4, <1>6, <1>7
<1> QED BY <1>8

----------------------------------------------------------------------------
(* The order of positions *)

Places == Nat \X Nat

RankIn(P, p) == Cardinality({q \in P : Before(q, p)})

\* The lexicographic order of positions is total, transitive and strict.
LEMMA BeforeOrders ==
  /\ \A p \in Places : ~Before(p, p)
  /\ \A p, q, r \in Places : Before(p, q) /\ Before(q, r) => Before(p, r)
  /\ \A p, q \in Places : p # q => Before(p, q) \/ Before(q, p)
<1>1. \A p \in Places : ~Before(p, p)
  BY DEF Places, Before
<1>2. \A p, q, r \in Places : Before(p, q) /\ Before(q, r) => Before(p, r)
  BY DEF Places, Before
<1>3. \A p, q \in Places : p # q => Before(p, q) \/ Before(q, p)
  BY DEF Places, Before
<1> QED BY <1>1, <1>2, <1>3

\* What is before another has the lower rank, and all ranks are below the size.
LEMMA RankMonotone ==
  ASSUME NEW P \in SUBSET Places, IsFiniteSet(P)
  PROVE  /\ \A p \in P : RankIn(P, p) \in 0 .. Cardinality(P) - 1
         /\ \A p, q \in P : Before(p, q) => RankIn(P, p) < RankIn(P, q)
<1> DEFINE B(p) == {q \in P : Before(q, p)}
<1>1. \A p \in P : IsFiniteSet(B(p)) /\ Cardinality(B(p)) \in Nat
  BY FS_Subset, FS_CardinalityType
<1>2. ASSUME NEW S, IsFiniteSet(S), NEW T \in SUBSET S, NEW x \in S, x \notin T
      PROVE  Cardinality(T) < Cardinality(S)
  <2>1. IsFiniteSet(T) /\ Cardinality(T) <= Cardinality(S) /\ Cardinality(T) # Cardinality(S)
    BY <1>2, FS_Subset
  <2> QED BY <1>2, <2>1, FS_CardinalityType
<1>3. ASSUME NEW p \in P PROVE Cardinality(B(p)) < Cardinality(P)
  <2>1. p \notin B(p)
    BY BeforeOrders
  <2>2. B(p) \in SUBSET P
    OBVIOUS
  <2> HIDE DEF B
  <2> QED BY <1>2, <2>1, <2>2
<1>4. ASSUME NEW p \in P, NEW q \in P, Before(p, q)
      PROVE  Cardinality(B(p)) < Cardinality(B(q))
  <2>1. p \in B(q) /\ p \notin B(p)
    BY <1>4, BeforeOrders
  <2>2. B(p) \in SUBSET B(q)
    BY <1>4, BeforeOrders
  <2>3. IsFiniteSet(B(q))
    BY <1>1
  <2> HIDE DEF B
  <2> QED BY <1>2, <2>1, <2>2, <2>3
<1>5. Cardinality(P) \in Nat
  BY FS_CardinalityType
<1>6. \A p : RankIn(P, p) = Cardinality(B(p))
  BY DEF RankIn
<1> HIDE DEF B
<1>7. \A p \in P : RankIn(P, p) \in 0 .. Cardinality(P) - 1
  BY <1>1, <1>3, <1>5, <1>6
<1>8. \A p, q \in P : Before(p, q) => RankIn(P, p) < RankIn(P, q)
  BY <1>4, <1>6
<1> QED BY <1>7, <1>8

\* Nth enumerates a finite set of positions: each of them once.
LEMMA NthEnumerates ==
  ASSUME NEW P \in SUBSET Places, IsFiniteSet(P)
  PROVE  /\ Cardinality(P) \in Nat
         /\ \A i \in 1 .. Cardinality(P) : Nth(P, i) \in P
         /\ \A p \in P : \E i \in 1 .. Cardinality(P) : Nth(P, i) = p
         /\ \A i, j \in 1 .. Cardinality(P) : Nth(P, i) = Nth(P, j) => i = j
<1> DEFINE c == Cardinality(P)
           f == [p \in P |-> RankIn(P, p)]
<1>1. c \in Nat
  BY FS_CardinalityType
<1>2. \A p, q \in P : RankIn(P, p) = RankIn(P, q) => p = q
  <2> SUFFICES ASSUME NEW p \in P, NEW q \in P, p # q PROVE RankIn(P, p) # RankIn(P, q)
    OBVIOUS
  <2>1. Before(p, q) \/ Before(q, p)
    BY BeforeOrders
  <2>2. RankIn(P, p) \in Int /\ RankIn(P, q) \in Int
    BY RankMonotone, <1>1
  <2> QED BY <2>1, <2>2, RankMonotone
<1>3. f \in [P -> 0 .. c - 1]
  BY RankMonotone
<1>4. f \in Injection(P, 0 .. c - 1)
  BY <1>2, <1>3 DEF Injection, IsInjective
<1>5. IsFiniteSet(0 .. c - 1) /\ Cardinality(0 .. c - 1) = c
  BY <1>1, FS_Interval
<1>6. f \in Surjection(P, 0 .. c - 1)
  <2> HIDE DEF f
  <2> QED BY <1>4, <1>5, FS_Injection
<1>7. \A r \in 0 .. c - 1 : \E p \in P : RankIn(P, p) = r
  BY <1>6 DEF Surjection
<1>8. \A i \in 1 .. c : Nth(P, i) \in P /\ RankIn(P, Nth(P, i)) = i - 1
  <2> TAKE i \in 1 .. c
  <2>1. \E p \in P : RankIn(P, p) = i - 1
    BY <1>1, <1>7
  <2> QED BY <2>1 DEF Nth, RankIn
<1>9. \A p \in P : \E i \in 1 .. c : Nth(P, i) = p
  <2> TAKE p \in P
  <2>1. RankIn(P, p) \in 0 .. c - 1
    BY RankMonotone
  <2> DEFINE i == RankIn(P, p) + 1
  <2>3. i \in 1 .. c /\ i - 1 = RankIn(P, p)
    BY <1>1, <2>1
  <2> HIDE DEF i
  <2>4. Nth(P, i) \in P /\ RankIn(P, Nth(P, i)) = RankIn(P, p)
    BY <1>8, <2>3
  <2>5. Nth(P, i) = p
    BY <1>2, <2>4
  <2> QED BY <2>3, <2>5
<1>10. \A i, j \in 1 .. c : Nth(P, i) = Nth(P, j) => i = j
  <2> TAKE i, j \in 1 .. c
  <2> HAVE Nth(P, i) = Nth(P, j)
  <2>1. i - 1 = j - 1
    BY <1>8
  <2> QED BY <1>1, <2>1
<1> QED BY <1>1, <1>8, <1>9, <1>10
----------------------------------------------------------------------------
(* Tables *)

PositionsIn(B) == UNION {{a} \X Indices(B[a]) : a \in DOMAIN B}

EntryIn(B, p) == ItemAt(B[p[1]], p[2])

ContentsIn(B) == UNION {ToSet(B[a]) : a \in DOMAIN B}

IsTable(B, n) == n \in Nat /\ B \in [0 .. n - 1 -> Seq(Entries)]

\* No element is at two positions, and all are in the bucket of their key.
InPlace(B, n) ==
  /\ \A p, q \in PositionsIn(B) : EntryIn(B, p) = EntryIn(B, q) => p = q
  /\ \A p \in PositionsIn(B) : p[1] = BucketOf(KeyOf[EntryIn(B, p)], n)

\* What a position is, and what is in a table: the elements at its positions.
LEMMA PositionFacts ==
  ASSUME NEW B, NEW n, IsTable(B, n)
  PROVE  /\ \A p : p \in PositionsIn(B) <=>
                     /\ p \in Places
                     /\ p[1] \in 0 .. n - 1
                     /\ p[2] < Len(B[p[1]])
         /\ \A p \in PositionsIn(B) :
              EntryIn(B, p) \in Entries /\ EntryIn(B, p) \in ContentsIn(B)
         /\ \A e \in ContentsIn(B) : \E p \in PositionsIn(B) : EntryIn(B, p) = e
<1>1. \A a \in 0 .. n - 1 : /\ B[a] \in Seq(Entries)
                            /\ Len(B[a]) \in Nat
                            /\ DOMAIN B[a] = 1 .. Len(B[a])
  BY LenProperties DEF IsTable
<1>2. DOMAIN B = 0 .. n - 1 /\ n \in Nat
  BY DEF IsTable
<1>3. \A p : p \in PositionsIn(B) <=>
              p \in Places /\ p[1] \in 0 .. n - 1 /\ p[2] < Len(B[p[1]])
  <2>1. \A p : p \in PositionsIn(B) <=>
                \E a \in 0 .. n - 1 : p \in {a} \X (0 .. Len(B[a]) - 1)
    BY <1>2 DEF PositionsIn, Indices
  <2>2. ASSUME NEW p, p \in PositionsIn(B)
        PROVE  p \in Places /\ p[1] \in 0 .. n - 1 /\ p[2] < Len(B[p[1]])
    <3>1. PICK a \in 0 .. n - 1 : p \in {a} \X (0 .. Len(B[a]) - 1)
      BY <2>1, <2>2
    <3> QED BY <1>1, <1>2, <3>1 DEF Places
  <2>3. ASSUME NEW p \in Places, p[1] \in 0 .. n - 1, p[2] < Len(B[p[1]])
        PROVE  p \in PositionsIn(B)
    <3>1. p \in {p[1]} \X (0 .. Len(B[p[1]]) - 1)
      BY <1>1, <2>3 DEF Places
    <3> QED BY <2>1, <2>3, <3>1
  <2> QED BY <2>2, <2>3
<1>4. \A p \in PositionsIn(B) :
        EntryIn(B, p) \in Entries /\ EntryIn(B, p) \in ContentsIn(B)
  <2> TAKE p \in PositionsIn(B)
  <2> DEFINE a == p[1]
             i == p[2] + 1
  <2>1. a \in 0 .. n - 1 /\ i \in 1 .. Len(B[a])
    BY <1>1, <1>3 DEF Places
  <2>2. EntryIn(B, p) = B[a][i]
    BY DEF EntryIn, ItemAt
  <2> HIDE DEF a, i
  <2>3. B[a][i] \in Entries
    BY <1>1, <2>1, ElementOfSeq
  <2>4. B[a][i] \in ToSet(B[a])
    BY <1>1, <2>1 DEF ToSet
  <2> QED BY <1>2, <2>1, <2>2, <2>3, <2>4 DEF ContentsIn
<1>5. \A e \in ContentsIn(B) : \E p \in PositionsIn(B) : EntryIn(B, p) = e
  <2> TAKE e \in ContentsIn(B)
  <2>1. PICK a \in 0 .. n - 1 : e \in ToSet(B[a])
    BY <1>2 DEF ContentsIn
  <2>2. PICK i \in 1 .. Len(B[a]) : e = B[a][i]
    BY <1>1, <2>1 DEF ToSet
  <2> DEFINE p == <<a, i - 1>>
  <2>3. p \in Places /\ p[1] = a /\ p[2] = i - 1
    BY <1>1, <1>2, <2>2 DEF Places
  <2> HIDE DEF p
  <2>4. p \in PositionsIn(B)
    BY <1>1, <1>3, <2>2, <2>3
  <2>5. EntryIn(B, p) = B[a][i]
    <3>1. i - 1 + 1 = i
      BY <1>1, <2>2
    <3> QED BY <2>3, <3>1 DEF EntryIn, ItemAt
  <2> QED BY <2>2, <2>4, <2>5
<1> QED BY <1>3, <1>4, <1>5

\* A table has what is at its positions.
LEMMA ContentsFacts ==
  ASSUME NEW B, NEW n, IsTable(B, n)
  PROVE  \A x : x \in ContentsIn(B) <=> \E p \in PositionsIn(B) : EntryIn(B, p) = x
<1>1. \A p \in PositionsIn(B) : EntryIn(B, p) \in ContentsIn(B)
  BY PositionFacts
<1>2. \A e \in ContentsIn(B) : \E p \in PositionsIn(B) : EntryIn(B, p) = e
  BY PositionFacts
<1> QED BY <1>1, <1>2

\* A position is its bucket and its index.
LEMMA PlaceEqual ==
  /\ \A p, q \in Places : p[1] = q[1] /\ p[2] = q[2] => p = q
  /\ \A p \in Places : p[1] \in Nat /\ p[2] \in Nat
  BY DEF Places

\* A hash modulo the number of buckets is a bucket.
LEMMA BucketExists ==
  ASSUME NEW e \in Entries, NEW n \in Nat, n > 0
  PROVE  BucketOf(KeyOf[e], n) \in 0 .. n - 1
<1>1. Hash[KeyOf[e]] \in Nat
  BY EntriesAssumption, HashAssumption
<1> QED BY <1>1 DEF BucketOf

\* Buckets without elements are a table without elements.
LEMMA EmptyTable ==
  ASSUME NEW n \in Nat
  PROVE  /\ IsTable(EmptyBuckets(n), n)
         /\ InPlace(EmptyBuckets(n), n)
         /\ ContentsIn(EmptyBuckets(n)) = {}
<1> DEFINE B == EmptyBuckets(n)
<1>1. IsTable(B, n) /\ \A a \in 0 .. n - 1 : B[a] = <<>>
  BY EmptySeq DEF IsTable, EmptyBuckets
<1> HIDE DEF B
<1>2. PositionsIn(B) = {}
  BY <1>1, PositionFacts, EmptySeq DEF Places
<1>3. ContentsIn(B) = {}
  BY <1>1, <1>2, PositionFacts
<1>4. InPlace(B, n)
  BY <1>2 DEF InPlace
<1> QED BY <1>1, <1>3, <1>4 DEF B

\* A table with one position, and one element, more than another.
LEMMA OneMore ==
  ASSUME NEW B, NEW C, NEW n, IsTable(B, n), InPlace(B, n), IsTable(C, n),
         NEW e, e \notin ContentsIn(B),
         NEW new, new[1] = BucketOf(KeyOf[e], n),
         \A p : p \in PositionsIn(C) <=> p \in PositionsIn(B) \/ p = new,
         \A p \in PositionsIn(B) : EntryIn(C, p) = EntryIn(B, p),
         EntryIn(C, new) = e
  PROVE  InPlace(C, n) /\ ContentsIn(C) = ContentsIn(B) \cup {e}
<1>1. \A p \in PositionsIn(B) : EntryIn(B, p) # e
  BY PositionFacts
<1>2. InPlace(C, n)
  <2>1. ASSUME NEW p \in PositionsIn(C), NEW q \in PositionsIn(C),
               EntryIn(C, p) = EntryIn(C, q)
        PROVE  p = q
    <3>1. CASE p = new /\ q = new
      BY <3>1
    <3>2. CASE p # new /\ q # new
      <4>1. p \in PositionsIn(B) /\ q \in PositionsIn(B)
        BY <3>2
      <4> QED BY <2>1, <4>1 DEF InPlace
    <3>3. CASE p = new /\ q # new
      <4>1. q \in PositionsIn(B) /\ EntryIn(B, q) = e
        BY <2>1, <3>3
      <4> QED BY <1>1, <4>1
    <3>4. CASE p # new /\ q = new
      <4>1. p \in PositionsIn(B) /\ EntryIn(B, p) = e
        BY <2>1, <3>4
      <4> QED BY <1>1, <4>1
    <3> QED BY <3>1, <3>2, <3>3, <3>4
  <2>2. ASSUME NEW p \in PositionsIn(C)
        PROVE  p[1] = BucketOf(KeyOf[EntryIn(C, p)], n)
    BY DEF InPlace
  <2> QED BY <2>1, <2>2 DEF InPlace
<1>3. ContentsIn(C) = ContentsIn(B) \cup {e}
  <2>1. \A x : x \in ContentsIn(C) <=> \E p \in PositionsIn(C) : EntryIn(C, p) = x
    BY ContentsFacts
  <2>2. \A x : x \in ContentsIn(B) <=> \E p \in PositionsIn(B) : EntryIn(B, p) = x
    BY ContentsFacts
  <2>3. \A x \in ContentsIn(C) : x \in ContentsIn(B) \/ x = e
    BY <2>1, <2>2
  <2>4. \A x \in ContentsIn(B) : x \in ContentsIn(C)
    BY <2>1, <2>2
  <2>5. e \in ContentsIn(C)
    BY <2>1
  <2> QED BY <2>3, <2>4, <2>5
<1> QED BY <1>2, <1>3

Appended(B, a, e) == [B EXCEPT ![a] = Append(@, e)]

\* Where the elements of a table are after one is added to a bucket.
LEMMA AppendPositions ==
  ASSUME NEW B, NEW n, IsTable(B, n), NEW a \in 0 .. n - 1, NEW e \in Entries
  PROVE  /\ IsTable(Appended(B, a, e), n)
         /\ EntryIn(Appended(B, a, e), <<a, Len(B[a])>>) = e
         /\ \A p : p \in PositionsIn(Appended(B, a, e)) <=>
                     p \in PositionsIn(B) \/ p = <<a, Len(B[a])>>
<1> DEFINE new == <<a, Len(B[a])>>
           C == Appended(B, a, e)
<1>1. a \in 0 .. n - 1 /\ n \in Nat
  BY DEF IsTable
<1>2. \A i \in 0 .. n - 1 : B[i] \in Seq(Entries) /\ Len(B[i]) \in Nat
  BY LenProperties DEF IsTable
<1>3. /\ C[a] = Append(B[a], e)
      /\ \A i \in 0 .. n - 1 : i # a => C[i] = B[i]
      /\ DOMAIN C = 0 .. n - 1
      /\ C = [i \in 0 .. n - 1 |-> C[i]]
  BY <1>1 DEF IsTable, Appended
<1> HIDE DEF C
<1>4. /\ C[a] \in Seq(Entries)
      /\ Len(C[a]) = Len(B[a]) + 1
      /\ \A i \in 1 .. Len(B[a]) : C[a][i] = B[a][i]
      /\ C[a][Len(B[a]) + 1] = e
  BY <1>1, <1>2, <1>3, AppendProperties
<1>5. IsTable(C, n)
  BY <1>1, <1>2, <1>3, <1>4 DEF IsTable
<1>6. new \in Places /\ new[1] = a /\ new[2] = Len(B[a])
  BY <1>1, <1>2 DEF Places
<1> HIDE DEF new, C
<1>7. \A p : p \in PositionsIn(C) <=> p \in PositionsIn(B) \/ p = new
  <2> TAKE p
  <2>a. p \in PositionsIn(C) <=> p \in Places /\ p[1] \in 0 .. n - 1 /\ p[2] < Len(C[p[1]])
    BY <1>5, PositionFacts
  <2>b. p \in PositionsIn(B) <=> p \in Places /\ p[1] \in 0 .. n - 1 /\ p[2] < Len(B[p[1]])
    BY PositionFacts
  <2>1. CASE p \notin Places
    BY <1>6, <2>1, <2>a, <2>b
  <2>2. CASE p \in Places /\ p[1] # a
    BY <1>3, <1>6, <2>2, <2>a, <2>b
  <2>3. CASE p \in Places /\ p[1] = a
    <3>1. p[2] \in Nat
      BY <2>3 DEF Places
    <3>2. p = new <=> p[2] = Len(B[a])
      BY <1>6, <2>3, PlaceEqual
    <3>3. p[2] < Len(C[a]) <=> p[2] < Len(B[a]) \/ p[2] = Len(B[a])
      BY <1>1, <1>2, <1>4, <3>1
    <3> QED BY <1>1, <2>3, <3>2, <3>3, <2>a, <2>b
  <2> QED BY <2>1, <2>2, <2>3
<1>9. EntryIn(C, new) = e
  BY <1>4, <1>6 DEF EntryIn, ItemAt
<1> QED BY <1>5, <1>7, <1>9 DEF new, C

\* Adding an element moves none.
LEMMA AppendKeeps ==
  ASSUME NEW B, NEW n, IsTable(B, n), NEW a \in 0 .. n - 1, NEW e \in Entries,
         NEW p \in PositionsIn(B)
  PROVE  EntryIn(Appended(B, a, e), p) = EntryIn(B, p)
<1> DEFINE C == Appended(B, a, e)
<1>2. B[a] \in Seq(Entries) /\ Len(B[a]) \in Nat
  BY LenProperties DEF IsTable
<1>3. /\ C[a] = Append(B[a], e)
      /\ \A i \in 0 .. n - 1 : i # a => C[i] = B[i]
  BY DEF IsTable, Appended
<1> HIDE DEF C
<1>4. \A i \in 1 .. Len(B[a]) : C[a][i] = B[a][i]
  BY <1>2, <1>3, AppendProperties
<1>5. p[1] \in 0 .. n - 1 /\ p[2] \in Nat /\ p[2] < Len(B[p[1]])
  BY PositionFacts DEF Places
<1>6. CASE p[1] # a
  BY <1>3, <1>5, <1>6 DEF EntryIn, C
<1>7. CASE p[1] = a
  <2>1. p[2] + 1 \in 1 .. Len(B[a])
    BY <1>2, <1>5, <1>7
  <2> QED BY <1>4, <1>7, <2>1 DEF EntryIn, ItemAt, C
<1> QED BY <1>6, <1>7 DEF C

\* Adding an element that the table does not have to the bucket of its key.
LEMMA AppendTable ==
  ASSUME NEW B, NEW n, IsTable(B, n), InPlace(B, n), n > 0,
         NEW e \in Entries, e \notin ContentsIn(B), NEW a, a = BucketOf(KeyOf[e], n)
  PROVE  /\ IsTable(Appended(B, a, e), n)
         /\ InPlace(Appended(B, a, e), n)
         /\ ContentsIn(Appended(B, a, e)) = ContentsIn(B) \cup {e}
<1> DEFINE new == <<a, Len(B[a])>>
           C == Appended(B, a, e)
<1>0. a \in 0 .. n - 1
  BY BucketExists DEF IsTable
<1>1. IsTable(C, n)
  BY <1>0, AppendPositions
<1>2. EntryIn(C, new) = e
  BY <1>0, AppendPositions
<1>3. \A p : p \in PositionsIn(C) <=> p \in PositionsIn(B) \/ p = new
  BY <1>0, AppendPositions
<1>4. \A p \in PositionsIn(B) : EntryIn(C, p) = EntryIn(B, p)
  BY <1>0, AppendKeeps
<1>5. new[1] = BucketOf(KeyOf[e], n)
  OBVIOUS
<1> HIDE DEF new, C
<1>6. InPlace(C, n) /\ ContentsIn(C) = ContentsIn(B) \cup {e}
  BY <1>1, <1>2, <1>3, <1>4, <1>5, OneMore
<1> QED BY <1>1, <1>6 DEF C

\* erase() of an Unordered_Array: all but one element stay, and only the last moves.
LEMMA SwapEraseFacts ==
  ASSUME NEW s \in Seq(Entries), NEW b \in Indices(s)
  PROVE  /\ SwapErase(s, b) \in Seq(Entries)
         /\ Len(SwapErase(s, b)) = Len(s) - 1
         /\ \A i \in 0 .. Len(s) - 2 :
              ItemAt(SwapErase(s, b), i) = IF i = b THEN ItemAt(s, Len(s) - 1)
                                                    ELSE ItemAt(s, i)
<1> DEFINE l == Len(s)
           t == [s EXCEPT ![b + 1] = s[l]]
<1>1. l \in Nat /\ b \in 0 .. l - 1 /\ b + 1 \in 1 .. l /\ l \in 1 .. l
  BY LenProperties DEF Indices
<1>2. s[l] \in Entries
  BY <1>1, ElementOfSeq
<1>3. /\ t \in Seq(Entries)
      /\ Len(t) = l
      /\ \A j \in 1 .. l : t[j] = IF j = b + 1 THEN s[l] ELSE s[j]
  BY <1>1, <1>2, ExceptSeq
<1>4. SwapErase(s, b) = SubSeq(t, 1, l - 1)
  BY <1>3 DEF SwapErase, Front
<1> HIDE DEF l, t
<1>5. \A i \in 1 .. l - 1 : t[i] \in Entries
  BY <1>1, <1>3, ElementOfSeq
<1>6. /\ SwapErase(s, b) \in Seq(Entries)
      /\ Len(SwapErase(s, b)) = l - 1
      /\ \A i \in 1 .. l - 1 : SwapErase(s, b)[i] = t[i]
  <2>1. /\ SubSeq(t, 1, l - 1) \in Seq(Entries)
        /\ Len(SubSeq(t, 1, l - 1)) = IF 1 <= l - 1 THEN l - 1 - 1 + 1 ELSE 0
        /\ \A i \in 1 .. l - 1 - 1 + 1 : SubSeq(t, 1, l - 1)[i] = t[1 + i - 1]
    BY <1>1, <1>5, SubSeqProperties
  <2>2. l - 1 - 1 + 1 = l - 1 /\ l >= 1
    BY <1>1
  <2>3. Len(SubSeq(t, 1, l - 1)) = l - 1
    BY <1>1, <2>1, <2>2
  <2>4. ASSUME NEW i \in 1 .. l - 1 PROVE SubSeq(t, 1, l - 1)[i] = t[i]
    <3>1. 1 + i - 1 = i
      BY <1>1
    <3> QED BY <2>1, <2>2, <3>1
  <2> QED BY <1>4, <2>1, <2>3, <2>4
<1>7. ASSUME NEW i \in 0 .. l - 2
      PROVE  ItemAt(SwapErase(s, b), i) = IF i = b THEN ItemAt(s, l - 1) ELSE ItemAt(s, i)
  <2>1. i + 1 \in 1 .. l - 1 /\ i + 1 \in 1 .. l /\ l - 1 + 1 = l /\ (i + 1 = b + 1 <=> i = b)
    BY <1>1
  <2>2. SwapErase(s, b)[i + 1] = IF i = b THEN s[l] ELSE s[i + 1]
    BY <1>3, <1>6, <2>1
  <2> QED BY <2>1, <2>2 DEF ItemAt
<1> QED BY <1>6, <1>7 DEF l

\* What an erase() leaves where it was: all but the last of the bucket, which is in
\* the place of the erased.
MovedBack(B, a, b, p) == IF p = <<a, b>> THEN <<a, Len(B[a]) - 1>> ELSE p

Erased(B, a, b) == [B EXCEPT ![a] = SwapErase(@, b)]

\* Where the elements of a table are after one is erased: the last position of its
\* bucket is gone.
LEMMA ErasePositions ==
  ASSUME NEW B, NEW n, IsTable(B, n), NEW a \in 0 .. n - 1, NEW b \in Indices(B[a])
  PROVE  /\ IsTable(Erased(B, a, b), n)
         /\ <<a, b>> \in PositionsIn(B)
         /\ <<a, Len(B[a]) - 1>> \in PositionsIn(B)
         /\ Len(Erased(B, a, b)[a]) = Len(B[a]) - 1
         /\ \A p : p \in PositionsIn(Erased(B, a, b)) <=>
                     p \in PositionsIn(B) /\ p # <<a, Len(B[a]) - 1>>
<1> DEFINE last == <<a, Len(B[a]) - 1>>
           hole == <<a, b>>
           C == Erased(B, a, b)
<1>1. n \in Nat /\ a \in Nat /\ B[a] \in Seq(Entries)
  BY DEF IsTable
<1>2. \A i \in 0 .. n - 1 : B[i] \in Seq(Entries) /\ Len(B[i]) \in Nat
  BY LenProperties DEF IsTable
<1>3. /\ C[a] = SwapErase(B[a], b)
      /\ \A i \in 0 .. n - 1 : i # a => C[i] = B[i]
      /\ DOMAIN C = 0 .. n - 1
      /\ C = [i \in 0 .. n - 1 |-> C[i]]
  BY DEF IsTable, Erased
<1> HIDE DEF C
<1>4. /\ C[a] \in Seq(Entries)
      /\ Len(C[a]) = Len(B[a]) - 1
      /\ \A i \in 0 .. Len(B[a]) - 2 :
           ItemAt(C[a], i) = IF i = b THEN ItemAt(B[a], Len(B[a]) - 1) ELSE ItemAt(B[a], i)
  BY <1>1, <1>3, SwapEraseFacts
<1>5. IsTable(C, n)
  BY <1>1, <1>2, <1>3, <1>4 DEF IsTable
<1>6. b \in Nat /\ b < Len(B[a]) /\ Len(B[a]) - 1 \in Nat
  BY <1>2 DEF Indices
<1>7. /\ last \in Places /\ last[1] = a /\ last[2] = Len(B[a]) - 1
      /\ hole \in Places /\ hole[1] = a /\ hole[2] = b
  BY <1>1, <1>6 DEF Places
<1> HIDE DEF last, hole, C
<1>9. last \in PositionsIn(B) /\ hole \in PositionsIn(B)
  BY <1>2, <1>6, <1>7, PositionFacts
<1>10. \A p : p \in PositionsIn(C) <=> p \in PositionsIn(B) /\ p # last
  <2> TAKE p
  <2>a. p \in PositionsIn(C) <=> p \in Places /\ p[1] \in 0 .. n - 1 /\ p[2] < Len(C[p[1]])
    BY <1>5, PositionFacts
  <2>b. p \in PositionsIn(B) <=> p \in Places /\ p[1] \in 0 .. n - 1 /\ p[2] < Len(B[p[1]])
    BY PositionFacts
  <2>1. CASE p \notin Places
    BY <2>1, <2>a, <2>b
  <2>2. CASE p \in Places /\ p[1] # a
    BY <1>3, <1>7, <2>2, <2>a, <2>b
  <2>3. CASE p \in Places /\ p[1] = a
    <3>1. p[2] \in Nat
      BY <2>3, PlaceEqual
    <3>2. p = last <=> p[2] = Len(B[a]) - 1
      BY <1>7, <2>3, PlaceEqual
    <3>3. p[2] < Len(C[a]) <=> p[2] < Len(B[a]) /\ p[2] # Len(B[a]) - 1
      BY <1>2, <1>4, <3>1
    <3> QED BY <2>3, <3>2, <3>3, <2>a, <2>b
  <2> QED BY <2>1, <2>2, <2>3
<1> QED BY <1>4, <1>5, <1>9, <1>10 DEF last, hole, C

\* What an erase() leaves is where it was, but for the last of the bucket, which is
\* in the place of the erased.
LEMMA EraseKeeps ==
  ASSUME NEW B, NEW n, IsTable(B, n), NEW a \in 0 .. n - 1, NEW b \in Indices(B[a]),
         NEW p \in PositionsIn(Erased(B, a, b))
  PROVE  EntryIn(Erased(B, a, b), p) = EntryIn(B, MovedBack(B, a, b, p))
<1> DEFINE last == <<a, Len(B[a]) - 1>>
           hole == <<a, b>>
           C == Erased(B, a, b)
<1>1. n \in Nat /\ a \in Nat /\ B[a] \in Seq(Entries)
  BY DEF IsTable
<1>2. \A i \in 0 .. n - 1 : B[i] \in Seq(Entries) /\ Len(B[i]) \in Nat
  BY LenProperties DEF IsTable
<1>3. /\ C[a] = SwapErase(B[a], b)
      /\ \A i \in 0 .. n - 1 : i # a => C[i] = B[i]
      /\ DOMAIN C = 0 .. n - 1
      /\ C = [i \in 0 .. n - 1 |-> C[i]]
  BY DEF IsTable, Erased
<1> HIDE DEF C
<1>4. /\ C[a] \in Seq(Entries)
      /\ Len(C[a]) = Len(B[a]) - 1
      /\ \A i \in 0 .. Len(B[a]) - 2 :
           ItemAt(C[a], i) = IF i = b THEN ItemAt(B[a], Len(B[a]) - 1) ELSE ItemAt(B[a], i)
  BY <1>1, <1>3, SwapEraseFacts
<1>5. IsTable(C, n)
  BY <1>1, <1>2, <1>3, <1>4 DEF IsTable
<1>6. b \in Nat /\ b < Len(B[a]) /\ Len(B[a]) - 1 \in Nat
  BY <1>2 DEF Indices
<1>7. /\ last \in Places /\ last[1] = a /\ last[2] = Len(B[a]) - 1
      /\ hole \in Places /\ hole[1] = a /\ hole[2] = b
  BY <1>1, <1>6 DEF Places
<1>8. MovedBack(B, a, b, p) = IF p = hole THEN last ELSE p
  BY DEF MovedBack
<1> HIDE DEF last, hole, C
<1>9. p \in PositionsIn(B) /\ p \in Places /\ p[1] \in 0 .. n - 1
  BY <1>5, ErasePositions, PositionFacts DEF C
<1>10. ASSUME p[1] # a
       PROVE  EntryIn(C, p) = EntryIn(B, IF p = hole THEN last ELSE p)
  BY <1>3, <1>7, <1>9, <1>10 DEF EntryIn
<1>11. ASSUME p[1] = a
       PROVE  EntryIn(C, p) = EntryIn(B, IF p = hole THEN last ELSE p)
  <2>1. p[2] \in 0 .. Len(B[a]) - 2
    <3>1. p[2] < Len(C[a]) /\ p[2] \in Nat
      BY <1>5, <1>9, <1>11, PositionFacts, PlaceEqual DEF C
    <3> QED BY <1>2, <1>4, <3>1
  <2>2. p = hole <=> p[2] = b
    BY <1>7, <1>9, <1>11, PlaceEqual
  <2>3. EntryIn(C, p) = IF p = hole THEN ItemAt(B[a], Len(B[a]) - 1) ELSE ItemAt(B[a], p[2])
    BY <1>4, <1>11, <2>1, <2>2 DEF EntryIn
  <2> QED BY <1>7, <1>11, <2>3 DEF EntryIn
<1>12. EntryIn(C, p) = EntryIn(B, IF p = hole THEN last ELSE p)
  BY <1>10, <1>11
<1> QED BY <1>8, <1>12 DEF C

\* Erasing the element at a position.
LEMMA EraseTable ==
  ASSUME NEW B, NEW n, IsTable(B, n), InPlace(B, n),
         NEW a \in 0 .. n - 1, NEW b \in Indices(B[a])
  PROVE  /\ IsTable(Erased(B, a, b), n)
         /\ InPlace(Erased(B, a, b), n)
         /\ ContentsIn(Erased(B, a, b)) = ContentsIn(B) \ {EntryIn(B, <<a, b>>)}
<1> DEFINE last == <<a, Len(B[a]) - 1>>
           hole == <<a, b>>
           C == Erased(B, a, b)
<1>1. IsTable(C, n)
  BY ErasePositions
<1>2. last[1] = a /\ hole[1] = a
  OBVIOUS
<1>3. \A p : MovedBack(B, a, b, p) = IF p = hole THEN last ELSE p
  BY DEF MovedBack
<1>4. last \in PositionsIn(B) /\ hole \in PositionsIn(B)
  BY ErasePositions
<1>5. \A p : p \in PositionsIn(C) <=> p \in PositionsIn(B) /\ p # last
  BY ErasePositions
<1>6. \A p \in PositionsIn(C) : EntryIn(C, p) = EntryIn(B, IF p = hole THEN last ELSE p)
  <2>1. \A p \in PositionsIn(C) : EntryIn(C, p) = EntryIn(B, MovedBack(B, a, b, p))
    BY EraseKeeps
  <2> HIDE DEF C, last, hole
  <2> QED BY <1>3, <2>1
<1> HIDE DEF last, hole, C
<1>7. InPlace(C, n)
  <2> DEFINE back(p) == IF p = hole THEN last ELSE p
  <2>1. \A p \in PositionsIn(C) : back(p) \in PositionsIn(B) /\ back(p)[1] = p[1]
    BY <1>2, <1>4, <1>5
  <2>2. \A p, q \in PositionsIn(C) : back(p) = back(q) => p = q
    BY <1>5
  <2>3. \A p \in PositionsIn(C) : EntryIn(C, p) = EntryIn(B, back(p))
    BY <1>6
  <2> HIDE DEF back
  <2>4. ASSUME NEW p \in PositionsIn(C), NEW q \in PositionsIn(C),
               EntryIn(C, p) = EntryIn(C, q)
        PROVE  p = q
    <3>1. EntryIn(B, back(p)) = EntryIn(B, back(q))
      BY <2>3, <2>4
    <3>2. back(p) = back(q)
      BY <2>1, <3>1 DEF InPlace
    <3> QED BY <2>2, <3>2
  <2>5. ASSUME NEW p \in PositionsIn(C)
        PROVE  p[1] = BucketOf(KeyOf[EntryIn(C, p)], n)
    BY <2>1, <2>3 DEF InPlace
  <2> QED BY <2>4, <2>5 DEF InPlace
<1>8. ContentsIn(C) = ContentsIn(B) \ {EntryIn(B, hole)}
  <2>1. \A x : x \in ContentsIn(C) <=> \E p \in PositionsIn(C) : EntryIn(C, p) = x
    BY <1>1, ContentsFacts
  <2>2. \A x : x \in ContentsIn(B) <=> \E p \in PositionsIn(B) : EntryIn(B, p) = x
    BY ContentsFacts
  <2>3. ASSUME NEW x \in ContentsIn(C)
        PROVE  x \in ContentsIn(B) /\ x # EntryIn(B, hole)
    <3>1. PICK p \in PositionsIn(C) : x = EntryIn(C, p)
      BY <2>1
    <3> DEFINE q == IF p = hole THEN last ELSE p
    <3>2. q \in PositionsIn(B) /\ q # hole
      BY <1>4, <1>5
    <3>3. x = EntryIn(B, q)
      BY <1>6, <3>1
    <3> HIDE DEF q
    <3> QED BY <1>4, <2>2, <3>2, <3>3 DEF InPlace
  <2>4. ASSUME NEW x \in ContentsIn(B), x # EntryIn(B, hole)
        PROVE  x \in ContentsIn(C)
    <3>1. PICK p \in PositionsIn(B) : x = EntryIn(B, p)
      BY <2>2
    <3>2. p # hole
      BY <2>4, <3>1
    <3>3. CASE p = last
      <4>1. hole \in PositionsIn(C)
        BY <1>4, <1>5, <3>2, <3>3
      <4>2. EntryIn(C, hole) = x
        BY <1>6, <3>1, <3>3, <4>1
      <4> QED BY <2>1, <4>1, <4>2
    <3>4. CASE p # last
      <4>1. p \in PositionsIn(C)
        BY <1>5, <3>4
      <4>2. EntryIn(C, p) = x
        BY <1>6, <3>1, <3>2, <4>1
      <4> QED BY <2>1, <4>1, <4>2
    <3> QED BY <3>3, <3>4
  <2> QED BY <2>3, <2>4
<1> QED BY <1>1, <1>7, <1>8 DEF hole, C

\* The positions are finitely many: each has an element of its own.
LEMMA FinitePositions ==
  ASSUME NEW B, NEW n, IsTable(B, n), InPlace(B, n)
  PROVE  IsFiniteSet(PositionsIn(B))
<1> DEFINE f == [p \in PositionsIn(B) |-> EntryIn(B, p)]
<1>1. f \in [PositionsIn(B) -> Entries]
  BY PositionFacts
<1>2. \A p, q \in PositionsIn(B) : f[p] = f[q] => p = q
  BY DEF InPlace
<1> HIDE DEF f
<1>3. f \in Injection(PositionsIn(B), Entries)
  BY <1>1, <1>2 DEF Injection, IsInjective
<1> QED BY <1>3, EntriesAssumption, FS_Injection

\* The positions whose elements rehash() puts into bucket a of n.
GoTo(a, n) == {p \in PositionsIn(buckets) : BucketOf(KeyOf[EntryIn(buckets, p)], n) = a}

\* A new bucket: its elements are those of GoTo, each of them once.
LEMMA NewBucket ==
  ASSUME NEW n, IsTable(buckets, n), InPlace(buckets, n),
         NEW m \in Nat, NEW a \in 0 .. m - 1
  PROVE  /\ Rehashed(m)[a] \in Seq(Entries)
         /\ Len(Rehashed(m)[a]) \in Nat
         /\ \A i \in 1 .. Len(Rehashed(m)[a]) :
              /\ Nth(GoTo(a, m), i) \in GoTo(a, m)
              /\ Rehashed(m)[a][i] = EntryIn(buckets, Nth(GoTo(a, m), i))
         /\ \A p \in GoTo(a, m) :
              \E i \in 1 .. Len(Rehashed(m)[a]) : Nth(GoTo(a, m), i) = p
         /\ \A i, j \in 1 .. Len(Rehashed(m)[a]) :
              Nth(GoTo(a, m), i) = Nth(GoTo(a, m), j) => i = j
<1> DEFINE P == GoTo(a, m)
           c == Cardinality(P)
           s == InOrder(P)
<1>1. P \in SUBSET PositionsIn(buckets)
  BY DEF GoTo
<1>2. Rehashed(m)[a] = s
  BY DEF Rehashed, GoTo, Positions, PositionsIn, EntryAt, EntryIn
<1> HIDE DEF P
<1>3. IsFiniteSet(P) /\ P \in SUBSET Places
  BY <1>1, FinitePositions, PositionFacts, FS_Subset
<1>4. /\ c \in Nat
      /\ \A i \in 1 .. c : Nth(P, i) \in P
      /\ \A p \in P : \E i \in 1 .. c : Nth(P, i) = p
      /\ \A i, j \in 1 .. c : Nth(P, i) = Nth(P, j) => i = j
  BY <1>3, NthEnumerates
<1>5. /\ s \in [1 .. c -> Entries]
      /\ \A i \in 1 .. c : s[i] = EntryIn(buckets, Nth(P, i))
  <2>1. \A p \in P : EntryIn(buckets, p) \in Entries
    BY <1>1, PositionFacts
  <2> QED BY <1>4, <2>1 DEF InOrder, EntryAt, EntryIn
<1> HIDE DEF s, c
<1>6. s \in Seq(Entries) /\ Len(s) = c
  BY <1>4, <1>5, SeqDef
<1> QED BY <1>2, <1>4, <1>5, <1>6 DEF P

\* rehash() keeps all elements, and each is in the bucket of its key afterwards.
LEMMA RehashTable ==
  ASSUME NEW n, IsTable(buckets, n), InPlace(buckets, n),
         NEW m \in Nat, m = 0 => ContentsIn(buckets) = {}
  PROVE  /\ IsTable(Rehashed(m), m)
         /\ InPlace(Rehashed(m), m)
         /\ ContentsIn(Rehashed(m)) = ContentsIn(buckets)
<1> DEFINE C == Rehashed(m)
           B == buckets
           src(p) == Nth(GoTo(p[1], m), p[2] + 1)
<1>1. IsTable(C, m)
  <2>1. \A a \in 0 .. m - 1 : C[a] \in Seq(Entries)
    BY NewBucket
  <2>2. C = [a \in 0 .. m - 1 |-> C[a]]
    BY DEF Rehashed
  <2> QED BY <2>1, <2>2 DEF IsTable
<1>2. ASSUME NEW p \in PositionsIn(C)
      PROVE  /\ p \in Places
             /\ p[1] \in 0 .. m - 1
             /\ p[2] + 1 \in 1 .. Len(C[p[1]])
             /\ src(p) \in GoTo(p[1], m)
             /\ EntryIn(C, p) = EntryIn(B, src(p))
  <2> HIDE DEF C
  <2>1. p \in Places /\ p[1] \in 0 .. m - 1 /\ p[2] \in Nat /\ p[2] < Len(C[p[1]])
    BY <1>1, PositionFacts, PlaceEqual
  <2> DEFINE a == p[1]
             i == p[2] + 1
  <2>2. Len(C[a]) \in Nat
    BY <2>1, NewBucket DEF C
  <2>3. i \in 1 .. Len(C[a])
    BY <2>1, <2>2
  <2> HIDE DEF i
  <2>4. Nth(GoTo(a, m), i) \in GoTo(a, m) /\ C[a][i] = EntryIn(buckets, Nth(GoTo(a, m), i))
    BY <2>1, <2>3, NewBucket DEF C
  <2>5. EntryIn(C, p) = C[a][i]
    BY DEF EntryIn, ItemAt, i
  <2> QED BY <2>1, <2>3, <2>4, <2>5 DEF i
<1>3. \A p \in PositionsIn(C) : src(p) \in PositionsIn(B)
                               /\ BucketOf(KeyOf[EntryIn(B, src(p))], m) = p[1]
  BY <1>2 DEF GoTo
<1>4. ASSUME NEW p \in PositionsIn(C), NEW q \in PositionsIn(C), src(p) = src(q)
      PROVE  p = q
  <2>1. p[1] = q[1]
    BY <1>3, <1>4
  <2>2. p[2] + 1 = q[2] + 1
    <3> DEFINE a == p[1]
               i == p[2] + 1
               j == q[2] + 1
    <3>1. a \in 0 .. m - 1 /\ i \in 1 .. Len(C[a]) /\ j \in 1 .. Len(C[a])
      BY <1>2, <2>1
    <3>2. Nth(GoTo(a, m), i) = Nth(GoTo(a, m), j)
      BY <1>4, <2>1
    <3> HIDE DEF a, i, j, C
    <3>3. i = j
      BY <3>1, <3>2, NewBucket DEF C
    <3> QED BY <3>3 DEF i, j
  <2>3. p \in Places /\ q \in Places
    BY <1>2
  <2>4. p[2] = q[2]
    BY <2>2, <2>3, PlaceEqual
  <2> QED BY <2>1, <2>3, <2>4, PlaceEqual
<1>5. ASSUME NEW r \in PositionsIn(B)
      PROVE  \E p \in PositionsIn(C) : src(p) = r
  <2> DEFINE a == BucketOf(KeyOf[EntryIn(B, r)], m)
  <2>1. EntryIn(B, r) \in Entries /\ m > 0
    BY PositionFacts
  <2>2. a \in 0 .. m - 1
    BY <2>1, BucketExists
  <2>3. r \in GoTo(a, m)
    BY DEF GoTo
  <2> HIDE DEF a, C
  <2>4. PICK i \in 1 .. Len(C[a]) : Nth(GoTo(a, m), i) = r
    BY <2>2, <2>3, NewBucket DEF C
  <2> DEFINE p == <<a, i - 1>>
  <2>5. Len(C[a]) \in Nat
    BY <2>2, NewBucket DEF C
  <2>6. p \in Places /\ p[1] = a /\ p[2] = i - 1 /\ i - 1 < Len(C[a]) /\ i - 1 + 1 = i
    BY <2>2, <2>5 DEF Places
  <2> HIDE DEF p
  <2>7. p \in PositionsIn(C)
    BY <1>1, <2>2, <2>6, PositionFacts
  <2> QED BY <2>4, <2>6, <2>7
<1> HIDE DEF C, src
<1>6. InPlace(C, m)
  <2>1. ASSUME NEW p \in PositionsIn(C), NEW q \in PositionsIn(C),
               EntryIn(C, p) = EntryIn(C, q)
        PROVE  p = q
    <3>1. EntryIn(B, src(p)) = EntryIn(B, src(q))
      BY <1>2, <2>1
    <3>2. src(p) = src(q)
      BY <1>3, <3>1 DEF InPlace
    <3> QED BY <1>4, <3>2
  <2>2. \A p \in PositionsIn(C) : p[1] = BucketOf(KeyOf[EntryIn(C, p)], m)
    BY <1>2, <1>3
  <2> QED BY <2>1, <2>2 DEF InPlace
<1>7. ContentsIn(C) = ContentsIn(B)
  <2>1. \A x : x \in ContentsIn(C) <=> \E p \in PositionsIn(C) : EntryIn(C, p) = x
    BY <1>1, ContentsFacts
  <2>2. \A x : x \in ContentsIn(B) <=> \E p \in PositionsIn(B) : EntryIn(B, p) = x
    BY ContentsFacts
  <2> HIDE DEF B
  <2>3. \A x \in ContentsIn(C) : x \in ContentsIn(B)
    BY <1>2, <1>3, <2>1, <2>2
  <2>4. \A x \in ContentsIn(B) : x \in ContentsIn(C)
    BY <1>2, <1>5, <2>1, <2>2
  <2> QED BY <2>3, <2>4
<1> QED BY <1>1, <1>6, <1>7 DEF C
----------------------------------------------------------------------------
(* The inductive invariant *)

\* reserve() is honoured by having a bucket more than it was for: emplace() only
\* ever adds to them, and rehash() ends the promise.
TableInv ==
  /\ IsTable(buckets, NumBuckets)
  /\ InPlace(buckets, NumBuckets)
  /\ count \in Nat
  /\ lost \in Nat
  /\ promised \in Nat
  /\ promised > 0 => promised < NumBuckets

\* What a loop at index b of bucket a is still to meet.
IsAhead(p, a, b) == p[1] < a \/ (p[1] = a /\ p[2] < b)

AheadIn(B, a, b) == {EntryIn(B, p) : p \in {q \in PositionsIn(B) : IsAhead(q, a, b)}}

\* The loop in progress: where it is, and what it has met of what was there.
LoopAt(c) ==
  /\ c \in [a : 0 .. NumBuckets - 1, b : Nat, erased : BOOLEAN]
  /\ c.b <= Len(buckets[c.a])
  /\ ~c.erased => c.b < Len(buckets[c.a])
  /\ visited \subseteq Contents
  /\ kept \ visited \subseteq AheadIn(buckets, c.a, c.b)
  /\ AheadIn(buckets, c.a, c.b) \cap visited = {}

LoopInv == cursor # NoCursor => LoopAt(cursor)

IInv == TableInv /\ LoopInv

\* The number of buckets of a table.
LEMMA TableSize ==
  ASSUME NEW B, NEW n, IsTable(B, n)
  PROVE  Cardinality(DOMAIN B) = n /\ n \in Nat
<1>1. DOMAIN B = 0 .. n - 1 /\ n \in Nat
  BY DEF IsTable
<1>2. Cardinality(0 .. n - 1) = n
  BY <1>1, FS_Interval
<1> QED BY <1>1, <1>2

\* The operators of the specification in terms of those above.
LEMMA StateFacts ==
  /\ Positions = PositionsIn(buckets)
  /\ Contents = ContentsIn(buckets)
  /\ \A p : EntryAt(p) = EntryIn(buckets, p)
  /\ NumBuckets = Cardinality(DOMAIN buckets)
  BY DEF Positions, PositionsIn, Contents, ContentsIn, EntryAt, EntryIn, NumBuckets

\* The same after a step.
LEMMA NextStateFacts ==
  /\ Contents' = ContentsIn(buckets')
  /\ NumBuckets' = Cardinality(DOMAIN buckets')
  BY DEF Contents, ContentsIn, NumBuckets

\* The table that emplace() adds to has all elements and a bucket at least.
LEMMA EmplaceTable ==
  ASSUME TableInv, NEW T, T = IF NeedsRehash THEN Rehashed(WantBuckets(count)) ELSE buckets
  PROVE  \E n \in Nat : /\ IsTable(T, n) /\ InPlace(T, n) /\ n > 0 /\ n >= NumBuckets
                        /\ ContentsIn(T) = ContentsIn(buckets)
<1>1. NumBuckets \in Nat /\ count \in Nat
  BY DEF TableInv, IsTable
<1>2. CASE NeedsRehash
  <2>1. count + 1 \in Nat /\ count + 1 > 0 /\ count + 1 >= NumBuckets
    BY <1>1, <1>2 DEF NeedsRehash, WantBuckets
  <2>2. T = Rehashed(count + 1)
    BY <1>2 DEF WantBuckets
  <2>3. /\ IsTable(Rehashed(count + 1), count + 1)
        /\ InPlace(Rehashed(count + 1), count + 1)
        /\ ContentsIn(Rehashed(count + 1)) = ContentsIn(buckets)
    BY <2>1, RehashTable DEF TableInv
  <2> QED BY <2>1, <2>2, <2>3
<1>3. CASE ~NeedsRehash
  <2>1. NumBuckets > 0
    BY <1>1, <1>3 DEF NeedsRehash, WantBuckets
  <2> QED BY <1>1, <1>3, <2>1 DEF TableInv
<1> QED BY <1>2, <1>3

\* emplace() adds one element and keeps the promise of reserve().
LEMMA EmplaceStep ==
  ASSUME TableInv, NEW e \in Entries, ClientEmplace(e)
  PROVE  TableInv' /\ Contents' = Contents \cup {e} /\ count' = count + 1
<1> DEFINE T == IF NeedsRehash THEN Rehashed(WantBuckets(count)) ELSE buckets
           a == BucketOf(KeyOf[e], Cardinality(DOMAIN T))
<1>1. buckets' = Appended(T, a, e) /\ count' = count + 1
  BY DEF ClientEmplace, Emplace, Appended
<1> HIDE DEF T
<1>2. PICK n \in Nat : /\ IsTable(T, n) /\ InPlace(T, n) /\ n > 0 /\ n >= NumBuckets
                      /\ ContentsIn(T) = ContentsIn(buckets)
  BY EmplaceTable DEF T
<1>3. a = BucketOf(KeyOf[e], n)
  BY <1>2, TableSize
<1>4. e \notin ContentsIn(T)
  BY <1>2, StateFacts DEF ClientEmplace
<1> HIDE DEF a
<1>5. IsTable(buckets', n) /\ InPlace(buckets', n) /\ ContentsIn(buckets') = ContentsIn(T) \cup {e}
  <2>1. /\ IsTable(Appended(T, a, e), n)
        /\ InPlace(Appended(T, a, e), n)
        /\ ContentsIn(Appended(T, a, e)) = ContentsIn(T) \cup {e}
    BY <1>2, <1>3, <1>4, AppendTable
  <2> QED BY <1>1, <2>1
<1>6. NumBuckets' = n
  BY <1>5, TableSize, NextStateFacts
<1>7. Contents' = Contents \cup {e}
  BY <1>2, <1>5, StateFacts, NextStateFacts
<1>8. /\ count' \in Nat /\ lost' \in Nat /\ promised' \in Nat
      /\ promised' > 0 => promised' < NumBuckets'
  <2>1. promised' = promised /\ lost' = lost
    BY DEF ClientEmplace
  <2>2. NumBuckets \in Nat
    BY DEF TableInv, IsTable
  <2> QED BY <1>1, <1>2, <1>6, <2>1, <2>2 DEF TableInv
<1> QED BY <1>1, <1>5, <1>6, <1>7, <1>8 DEF TableInv

\* erase() removes the element at its position.
LEMMA EraseStep ==
  ASSUME TableInv, NEW a \in DOMAIN buckets, NEW b \in Indices(buckets[a]), Erase(a, b),
         UNCHANGED <<promised, lost>>
  PROVE  /\ TableInv'
         /\ EntryIn(buckets, <<a, b>>) \in Contents
         /\ Contents' = Contents \ {EntryIn(buckets, <<a, b>>)}
         /\ count' = count - 1
         /\ NumBuckets' = NumBuckets
<1> DEFINE n == NumBuckets
<1>1. IsTable(buckets, n) /\ InPlace(buckets, n) /\ a \in 0 .. n - 1
  BY DEF TableInv, IsTable
<1>2. buckets' = Erased(buckets, a, b) /\ count' = count - 1 /\ count > 0
  BY DEF Erase, Erased
<1> HIDE DEF n
<1>3. /\ IsTable(buckets', n) /\ InPlace(buckets', n)
      /\ <<a, b>> \in PositionsIn(buckets)
      /\ ContentsIn(buckets') = ContentsIn(buckets) \ {EntryIn(buckets, <<a, b>>)}
  <2>1. /\ IsTable(Erased(buckets, a, b), n) /\ InPlace(Erased(buckets, a, b), n)
        /\ ContentsIn(Erased(buckets, a, b))
             = ContentsIn(buckets) \ {EntryIn(buckets, <<a, b>>)}
    BY <1>1, EraseTable
  <2>2. <<a, b>> \in PositionsIn(buckets)
    BY <1>1, ErasePositions
  <2> QED BY <1>2, <2>1, <2>2
<1>4. NumBuckets' = n
  BY <1>3, TableSize, NextStateFacts
<1>5. Contents' = Contents \ {EntryIn(buckets, <<a, b>>)}
  BY <1>3, StateFacts, NextStateFacts
<1>6. EntryIn(buckets, <<a, b>>) \in Contents
  BY <1>1, <1>3, StateFacts, PositionFacts
<1>7. count' \in Nat
  BY <1>2 DEF TableInv
<1>8. TableInv'
  BY <1>3, <1>4, <1>7 DEF TableInv, n
<1> QED BY <1>2, <1>4, <1>5, <1>6, <1>8 DEF n

\* Re-bucketing is invisible.
LEMMA RehashStep ==
  ASSUME TableInv, NEW m \in Nat, m = 0 => Contents = {}, buckets' = Rehashed(m),
         UNCHANGED <<count, lost>>, promised' \in Nat, promised' > 0 => promised' < m
  PROVE  TableInv' /\ Contents' = Contents
<1>1. /\ IsTable(buckets', m) /\ InPlace(buckets', m)
      /\ ContentsIn(buckets') = ContentsIn(buckets)
  BY RehashTable, StateFacts DEF TableInv
<1>2. NumBuckets' = m
  BY <1>1, TableSize, NextStateFacts
<1>3. Contents' = Contents
  BY <1>1, StateFacts, NextStateFacts
<1>4. TableInv'
  BY <1>1, <1>2 DEF TableInv
<1> QED BY <1>3, <1>4

\* Moving the buckets away leaves nothing, and a count of what was lost.
LEMMA MoveStep ==
  ASSUME TableInv, MoveFrom
  PROVE  TableInv' /\ Contents' = {} /\ count' - lost' = 0
<1>1. buckets' = EmptyBuckets(0) /\ promised' = 0 /\ lost' = count /\ count' = count
  BY DEF MoveFrom
<1>2. IsTable(buckets', 0) /\ InPlace(buckets', 0) /\ ContentsIn(buckets') = {}
  BY <1>1, EmptyTable
<1>3. NumBuckets' = 0
  BY <1>2, TableSize, NextStateFacts
<1>4. TableInv'
  BY <1>1, <1>2, <1>3 DEF TableInv
<1>5. count' - lost' = 0
  BY <1>1 DEF TableInv
<1> QED BY <1>2, <1>4, <1>5, NextStateFacts

\* What does not change the table keeps the invariant of the table.
LEMMA StutterStep ==
  ASSUME TableInv, UNCHANGED table_vars
  PROVE  TableInv' /\ UNCHANGED <<Contents, count, lost>>
  BY DEF table_vars, TableInv, Contents, NumBuckets

\* The loop's element is in the table until the body erases it.
LEMMA LoopInPlace ==
  ASSUME TableInv, LoopInv, cursor # NoCursor
  PROVE  /\ cursor.a \in DOMAIN buckets
         /\ cursor.a \in 0 .. NumBuckets - 1
         /\ cursor.b \in Nat
         /\ cursor.b <= Len(buckets[cursor.a])
         /\ ~cursor.erased => cursor.b \in Indices(buckets[cursor.a])
         /\ Len(buckets[cursor.a]) \in Nat
<1>1. cursor.a \in 0 .. NumBuckets - 1 /\ cursor.b \in Nat
  BY DEF LoopInv, LoopAt
<1>2. DOMAIN buckets = 0 .. NumBuckets - 1 /\ buckets[cursor.a] \in Seq(Entries)
  BY <1>1 DEF TableInv, IsTable
<1>3. Len(buckets[cursor.a]) \in Nat
  BY <1>2, LenProperties
<1>4. /\ cursor.b <= Len(buckets[cursor.a])
      /\ ~cursor.erased => cursor.b < Len(buckets[cursor.a])
  BY DEF LoopInv, LoopAt
<1> QED BY <1>1, <1>2, <1>3, <1>4 DEF Indices

\* Every step keeps the invariant of the table, and is one of the multiset.
LEMMA TableStep ==
  ASSUME IInv, [Next]_vars
  PROVE  TableInv' /\ [Abstract!Next]_<<Contents, count - lost>>
<1> USE DEF IInv
<1>1. ASSUME NEW e \in Entries, ClientEmplace(e)
      PROVE  TableInv' /\ Abstract!Emplace(e)
  <2>1. TableInv' /\ Contents' = Contents \cup {e} /\ count' = count + 1
    BY <1>1, EmplaceStep
  <2>2. e \notin Contents /\ lost' = lost
    BY <1>1 DEF ClientEmplace
  <2>3. count' - lost' = count - lost + 1
    BY <2>1, <2>2 DEF TableInv
  <2> QED BY <2>1, <2>2, <2>3 DEF Abstract!Emplace
<1>2. ASSUME NEW a \in DOMAIN buckets, NEW b \in Indices(buckets[a]), Erase(a, b),
             UNCHANGED <<promised, lost>>
      PROVE  TableInv' /\ \E e \in Entries : Abstract!Erase(e)
  <2> DEFINE e == EntryIn(buckets, <<a, b>>)
  <2>1. /\ TableInv' /\ e \in Contents /\ Contents' = Contents \ {e}
        /\ count' = count - 1
    BY <1>2, EraseStep
  <2>2. e \in Entries
    <3>1. \E p \in PositionsIn(buckets) : EntryIn(buckets, p) = e
      BY <2>1, StateFacts, ContentsFacts DEF TableInv
    <3> QED BY <3>1, PositionFacts DEF TableInv
  <2> HIDE DEF e
  <2>3. count' - lost' = count - lost - 1
    BY <1>2, <2>1 DEF TableInv
  <2> QED BY <2>1, <2>2, <2>3 DEF Abstract!Erase
<1>3. ASSUME NEW n \in 0 .. MaxBuckets, Rehash(n)
      PROVE  TableInv' /\ UNCHANGED <<Contents, count, lost>>
  <2>1. n \in Nat /\ promised' = 0 /\ buckets' = Rehashed(n)
    BY <1>3, BucketsAssumption DEF Rehash
  <2>2. (n = 0 => Contents = {}) /\ UNCHANGED <<count, lost>>
    BY <1>3 DEF Rehash
  <2> QED BY <2>1, <2>2, RehashStep
<1>4. ASSUME NEW n \in 0 .. MaxBuckets - 1, Reserve(n)
      PROVE  TableInv' /\ UNCHANGED <<Contents, count, lost>>
  <2>1. n \in Nat /\ n + 1 \in Nat /\ n + 1 # 0 /\ n < n + 1
    BY BucketsAssumption
  <2>2. promised' = n /\ buckets' = Rehashed(n + 1) /\ UNCHANGED <<count, lost>>
    BY <1>4 DEF Reserve, WantBuckets
  <2> QED BY <2>1, <2>2, RehashStep
<1>5. ASSUME MoveFrom PROVE TableInv' /\ Abstract!Clear
  BY <1>5, MoveStep DEF Abstract!Clear
<1>6. ASSUME NEW e \in Entries, ClientEmplace(e) \/ EmplaceIfNotFound(e)
      PROVE  ClientEmplace(e)
  BY <1>6 DEF EmplaceIfNotFound
<1>7. ASSUME NEW a \in DOMAIN buckets, NEW b \in Indices(buckets[a]), ClientErase(a, b)
      PROVE  Erase(a, b) /\ UNCHANGED <<promised, lost>>
  BY <1>7 DEF ClientErase
<1>8. CASE LoopBegin \/ LoopStep \/ UNCHANGED vars
  <2>1. UNCHANGED table_vars
    BY <1>8 DEF LoopBegin, LoopStep, vars, table_vars
  <2> QED BY <2>1, StutterStep
<1>9. CASE EraseCurrent
  <2>1. cursor.a \in DOMAIN buckets /\ cursor.b \in Indices(buckets[cursor.a])
    BY <1>9, LoopInPlace DEF EraseCurrent
  <2>2. Erase(cursor.a, cursor.b) /\ UNCHANGED <<promised, lost>>
    BY <1>9 DEF EraseCurrent
  <2> QED BY <1>2, <2>1, <2>2 DEF Abstract!Next
<1>10. CASE \E e \in Entries : ClientEmplace(e) \/ EmplaceIfNotFound(e)
  BY <1>1, <1>6, <1>10 DEF Abstract!Next
<1>11. CASE \E a \in DOMAIN buckets : \E b \in Indices(buckets[a]) : ClientErase(a, b)
  BY <1>2, <1>7, <1>11 DEF Abstract!Next
<1>12. CASE \E n \in 0 .. MaxBuckets : Rehash(n)
  BY <1>3, <1>12
<1>13. CASE \E n \in 0 .. MaxBuckets - 1 : Reserve(n)
  BY <1>4, <1>13
<1>14. CASE MoveFrom
  BY <1>5, <1>14 DEF Abstract!Next
<1> QED BY <1>8, <1>9, <1>10, <1>11, <1>12, <1>13, <1>14 DEF Next

----------------------------------------------------------------------------
(* The loop *)

\* What is ahead, by its positions.
LEMMA AheadFacts ==
  ASSUME NEW B, NEW a, NEW b
  PROVE  \A x : x \in AheadIn(B, a, b) <=>
               \E p \in PositionsIn(B) : IsAhead(p, a, b) /\ EntryIn(B, p) = x
  BY DEF AheadIn

StepsTo(a, b, i, j) ==
  /\ Step(a, b) = [a |-> i, b |-> j, erased |-> FALSE]
  /\ Step(a, b) # NoCursor
  /\ j < Len(buckets[i])
  /\ <<i, j>> \in PositionsIn(buckets)
  /\ \A p \in PositionsIn(buckets) : IsAhead(p, a, b) <=> IsAhead(p, i, j) \/ p = <<i, j>>

\* _increment() goes to the last position that is ahead, and to the end only if
\* none is.
LEMMA StepFacts ==
  ASSUME NEW n, IsTable(buckets, n), NEW a \in 0 .. n, NEW b \in Nat,
         a = n => b = 0, a < n => b <= Len(buckets[a])
  PROVE  \/ /\ Step(a, b) = NoCursor
            /\ \A p \in PositionsIn(buckets) : ~IsAhead(p, a, b)
         \/ \E i \in 0 .. n - 1, j \in Nat : StepsTo(a, b, i, j)
<1>0. n \in Nat /\ DOMAIN buckets = 0 .. n - 1
  BY DEF IsTable
<1>1. \A i \in 0 .. n - 1 : /\ Len(buckets[i]) \in Nat
                            /\ buckets[i] # <<>> <=> Len(buckets[i]) > 0
  <2> TAKE i \in 0 .. n - 1
  <2>1. buckets[i] \in Seq(Entries)
    BY DEF IsTable
  <2> QED BY <2>1, LenProperties, EmptySeq
<1>2. \A p : p \in PositionsIn(buckets) <=>
              p \in Places /\ p[1] \in 0 .. n - 1 /\ p[2] < Len(buckets[p[1]])
  BY PositionFacts
<1>3. ASSUME NEW i \in 0 .. n - 1, NEW j \in Nat, j < Len(buckets[i])
      PROVE  /\ <<i, j>> \in PositionsIn(buckets)
             /\ [a |-> i, b |-> j, erased |-> FALSE] # NoCursor
             /\ \A p \in PositionsIn(buckets) : p = <<i, j>> <=> p[1] = i /\ p[2] = j
  <2> DEFINE q == <<i, j>>
  <2>1. q \in Places /\ q[1] = i /\ q[2] = j
    BY <1>0 DEF Places
  <2>2. [a |-> i, b |-> j, erased |-> FALSE].a # NoCursor.a
    BY <1>0 DEF NoCursor
  <2> HIDE DEF q
  <2>3. q \in PositionsIn(buckets)
    BY <1>2, <1>3, <2>1
  <2>4. \A p \in PositionsIn(buckets) : p = q <=> p[1] = i /\ p[2] = j
    BY <1>2, <2>1, PlaceEqual
  <2> QED BY <2>2, <2>3, <2>4 DEF q
<1>4. CASE b > 0
  <2> DEFINE j == b - 1
  <2>1. a \in 0 .. n - 1 /\ j \in Nat /\ j < Len(buckets[a])
    BY <1>0, <1>1, <1>4
  <2>2. Step(a, b) = [a |-> a, b |-> j, erased |-> FALSE]
    BY <1>4 DEF Step
  <2>3. ASSUME NEW p \in PositionsIn(buckets)
        PROVE  IsAhead(p, a, b) <=> IsAhead(p, a, j) \/ p = <<a, j>>
    <3>1. p[1] \in Nat /\ p[2] \in Nat
      BY <1>2, PlaceEqual
    <3>2. p[2] < b <=> p[2] < j \/ p[2] = j
      BY <3>1
    <3> HIDE DEF j
    <3>3. p = <<a, j>> <=> p[1] = a /\ p[2] = j
      BY <1>3, <2>1
    <3> QED BY <3>2, <3>3 DEF IsAhead
  <2> HIDE DEF j
  <2>4. StepsTo(a, b, a, j)
    BY <1>3, <2>1, <2>2, <2>3 DEF StepsTo
  <2> QED BY <2>1, <2>4
<1>5. CASE b = 0
  <2> DEFINE Lower == {i \in DOMAIN buckets : i < a /\ buckets[i] # <<>>}
  <2>1. CASE Lower = {}
    <3>1. Step(a, b) = NoCursor
      BY <1>5, <2>1 DEF Step
    <3>2. ASSUME NEW p \in PositionsIn(buckets), IsAhead(p, a, b) PROVE FALSE
      <4>1. p[1] \in 0 .. n - 1 /\ p[2] \in Nat /\ p[2] < Len(buckets[p[1]])
        BY <1>2, PlaceEqual
      <4>2. p[1] < a
        BY <1>5, <3>2, <4>1 DEF IsAhead
      <4>3. p[1] \in Lower
        BY <1>0, <1>1, <4>1, <4>2
      <4> QED BY <2>1, <4>3
    <3> QED BY <3>1, <3>2
  <2>2. CASE Lower # {}
    <3> DEFINE l == CHOOSE i \in Lower : \A j \in Lower : j <= i
               j == Len(buckets[l]) - 1
    <3>1. Lower \in SUBSET (0 .. n)
      BY <1>0
    <3>2. l \in Lower /\ \A i \in Lower : i <= l
      <4> HIDE DEF Lower
      <4> QED BY <1>0, <2>2, <3>1, GreatestExists
    <3>3. Step(a, b) = [a |-> l, b |-> j, erased |-> FALSE]
      BY <1>5, <2>2 DEF Step
    <3> HIDE DEF l
    <3>4. l \in 0 .. n - 1 /\ l < a /\ j \in Nat /\ j < Len(buckets[l])
      BY <1>0, <1>1, <3>2
    <3>5. ASSUME NEW p \in PositionsIn(buckets)
          PROVE  IsAhead(p, a, b) <=> IsAhead(p, l, j) \/ p = <<l, j>>
      <4>1. p[1] \in 0 .. n - 1 /\ p[2] \in Nat /\ p[2] < Len(buckets[p[1]])
        BY <1>2, PlaceEqual
      <4>2. IsAhead(p, a, b) <=> p[1] < a
        BY <1>5, <4>1 DEF IsAhead
      <4>3. p[1] < a => p[1] <= l
        <5>1. p[1] < a => p[1] \in Lower
          BY <1>0, <1>1, <4>1
        <5> QED BY <3>2, <5>1
      <4>4. p[1] = l => p[2] < j \/ p[2] = j
        BY <1>1, <3>4, <4>1
      <4>5. p[1] < a <=> p[1] < l \/ p[1] = l
        BY <1>0, <3>4, <4>1, <4>3
      <4> HIDE DEF j
      <4>6. p = <<l, j>> <=> p[1] = l /\ p[2] = j
        <5>1. p \in Places
          BY <1>2
        <5>2. p = <<p[1], p[2]>>
          BY <5>1 DEF Places
        <5> QED BY <5>2
      <4> QED BY <4>2, <4>4, <4>5, <4>6 DEF IsAhead
    <3> HIDE DEF j
    <3>6. StepsTo(a, b, l, j)
      BY <1>3, <3>3, <3>4, <3>5 DEF StepsTo
    <3> QED BY <3>4, <3>6
  <2> QED BY <2>1, <2>2
<1> QED BY <1>4, <1>5

\* Going on from a position where nothing that is ahead has been visited.
LEMMA StepKeepsLoop ==
  ASSUME TableInv, NEW a \in 0 .. NumBuckets, NEW b \in Nat,
         a = NumBuckets => b = 0, a < NumBuckets => b <= Len(buckets[a]),
         UNCHANGED table_vars, cursor' = Step(a, b), cursor' # NoCursor,
         NEW seen, NEW stay,
         seen \subseteq Contents,
         stay \ seen \subseteq AheadIn(buckets, a, b),
         AheadIn(buckets, a, b) \cap seen = {},
         visited' = seen \cup Visit(cursor'), kept' = stay
  PROVE  LoopInv'
<1> DEFINE n == NumBuckets
<1>1. IsTable(buckets, n) /\ InPlace(buckets, n) /\ n \in Nat
  BY DEF TableInv, IsTable
<1>2. PICK i \in 0 .. n - 1, j \in Nat : StepsTo(a, b, i, j)
  BY <1>1, StepFacts
<1> DEFINE x == EntryIn(buckets, <<i, j>>)
<1>3. /\ cursor' = [a |-> i, b |-> j, erased |-> FALSE]
      /\ j < Len(buckets[i])
      /\ <<i, j>> \in PositionsIn(buckets)
  BY <1>2 DEF StepsTo
<1>4. /\ cursor'.a = i /\ cursor'.b = j /\ cursor'.erased = FALSE
      /\ cursor' \in [a : 0 .. n - 1, b : Nat, erased : BOOLEAN]
  BY <1>3
<1>5. Visit(cursor') = {x}
  BY <1>4 DEF Visit, EntryIn
<1>6. x \in Contents
  BY <1>1, <1>3, StateFacts, PositionFacts
<1>7. buckets' = buckets /\ n' = n /\ Contents' = Contents
  BY DEF table_vars, NumBuckets, Contents
<1>8. \A y : y \in AheadIn(buckets, a, b) <=> y = x \/ y \in AheadIn(buckets, i, j)
  <2>1. \A p \in PositionsIn(buckets) : IsAhead(p, a, b) <=> IsAhead(p, i, j) \/ p = <<i, j>>
    BY <1>2 DEF StepsTo
  <2>2. \A y : y \in AheadIn(buckets, a, b) <=>
               \E p \in PositionsIn(buckets) : IsAhead(p, a, b) /\ EntryIn(buckets, p) = y
    BY AheadFacts
  <2>3. \A y : y \in AheadIn(buckets, i, j) <=>
               \E p \in PositionsIn(buckets) : IsAhead(p, i, j) /\ EntryIn(buckets, p) = y
    BY AheadFacts
  <2> QED BY <1>3, <2>1, <2>2, <2>3
<1>9. x \notin AheadIn(buckets, i, j)
  <2> SUFFICES ASSUME NEW p \in PositionsIn(buckets), IsAhead(p, i, j), EntryIn(buckets, p) = x
               PROVE  FALSE
    BY AheadFacts
  <2>1. p = <<i, j>>
    BY <1>1, <1>3 DEF InPlace
  <2> QED BY <1>1, <2>1 DEF IsAhead
<1> HIDE DEF x, n
<1>10. /\ visited' \subseteq Contents
       /\ kept' \ visited' \subseteq AheadIn(buckets, i, j)
       /\ AheadIn(buckets, i, j) \cap visited' = {}
  BY <1>5, <1>6, <1>8, <1>9
<1>11. /\ cursor' \in [a : 0 .. n' - 1, b : Nat, erased : BOOLEAN]
       /\ cursor'.b <= Len(buckets'[cursor'.a])
       /\ ~cursor'.erased => cursor'.b < Len(buckets'[cursor'.a])
  <2>1. Len(buckets[i]) \in Nat
    BY <1>1, LenProperties DEF IsTable
  <2> QED BY <1>3, <1>4, <1>7, <2>1
<1>12. /\ visited' \subseteq Contents'
       /\ kept' \ visited' \subseteq AheadIn(buckets', cursor'.a, cursor'.b)
       /\ AheadIn(buckets', cursor'.a, cursor'.b) \cap visited' = {}
  BY <1>4, <1>7, <1>10
<1> QED BY <1>11, <1>12 DEF LoopInv, LoopAt, n

\* begin()
LEMMA BeginStep ==
  ASSUME IInv, LoopBegin PROVE LoopInv'
<1> SUFFICES ASSUME cursor' # NoCursor PROVE LoopInv'
  BY DEF LoopInv
<1> DEFINE n == NumBuckets
<1>1. IsTable(buckets, n) /\ n \in Nat
  BY DEF IInv, TableInv, IsTable
<1>2. Contents \subseteq AheadIn(buckets, n, 0)
  <2> SUFFICES ASSUME NEW e \in Contents PROVE e \in AheadIn(buckets, n, 0)
    OBVIOUS
  <2>1. PICK p \in PositionsIn(buckets) : EntryIn(buckets, p) = e
    BY <1>1, StateFacts, ContentsFacts
  <2>2. IsAhead(p, n, 0)
    BY <1>1, PositionFacts DEF IsAhead
  <2> QED BY <2>1, <2>2, AheadFacts
<1>3. /\ cursor' = Step(n, 0) /\ visited' = {} \cup Visit(cursor') /\ kept' = Contents
      /\ UNCHANGED table_vars
  BY DEF LoopBegin
<1>4. Contents \ {} \subseteq AheadIn(buckets, n, 0) /\ {} \subseteq Contents
      /\ AheadIn(buckets, n, 0) \cap {} = {}
  BY <1>2
<1>5. n \in 0 .. n /\ 0 \in Nat /\ ~(n < n)
  BY <1>1
<1>6. TableInv
  BY DEF IInv
<1> HIDE DEF IInv
<1> QED BY <1>3, <1>4, <1>5, <1>6, StepKeepsLoop

\* operator++
LEMMA NextStep ==
  ASSUME IInv, LoopStep PROVE LoopInv'
<1> SUFFICES ASSUME cursor' # NoCursor PROVE LoopInv'
  BY DEF LoopInv
<1>1. /\ cursor' = Step(cursor.a, cursor.b)
      /\ visited' = visited \cup Visit(cursor') /\ kept' = kept
      /\ UNCHANGED table_vars
      /\ cursor # NoCursor
  BY DEF LoopStep
<1>2. /\ cursor.a \in 0 .. NumBuckets - 1 /\ cursor.b \in Nat
      /\ cursor.b <= Len(buckets[cursor.a])
  BY <1>1, LoopInPlace DEF IInv
<1>3. cursor.a \in 0 .. NumBuckets /\ cursor.a # NumBuckets
  BY <1>2 DEF IInv, TableInv, IsTable
<1>4. /\ visited \subseteq Contents
      /\ kept \ visited \subseteq AheadIn(buckets, cursor.a, cursor.b)
      /\ AheadIn(buckets, cursor.a, cursor.b) \cap visited = {}
  BY <1>1 DEF IInv, LoopInv, LoopAt
<1> QED BY <1>1, <1>2, <1>3, <1>4, StepKeepsLoop DEF IInv

\* What the loop's body adds is not visited, wherever it goes.
LEMMA EmplaceLoopStep ==
  ASSUME IInv, NEW e \in Entries, ClientEmplace(e) PROVE LoopInv'
<1>1. cursor' = cursor /\ visited' = visited /\ kept' = kept /\ e \notin Contents
  BY DEF ClientEmplace, loop_vars
<1> SUFFICES ASSUME cursor # NoCursor PROVE LoopInv'
  BY <1>1 DEF LoopInv
<1> DEFINE n == NumBuckets
           x == BucketOf(KeyOf[e], n)
           new == <<x, Len(buckets[x])>>
           a == cursor.a
           b == cursor.b
<1>2. IsTable(buckets, n) /\ n \in Nat
  BY DEF IInv, TableInv, IsTable
<1>3. /\ cursor \in [a : 0 .. n - 1, b : Nat, erased : BOOLEAN]
      /\ a \in 0 .. n - 1 /\ b \in Nat
      /\ b <= Len(buckets[a])
      /\ ~cursor.erased => b < Len(buckets[a])
      /\ visited \subseteq Contents
      /\ kept \ visited \subseteq AheadIn(buckets, a, b)
      /\ AheadIn(buckets, a, b) \cap visited = {}
  BY DEF IInv, LoopInv, LoopAt
<1>4. buckets' = Appended(buckets, x, e)
  BY DEF ClientEmplace, Emplace, NumBuckets, Appended
<1>5. x \in 0 .. n - 1
  BY <1>2, <1>3, BucketExists
<1>6. TableInv' /\ Contents' = Contents \cup {e}
  BY EmplaceStep DEF IInv
<1> HIDE DEF x, n
<1>7. Len(buckets'[a]) >= Len(buckets[a]) /\ Len(buckets[a]) \in Nat /\ Len(buckets'[a]) \in Nat
  <2>1. buckets[a] \in Seq(Entries) /\ Len(buckets[a]) \in Nat
    BY <1>2, <1>3, LenProperties DEF IsTable
  <2>2. CASE a = x
    <3>1. buckets'[a] = Append(buckets[a], e)
      BY <1>2, <1>3, <1>4, <2>2 DEF Appended, IsTable
    <3>2. Len(Append(buckets[a], e)) = Len(buckets[a]) + 1
      BY <2>1, AppendProperties
    <3> QED BY <2>1, <3>1, <3>2
  <2>3. CASE a # x
    <3>1. buckets'[a] = buckets[a]
      BY <1>2, <1>3, <1>4, <2>3 DEF Appended, IsTable
    <3> QED BY <2>1, <3>1
  <2> QED BY <2>2, <2>3
<1>8. n' = n
  <2>1. IsTable(buckets', n)
    BY <1>2, <1>4, <1>5, AppendPositions
  <2> QED BY <2>1, TableSize, NextStateFacts DEF n
<1>9. \A p : p \in PositionsIn(buckets') <=> p \in PositionsIn(buckets) \/ p = new
  BY <1>2, <1>4, <1>5, AppendPositions
<1>10. EntryIn(buckets', new) = e
  BY <1>2, <1>4, <1>5, AppendPositions
<1>11. \A p \in PositionsIn(buckets) : EntryIn(buckets', p) = EntryIn(buckets, p)
  BY <1>2, <1>4, <1>5, AppendKeeps
<1> HIDE DEF new, a, b
<1>12. \A y \in AheadIn(buckets, a, b) : y \in AheadIn(buckets', a, b)
  <2> TAKE y \in AheadIn(buckets, a, b)
  <2>1. PICK p \in PositionsIn(buckets) : IsAhead(p, a, b) /\ EntryIn(buckets, p) = y
    BY AheadFacts
  <2>2. p \in PositionsIn(buckets') /\ EntryIn(buckets', p) = y
    BY <1>9, <1>11, <2>1
  <2> QED BY <2>1, <2>2, AheadFacts
<1>13. \A y \in AheadIn(buckets', a, b) : y = e \/ y \in AheadIn(buckets, a, b)
  <2> TAKE y \in AheadIn(buckets', a, b)
  <2>1. PICK p \in PositionsIn(buckets') : IsAhead(p, a, b) /\ EntryIn(buckets', p) = y
    BY AheadFacts
  <2>2. CASE p = new
    BY <1>10, <2>1, <2>2
  <2>3. CASE p \in PositionsIn(buckets)
    BY <1>11, <2>1, <2>3, AheadFacts
  <2> QED BY <1>9, <2>1, <2>2, <2>3
<1>14. /\ visited \subseteq Contents'
       /\ kept \ visited \subseteq AheadIn(buckets', a, b)
       /\ AheadIn(buckets', a, b) \cap visited = {}
  BY <1>1, <1>3, <1>6, <1>12, <1>13
<1>15. /\ b <= Len(buckets'[a])
       /\ ~cursor.erased => b < Len(buckets'[a])
  BY <1>3, <1>7
<1> QED BY <1>1, <1>3, <1>8, <1>14, <1>15 DEF LoopInv, LoopAt, a, b, n

\* Erasing the loop's element moves nothing that is ahead.
LEMMA EraseLoopStep ==
  ASSUME IInv, EraseCurrent PROVE LoopInv'
<1> DEFINE n == NumBuckets
           a == cursor.a
           b == cursor.b
           x == EntryIn(buckets, <<a, b>>)
<1>1. /\ cursor # NoCursor /\ ~cursor.erased
      /\ Erase(a, b)
      /\ cursor' = [cursor EXCEPT !.erased = TRUE]
      /\ visited' = visited \ {x} /\ kept' = kept \ {x}
      /\ UNCHANGED <<promised, lost>>
  BY DEF EraseCurrent, Current, EntryIn
<1>2. IsTable(buckets, n) /\ InPlace(buckets, n) /\ n \in Nat
  BY DEF IInv, TableInv, IsTable
<1>3. /\ a \in DOMAIN buckets /\ a \in 0 .. n - 1 /\ b \in Nat
      /\ b \in Indices(buckets[a])
      /\ Len(buckets[a]) \in Nat
  BY <1>1, LoopInPlace DEF IInv
<1>4. /\ cursor \in [a : 0 .. n - 1, b : Nat, erased : BOOLEAN]
      /\ visited \subseteq Contents
      /\ kept \ visited \subseteq AheadIn(buckets, a, b)
      /\ AheadIn(buckets, a, b) \cap visited = {}
  BY <1>1 DEF IInv, LoopInv, LoopAt
<1>5. /\ cursor' \in [a : 0 .. n - 1, b : Nat, erased : BOOLEAN]
      /\ cursor'.a = a /\ cursor'.b = b /\ cursor'.erased = TRUE
  BY <1>1, <1>4
<1>6. buckets' = Erased(buckets, a, b)
  BY <1>1 DEF Erase, Erased
<1>7. Contents' = Contents \ {x} /\ n' = n
  BY <1>1, <1>3, EraseStep DEF IInv
<1>8. b < Len(buckets[a])
  BY <1>3 DEF Indices
<1> HIDE DEF a, b, n, x
<1>9. Len(buckets'[a]) = Len(buckets[a]) - 1
  BY <1>2, <1>3, <1>6, ErasePositions
<1>10. \A p : p \in PositionsIn(buckets') <=>
              p \in PositionsIn(buckets) /\ p # <<a, Len(buckets[a]) - 1>>
  <2>1. \A p : p \in PositionsIn(Erased(buckets, a, b)) <=>
               p \in PositionsIn(buckets) /\ p # <<a, Len(buckets[a]) - 1>>
    BY <1>2, <1>3, ErasePositions
  <2> QED BY <1>6, <2>1
<1>11. \A p \in PositionsIn(buckets') : p # <<a, b>> => EntryIn(buckets', p) = EntryIn(buckets, p)
  <2>1. \A p \in PositionsIn(Erased(buckets, a, b)) :
          EntryIn(Erased(buckets, a, b), p) = EntryIn(buckets, MovedBack(buckets, a, b, p))
    BY <1>2, <1>3, EraseKeeps
  <2>2. \A p : p # <<a, b>> => MovedBack(buckets, a, b, p) = p
    BY DEF MovedBack
  <2> QED BY <1>6, <2>1, <2>2
<1>12. ASSUME NEW p \in PositionsIn(buckets), IsAhead(p, a, b)
       PROVE  /\ p # <<a, b>> /\ p \in PositionsIn(buckets')
              /\ EntryIn(buckets', p) = EntryIn(buckets, p)
  <2>1. p[1] \in Nat /\ p[2] \in Nat
    BY <1>2, PositionFacts, PlaceEqual
  <2>2. p # <<a, b>> /\ p # <<a, Len(buckets[a]) - 1>>
    BY <1>3, <1>8, <1>12, <2>1 DEF IsAhead
  <2> QED BY <1>10, <1>11, <2>2
<1>13. \A y \in AheadIn(buckets, a, b) : y \in AheadIn(buckets', a, b)
  <2> TAKE y \in AheadIn(buckets, a, b)
  <2>1. PICK p \in PositionsIn(buckets) : IsAhead(p, a, b) /\ EntryIn(buckets, p) = y
    BY AheadFacts
  <2> QED BY <1>12, <2>1, AheadFacts
<1>14. \A y \in AheadIn(buckets', a, b) : y \in AheadIn(buckets, a, b)
  <2> TAKE y \in AheadIn(buckets', a, b)
  <2>1. PICK p \in PositionsIn(buckets') : IsAhead(p, a, b) /\ EntryIn(buckets', p) = y
    BY AheadFacts
  <2>2. p \in PositionsIn(buckets)
    BY <1>10, <2>1
  <2>3. EntryIn(buckets, p) = y
    BY <1>12, <2>1, <2>2
  <2> QED BY <2>1, <2>2, <2>3, AheadFacts
<1>15. x \notin AheadIn(buckets, a, b)
  <2> SUFFICES ASSUME NEW p \in PositionsIn(buckets), IsAhead(p, a, b), EntryIn(buckets, p) = x
               PROVE  FALSE
    BY AheadFacts
  <2>1. p # <<a, b>>
    BY <1>12
  <2>2. <<a, b>> \in PositionsIn(buckets)
    BY <1>2, <1>3, ErasePositions
  <2> QED BY <1>2, <2>1, <2>2 DEF InPlace, x
<1>16. /\ visited' \subseteq Contents'
       /\ kept' \ visited' \subseteq AheadIn(buckets', a, b)
       /\ AheadIn(buckets', a, b) \cap visited' = {}
  BY <1>1, <1>4, <1>7, <1>13, <1>14, <1>15
<1>17. b <= Len(buckets'[a])
  BY <1>3, <1>8, <1>9
<1> QED BY <1>5, <1>7, <1>16, <1>17 DEF LoopInv, LoopAt, n

\* Every step keeps the invariant of the loop.
LEMMA LoopInvStep ==
  ASSUME IInv, [Next]_vars
  PROVE  LoopInv'
<1>1. ASSUME cursor = NoCursor, UNCHANGED loop_vars PROVE LoopInv'
  BY <1>1 DEF LoopInv, loop_vars
<1>2. CASE \E e \in Entries : ClientEmplace(e) \/ EmplaceIfNotFound(e)
  BY <1>2, EmplaceLoopStep DEF EmplaceIfNotFound
<1>3. CASE \E a \in DOMAIN buckets : \E b \in Indices(buckets[a]) : ClientErase(a, b)
  BY <1>1, <1>3 DEF ClientErase
<1>4. CASE \E n \in 0 .. MaxBuckets : Rehash(n)
  BY <1>1, <1>4 DEF Rehash
<1>5. CASE \E n \in 0 .. MaxBuckets - 1 : Reserve(n)
  BY <1>1, <1>5 DEF Reserve
<1>6. CASE MoveFrom
  BY <1>1, <1>6 DEF MoveFrom
<1>7. CASE LoopBegin
  BY <1>7, BeginStep
<1>8. CASE LoopStep
  BY <1>8, NextStep
<1>9. CASE EraseCurrent
  BY <1>9, EraseLoopStep
<1>10. CASE UNCHANGED vars
  BY <1>10 DEF vars, LoopInv, LoopAt, IInv, NumBuckets, Contents
<1> QED BY <1>2, <1>3, <1>4, <1>5, <1>6, <1>7, <1>8, <1>9, <1>10 DEF Next

----------------------------------------------------------------------------
(* The theorems *)

\* An empty table satisfies the invariant.
LEMMA InitInv == Init => IInv /\ Abstract!Init
<1> SUFFICES ASSUME Init PROVE IInv /\ Abstract!Init
  OBVIOUS
<1>1. PICK n \in 0 .. MaxBuckets : buckets = EmptyBuckets(n)
  BY DEF Init
<1>2. n \in Nat
  BY BucketsAssumption
<1>3. IsTable(buckets, n) /\ InPlace(buckets, n) /\ ContentsIn(buckets) = {}
  BY <1>1, <1>2, EmptyTable
<1>4. NumBuckets = n /\ Contents = {}
  BY <1>3, TableSize, StateFacts
<1>5. TableInv /\ LoopInv
  BY <1>3, <1>4 DEF Init, TableInv, LoopInv
<1> QED BY <1>4, <1>5 DEF IInv, Init, Abstract!Init

\* The table is well-formed and a loop over it is where it should be.
THEOREM Invariance == Spec => []IInv
<1>1. Init => IInv
  BY InitInv
<1>2. IInv /\ [Next]_vars => IInv'
  BY TableStep, LoopInvStep DEF IInv
<1> QED BY <1>1, <1>2, PTL DEF Spec

\* Rehashing and swap-erasing leave each element in the table once, in the bucket of
\* its key.
THEOREM ElementsInPlace == Spec => []EachInItsBucket
<1>1. IInv => EachInItsBucket
  BY StateFacts DEF IInv, TableInv, InPlace, EachInItsBucket
<1> QED BY <1>1, Invariance, PTL

\* After reserve(n) the table takes up to n elements without re-bucketing.
THEOREM Reserving == Spec => []ReserveHonoured
<1>1. IInv => ReserveHonoured
  <2> SUFFICES ASSUME IInv, count < promised PROVE ~NeedsRehash
    BY DEF ReserveHonoured
  <2>1. NumBuckets \in Nat /\ count \in Nat /\ promised \in Nat
    BY DEF IInv, TableInv, IsTable
  <2>2. promised < NumBuckets
    BY <2>1 DEF IInv, TableInv
  <2> QED BY <2>1, <2>2 DEF NeedsRehash, WantBuckets
<1> QED BY <1>1, Invariance, PTL

\* A loop meets each element that is in the table from its beginning on, once, while
\* its body erases and adds.
THEOREM LoopComplete == Spec => []LoopMeetsEachOnce
<1>1. IInv => LoopMeetsEachOnce
  <2> SUFFICES ASSUME IInv, cursor # NoCursor
               PROVE  /\ cursor.erased \/ <<cursor.a, cursor.b>> \in Positions
                      /\ kept \ visited \subseteq
                           (IF Step(cursor.a, cursor.b) = NoCursor THEN {} ELSE Ahead)
                      /\ Ahead \cap visited = {}
    BY DEF LoopMeetsEachOnce
  <2> DEFINE n == NumBuckets
             a == cursor.a
             b == cursor.b
  <2>1. IsTable(buckets, n) /\ n \in Nat
    BY DEF IInv, TableInv, IsTable
  <2>2. /\ a \in 0 .. n - 1 /\ b \in Nat /\ b <= Len(buckets[a]) /\ Len(buckets[a]) \in Nat
        /\ ~cursor.erased => b \in Indices(buckets[a])
    BY LoopInPlace DEF IInv
  <2>3. Ahead = AheadIn(buckets, a, b)
    BY DEF Ahead, AheadIn, IsAhead, Positions, PositionsIn, EntryAt, EntryIn
  <2>4. /\ kept \ visited \subseteq AheadIn(buckets, a, b)
        /\ AheadIn(buckets, a, b) \cap visited = {}
    BY DEF IInv, LoopInv, LoopAt
  <2>5. Step(a, b) = NoCursor => AheadIn(buckets, a, b) = {}
    <3> SUFFICES ASSUME Step(a, b) = NoCursor PROVE AheadIn(buckets, a, b) = {}
      OBVIOUS
    <3>1. a \in 0 .. n /\ a # n
      BY <2>1, <2>2
    <3>2. \A p \in PositionsIn(buckets) : ~IsAhead(p, a, b)
      BY <2>1, <2>2, <3>1, StepFacts DEF StepsTo
    <3> QED BY <3>2, AheadFacts
  <2>6. cursor.erased \/ <<a, b>> \in Positions
    <3> SUFFICES ASSUME ~cursor.erased PROVE <<a, b>> \in PositionsIn(buckets)
      BY StateFacts
    <3> QED BY <2>1, <2>2, <2>4, ErasePositions DEF IInv, TableInv
  <2> QED BY <2>3, <2>4, <2>5, <2>6
<1> QED BY <1>1, Invariance, PTL

\* The table implements a multiset that knows its size: each step adds one element,
\* removes one, or loses all; re-bucketing and looping are invisible.
THEOREM Refinement == Spec => Refines
<1>1. Init => Abstract!Init
  BY InitInv
<1>2. IInv /\ [Next]_vars => [Abstract!Next]_<<Contents, count - lost>>
  BY TableStep
<1> QED BY <1>1, <1>2, Invariance, PTL DEF Spec, Refines, Abstract!Spec
==========================================================================
