-------------------------- MODULE ArraysProofs --------------------------
(***************************************************************************)
(* Theorems about Memory_Block, for every set of values and blocks, every  *)
(* inplace buffer and all bounds; about the elements of a Dynamic_Array,   *)
(* dense or sparse; and about loops over it, over an Unordered_Array and   *)
(* over its views, for every set of elements and all sizes.                *)
(***************************************************************************)
EXTENDS UnorderedArray, FiniteSetTheorems, NaturalsInduction, WellFoundedInduction, TLAPS

----------------------------------------------------------------------------
(* One block *)

BlockOf(n) ==
  [slot : [0 .. n - 1 -> Objects \cup {Raw}], exists : [0 .. n - 1 -> BOOLEAN],
   num : Int, lost : Nat]

AnyBlock == UNION {BlockOf(n) : n \in Nat}

\* What its flags, and what its nodes say that it holds.
Flagged(k) == {i \in DOMAIN k.exists : k.exists[i]}
Holding(k) == {i \in DOMAIN k.slot : k.slot[i] # Raw}

Counted(k) == k.num = Cardinality(Flagged(k)) + k.lost

\* The nodes and the flags of a block have the same indices, 0 to n - 1.
LEMMA BlockShape ==
  ASSUME NEW k \in AnyBlock
  PROVE  \E n \in Nat :
           /\ k \in BlockOf(n)
           /\ DOMAIN k.slot = 0 .. n - 1 /\ DOMAIN k.exists = 0 .. n - 1
           /\ Cardinality(DOMAIN k.slot) = n
           /\ IsFiniteSet(Flagged(k)) /\ Cardinality(Flagged(k)) \in 0 .. n
           /\ Flagged(k) \subseteq 0 .. n - 1
<1>1. PICK n \in Nat : k \in BlockOf(n)
  BY DEF AnyBlock
<1>2. DOMAIN k.slot = 0 .. n - 1 /\ DOMAIN k.exists = 0 .. n - 1
  BY <1>1 DEF BlockOf
<1>3. IsFiniteSet(0 .. n - 1) /\ Cardinality(0 .. n - 1) = n
  BY FS_Interval
<1>4. Flagged(k) \in SUBSET (0 .. n - 1)
  BY <1>2 DEF Flagged
<1>5. /\ IsFiniteSet(Flagged(k)) /\ Cardinality(Flagged(k)) <= n
      /\ Cardinality(Flagged(k)) \in Nat
  BY <1>3, <1>4, FS_Subset, FS_CardinalityType
<1> QED BY <1>1, <1>2, <1>3, <1>4, <1>5

\* A new block holds nothing and knows it.
LEMMA NewBlockIs ==
  ASSUME NEW n \in Nat
  PROVE  /\ NewBlock(n) \in AnyBlock
         /\ Flagged(NewBlock(n)) = {} /\ Holding(NewBlock(n)) = {}
         /\ Counted(NewBlock(n))
<1>1. NewBlock(n) \in BlockOf(n)
  BY DEF NewBlock, BlockOf
<1>2. Flagged(NewBlock(n)) = {} /\ Holding(NewBlock(n)) = {}
  BY DEF NewBlock, Flagged, Holding
<1>3. Counted(NewBlock(n))
  <2>1. NewBlock(n).num = 0 /\ NewBlock(n).lost = 0
    BY DEF NewBlock
  <2> QED BY <2>1, <1>2, FS_EmptySet DEF Counted
<1> QED BY <1>1, <1>2, <1>3 DEF AnyBlock

\* Resizing counts what it cuts off among the lost, and keeps the others unless it
\* destructs some of them.
LEMMA ResizedIs ==
  ASSUME NEW k \in AnyBlock, NEW n \in Nat
  PROVE  LET r == BlockResized(k, Flagged(k), n)
         IN  /\ r \in AnyBlock
             /\ Counted(k) => Counted(r)
             /\ Victims(k.slot, Flagged(k), n) = {} /\ Flagged(k) = Holding(k)
                  => Flagged(r) = Holding(r)
<1> DEFINE K == Flagged(k)
           r == BlockResized(k, K, n)
           Cut == {i \in K : i >= n}
<1>1. PICK m \in Nat : /\ k \in BlockOf(m)
                       /\ DOMAIN k.slot = 0 .. m - 1 /\ DOMAIN k.exists = 0 .. m - 1
                       /\ IsFiniteSet(K) /\ K \subseteq 0 .. m - 1
                       /\ Cardinality(K) \in Nat
  BY BlockShape
<1>2. Cut \in SUBSET K
  OBVIOUS
<1>3. IsFiniteSet(Cut) /\ Cardinality(Cut) \in Nat
  BY <1>1, <1>2, FS_Subset, FS_CardinalityType
<1>4. r = [slot |-> Resized(k.slot, K, n), exists |-> FlagsResized(k.exists, n),
           num |-> k.num, lost |-> k.lost + Cardinality(Cut)]
  BY DEF BlockResized
<1> HIDE DEF r
<1>5. Resized(k.slot, K, n) \in [0 .. n - 1 -> Objects \cup {Raw}]
  BY <1>1 DEF Resized, BlockOf
<1>6. FlagsResized(k.exists, n) \in [0 .. n - 1 -> BOOLEAN]
  BY <1>1 DEF FlagsResized, BlockOf
<1>7. r \in BlockOf(n)
  <2>1. k.num \in Int /\ k.lost + Cardinality(Cut) \in Nat
    BY <1>1, <1>3 DEF BlockOf
  <2> QED BY <2>1, <1>4, <1>5, <1>6 DEF BlockOf
<1>8. Flagged(r) = K \ Cut
  <2>1. r.exists = [i \in 0 .. n - 1 |-> i \in DOMAIN k.exists /\ k.exists[i]]
    BY <1>4 DEF FlagsResized
  <2>2. \A i : i \in Flagged(r) <=> i \in 0 .. n - 1 /\ i \in K
    BY <2>1 DEF Flagged
  <2> QED BY <2>2, <1>1
<1>9. Cardinality(Flagged(r)) = Cardinality(K) - Cardinality(Cut)
  <2>1. K \cap Cut = Cut
    OBVIOUS
  <2> QED BY <2>1, <1>1, <1>8, FS_Difference
<1>10. ASSUME Counted(k) PROVE Counted(r)
  <2>1. r.num = k.num /\ r.lost = k.lost + Cardinality(Cut)
    BY <1>4
  <2>2. k.lost \in Int
    BY <1>1 DEF BlockOf
  <2> QED BY <1>10, <2>1, <2>2, <1>1, <1>3, <1>9 DEF Counted
<1>11. ASSUME Victims(k.slot, K, n) = {}, K = Holding(k) PROVE Flagged(r) = Holding(r)
  <2>1. r.slot = [i \in 0 .. n - 1 |-> IF i \in DOMAIN k.slot THEN k.slot[i] ELSE Raw]
    BY <1>4, <1>11 DEF Resized
  <2>2. \A i : i \in Holding(r) <=> i \in 0 .. n - 1 /\ i \in Holding(k)
    BY <2>1 DEF Holding
  <2>3. Holding(r) = K \ Cut
    BY <2>2, <1>1, <1>11
  <2> QED BY <2>3, <1>8
<1>12. r \in AnyBlock
  BY <1>7 DEF AnyBlock
<1> QED BY <1>10, <1>11, <1>12 DEF r

\* An element is constructed at an index that holds none, and counted.
LEMMA ConstructIs ==
  ASSUME NEW k \in AnyBlock, NEW i \in DOMAIN k.slot, NEW o \in Objects, i \notin Flagged(k)
  PROVE  LET r == [k EXCEPT !.slot[i] = o, !.exists[i] = TRUE, !.num = @ + 1]
         IN  /\ r \in AnyBlock
             /\ Counted(k) => Counted(r)
             /\ Flagged(k) = Holding(k) => Flagged(r) = Holding(r)
<1> DEFINE r == [k EXCEPT !.slot[i] = o, !.exists[i] = TRUE, !.num = @ + 1]
<1>1. PICK n \in Nat : /\ k \in BlockOf(n)
                       /\ DOMAIN k.slot = 0 .. n - 1 /\ DOMAIN k.exists = 0 .. n - 1
                       /\ IsFiniteSet(Flagged(k)) /\ Cardinality(Flagged(k)) \in Nat
  BY BlockShape
<1>2. /\ r.slot = [k.slot EXCEPT ![i] = o] /\ r.exists = [k.exists EXCEPT ![i] = TRUE]
      /\ r.num = k.num + 1 /\ r.lost = k.lost
      /\ r \in BlockOf(n)
  <2>1. k.num \in Int /\ k \in [slot : [0 .. n - 1 -> Objects \cup {Raw}],
                             exists : [0 .. n - 1 -> BOOLEAN], num : Int, lost : Nat]
    BY <1>1 DEF BlockOf
  <2>2. r = [k EXCEPT !.slot = [k.slot EXCEPT ![i] = o],
                      !.exists = [k.exists EXCEPT ![i] = TRUE], !.num = k.num + 1]
    BY <2>1
  <2> DEFINE s == [k.slot EXCEPT ![i] = o]
             e == [k.exists EXCEPT ![i] = TRUE]
             c == k.num + 1
  <2>3. /\ s \in [0 .. n - 1 -> Objects \cup {Raw}]
        /\ e \in [0 .. n - 1 -> BOOLEAN]
        /\ c \in Int
    BY <1>1, <2>1 DEF BlockOf
  <2>4. r = [k EXCEPT !.slot = s, !.exists = e, !.num = c]
    BY <2>2
  <2> HIDE DEF r, s, e, c
  <2>5. r \in BlockOf(n) /\ r.slot = s /\ r.exists = e /\ r.num = c /\ r.lost = k.lost
    BY <2>1, <2>3, <2>4 DEF BlockOf
  <2> QED BY <2>5 DEF s, e, c
<1> HIDE DEF r
<1>3. Flagged(r) = Flagged(k) \cup {i} /\ Holding(r) = Holding(k) \cup {i}
  <2>1. /\ DOMAIN r.slot = 0 .. n - 1 /\ DOMAIN r.exists = 0 .. n - 1 /\ i \in 0 .. n - 1
        /\ o # Raw
    BY <1>1, <1>2, ObjectsAssumption
  <2>2. \A j : j \in Flagged(r) <=> j = i \/ j \in Flagged(k)
    BY <1>1, <1>2, <2>1 DEF Flagged
  <2>3. \A j : j \in Holding(r) <=> j = i \/ j \in Holding(k)
    BY <1>1, <1>2, <2>1 DEF Holding
  <2> QED BY <2>2, <2>3
<1>4. Cardinality(Flagged(r)) = Cardinality(Flagged(k)) + 1
  BY <1>1, <1>3, FS_AddElement
<1>5. Counted(k) => Counted(r)
  <2>1. k.lost \in Int /\ Cardinality(Flagged(k)) \in Int
    BY <1>1 DEF BlockOf
  <2>2. r.num = k.num + 1 /\ r.lost = k.lost
    BY <1>2
  <2> QED BY <1>4, <2>1, <2>2 DEF Counted
<1>6. r \in AnyBlock
  BY <1>2 DEF AnyBlock
<1> QED BY <1>3, <1>5, <1>6 DEF r

\* An element is destructed, and counted out.
LEMMA DestructIs ==
  ASSUME NEW k \in AnyBlock, NEW i \in Flagged(k)
  PROVE  LET r == [k EXCEPT !.slot[i] = Raw, !.exists[i] = FALSE, !.num = @ - 1]
         IN  /\ r \in AnyBlock
             /\ Counted(k) => Counted(r)
             /\ Flagged(k) = Holding(k) => Flagged(r) = Holding(r)
<1> DEFINE r == [k EXCEPT !.slot[i] = Raw, !.exists[i] = FALSE, !.num = @ - 1]
<1>1. PICK n \in Nat : /\ k \in BlockOf(n)
                       /\ DOMAIN k.slot = 0 .. n - 1 /\ DOMAIN k.exists = 0 .. n - 1
                       /\ IsFiniteSet(Flagged(k)) /\ Cardinality(Flagged(k)) \in Nat
                       /\ Flagged(k) \subseteq 0 .. n - 1
  BY BlockShape
<1>2. /\ r.slot = [k.slot EXCEPT ![i] = Raw] /\ r.exists = [k.exists EXCEPT ![i] = FALSE]
      /\ r.num = k.num - 1 /\ r.lost = k.lost
      /\ r \in BlockOf(n)
  <2>1. k.num \in Int /\ k \in [slot : [0 .. n - 1 -> Objects \cup {Raw}],
                             exists : [0 .. n - 1 -> BOOLEAN], num : Int, lost : Nat]
    BY <1>1 DEF BlockOf
  <2>2. r = [k EXCEPT !.slot = [k.slot EXCEPT ![i] = Raw],
                      !.exists = [k.exists EXCEPT ![i] = FALSE], !.num = k.num - 1]
    BY <2>1
  <2> DEFINE s == [k.slot EXCEPT ![i] = Raw]
             e == [k.exists EXCEPT ![i] = FALSE]
             c == k.num - 1
  <2>3. /\ s \in [0 .. n - 1 -> Objects \cup {Raw}]
        /\ e \in [0 .. n - 1 -> BOOLEAN]
        /\ c \in Int
    BY <1>1, <2>1 DEF BlockOf
  <2>4. r = [k EXCEPT !.slot = s, !.exists = e, !.num = c]
    BY <2>2
  <2> HIDE DEF r, s, e, c
  <2>5. r \in BlockOf(n) /\ r.slot = s /\ r.exists = e /\ r.num = c /\ r.lost = k.lost
    BY <2>1, <2>3, <2>4 DEF BlockOf
  <2> QED BY <2>5 DEF s, e, c
<1> HIDE DEF r
<1>3. Flagged(r) = Flagged(k) \ {i} /\ Holding(r) = Holding(k) \ {i}
  <2>1. DOMAIN r.slot = 0 .. n - 1 /\ DOMAIN r.exists = 0 .. n - 1 /\ i \in 0 .. n - 1
    BY <1>1, <1>2
  <2>2. \A j : j \in Flagged(r) <=> j # i /\ j \in Flagged(k)
    BY <1>1, <1>2, <2>1 DEF Flagged
  <2>3. \A j : j \in Holding(r) <=> j # i /\ j \in Holding(k)
    BY <1>1, <1>2, <2>1 DEF Holding
  <2> QED BY <2>2, <2>3
<1>4. Cardinality(Flagged(r)) = Cardinality(Flagged(k)) - 1
  BY <1>1, <1>3, FS_RemoveElement
<1>5. Counted(k) => Counted(r)
  <2>1. k.lost \in Int
    BY <1>1 DEF BlockOf
  <2> QED BY <1>1, <1>2, <1>4, <2>1 DEF Counted
<1>6. r \in AnyBlock
  BY <1>2 DEF AnyBlock
<1> QED BY <1>3, <1>5, <1>6 DEF r

\* construct_all() of a block without elements fills and counts every node.
LEMMA ConstructAllIs ==
  ASSUME NEW k \in AnyBlock, NEW o \in Objects, Flagged(k) = {}
  PROVE  LET D == DOMAIN k.slot
             r == [slot |-> [i \in D |-> o], exists |-> [i \in D |-> TRUE],
                   num |-> k.num + Cardinality(D), lost |-> k.lost]
         IN  /\ r \in AnyBlock
             /\ Counted(k) => Counted(r)
             /\ Flagged(r) = Holding(r)
<1> DEFINE D == DOMAIN k.slot
           r == [slot |-> [i \in D |-> o], exists |-> [i \in D |-> TRUE],
                 num |-> k.num + Cardinality(D), lost |-> k.lost]
<1>1. PICK n \in Nat : /\ k \in BlockOf(n)
                       /\ DOMAIN k.slot = 0 .. n - 1
                       /\ Cardinality(DOMAIN k.slot) = n
  BY BlockShape
<1>2. /\ r.slot = [i \in D |-> o] /\ r.exists = [i \in D |-> TRUE]
      /\ r.num = k.num + n /\ r.lost = k.lost
  BY <1>1
<1>3. r \in BlockOf(n)
  BY <1>1 DEF BlockOf
<1> HIDE DEF r
<1>4. Flagged(r) = D /\ Holding(r) = D
  BY <1>2, ObjectsAssumption DEF Flagged, Holding
<1>5. Counted(k) => Counted(r)
  <2>1. k.lost \in Int /\ k.num \in Int
    BY <1>1 DEF BlockOf
  <2>2. Cardinality(Flagged(k)) = 0
    BY FS_EmptySet
  <2> QED BY <1>1, <1>2, <1>4, <2>1, <2>2 DEF Counted
<1>6. r \in AnyBlock
  BY <1>3 DEF AnyBlock
<1> QED BY <1>4, <1>5, <1>6 DEF r

\* The elements moved to the beginning of the block, in any order.
LEMMA PackedIs ==
  ASSUME NEW k \in AnyBlock, NEW from \in [0 .. Cardinality(Flagged(k)) - 1 -> Flagged(k)]
  PROVE  LET p == Packed(k, from)
         IN  /\ p \in AnyBlock
             /\ DOMAIN p.slot = DOMAIN k.slot
             /\ Flagged(p) = DOMAIN from
             /\ Cardinality(DOMAIN from) = Cardinality(Flagged(k))
             /\ Counted(k) => Counted(p)
             /\ Flagged(k) = Holding(k) => Flagged(p) = Holding(p)
<1> DEFINE p == Packed(k, from)
           c == Cardinality(Flagged(k))
<1>1. PICK n \in Nat : /\ k \in BlockOf(n)
                       /\ DOMAIN k.slot = 0 .. n - 1 /\ DOMAIN k.exists = 0 .. n - 1
                       /\ c \in 0 .. n
                       /\ Flagged(k) \subseteq 0 .. n - 1
  BY BlockShape
<1>2. DOMAIN from = 0 .. c - 1 /\ DOMAIN from \subseteq 0 .. n - 1
      /\ Cardinality(DOMAIN from) = c
  <2>1. DOMAIN from = 0 .. c - 1 /\ c \in Nat /\ c <= n
    BY <1>1
  <2>2. Cardinality(0 .. c - 1) = c
    BY <2>1, FS_Interval
  <2> QED BY <2>1, <2>2
<1>3. /\ p.slot = [i \in 0 .. n - 1 |-> IF i \in DOMAIN from THEN k.slot[from[i]] ELSE Raw]
      /\ p.exists = [i \in 0 .. n - 1 |-> i \in DOMAIN from]
      /\ p.num = k.num /\ p.lost = k.lost
  BY <1>1 DEF BlockOf, Packed
<1>4. p \in BlockOf(n)
  <2>1. \A i \in DOMAIN from : from[i] \in 0 .. n - 1
    BY <1>1
  <2>2. k.slot \in [0 .. n - 1 -> Objects \cup {Raw}]
    BY <1>1 DEF BlockOf
  <2>3. \A i \in DOMAIN from : k.slot[from[i]] \in Objects \cup {Raw}
    BY <2>1, <2>2
  <2>4. p.slot \in [0 .. n - 1 -> Objects \cup {Raw}]
    BY <1>3, <2>3
  <2>5. p.exists \in [0 .. n - 1 -> BOOLEAN]
    BY <1>3
  <2>6. k.num \in Int
    BY <1>1 DEF BlockOf
  <2>7. p = [k EXCEPT !.slot = p.slot, !.exists = p.exists, !.num = k.num]
    BY <1>1, <1>3 DEF BlockOf, Packed
  <2> DEFINE s == p.slot
             e == p.exists
             m == k.num
  <2>8. /\ s \in [0 .. n - 1 -> Objects \cup {Raw}] /\ e \in [0 .. n - 1 -> BOOLEAN]
        /\ m \in Int /\ p = [k EXCEPT !.slot = s, !.exists = e, !.num = m]
    BY <2>4, <2>5, <2>6, <2>7
  <2> HIDE DEF p, s, e, m
  <2>9. k \in BlockOf(n)
    BY <1>1
  <2> QED BY <2>8, <2>9 DEF BlockOf
<1> HIDE DEF p
<1>5. Flagged(p) = DOMAIN from
  BY <1>2, <1>3 DEF Flagged
<1>6. ASSUME Flagged(k) = Holding(k) PROVE Flagged(p) = Holding(p)
  <2>1. \A i \in DOMAIN from : k.slot[from[i]] # Raw
    BY <1>2, <1>6 DEF Holding
  <2>2. Holding(p) = DOMAIN from
    BY <1>2, <1>3, <2>1 DEF Holding
  <2> QED BY <2>2, <1>5
<1>7. Counted(k) => Counted(p)
  BY <1>2, <1>3, <1>5 DEF Counted
<1>8. p \in AnyBlock /\ DOMAIN p.slot = DOMAIN k.slot
  BY <1>1, <1>3, <1>4 DEF AnyBlock
<1> QED BY <1>2, <1>5, <1>6, <1>7, <1>8 DEF p

----------------------------------------------------------------------------
(* The invariant *)

\* What blocks there are, and what a block that knows its elements counts.
BlockInv ==
  user = "blocks" =>
    /\ blocks \in [Names -> AnyBlock] /\ buffer \in Nat /\ flags \in {"bitset", "inplace"}
    /\ BlocksKnown => \A b \in Names : Counted(blocks[b])

\* Existing and BlockKnown are Flagged and Holding of the client's block.
LEMMA ExistingIs == \A b : Existing(b) = Flagged(blocks[b])
BY DEF Existing, Flagged

\* A block knows its elements if what its flags say is what its nodes hold.
LEMMA KnownIs == \A b : BlockKnown(b) <=> Flagged(blocks[b]) = Holding(blocks[b])
BY DEF BlockKnown, Existing, Flagged, Holding

\* A block changes, and counts what it then has if it knows that.
LEMMA BecomesKeeps ==
  ASSUME BlocksRunning, BlockInv, NEW b \in Names, NEW k \in AnyBlock, Becomes(b, k),
         Flagged(k) = Holding(k) => Counted(k)
  PROVE  BlockInv'
<1>1. /\ blocks' = [blocks EXCEPT ![b] = k] /\ user' = user
      /\ buffer' = buffer /\ flags' = flags /\ flags \in {"bitset", "inplace"}
      /\ blocks \in [Names -> AnyBlock] /\ buffer \in Nat
      /\ \A c \in Names : Counted(blocks[c])
  BY DEF Becomes, BlocksRunning, BlockInv
<1>2. blocks' \in [Names -> AnyBlock]
  BY <1>1
<1>3. ASSUME BlocksKnown', NEW c \in Names PROVE Counted(blocks'[c])
  <2>1. CASE c = b
    <3>1. Flagged(blocks'[b]) = Holding(blocks'[b])
      BY <1>3 DEF BlocksKnown, BlockKnown, Existing, Flagged, Holding
    <3>2. blocks'[b] = k
      BY <1>1
    <3> QED BY <2>1, <3>1, <3>2
  <2>2. CASE c # b
    BY <1>1, <2>2
  <2> QED BY <2>1, <2>2
<1> QED BY <1>1, <1>2, <1>3 DEF BlockInv

\* A block changes, and still knows its elements.
LEMMA BecomesKnown ==
  ASSUME BlocksRunning, BlockInv, NEW b \in Names, NEW k, Becomes(b, k),
         Flagged(k) = Holding(k)
  PROVE  BlocksKnown' /\ ~aborted'
<1>1. /\ blocks' = [blocks EXCEPT ![b] = k] /\ aborted' = aborted /\ ~aborted
      /\ blocks \in [Names -> AnyBlock] /\ BlocksKnown
  BY DEF Becomes, BlocksRunning, BlockInv
<1>2. ASSUME NEW c \in Names PROVE Flagged(blocks'[c]) = Holding(blocks'[c])
  <2>1. blocks'[b] = k /\ (c # b => blocks'[c] = blocks[c])
    BY <1>1
  <2>2. Flagged(blocks[c]) = Holding(blocks[c])
    BY <1>1, KnownIs DEF BlocksKnown
  <2> QED BY <2>1, <2>2
<1> QED BY <1>1, <1>2 DEF BlocksKnown, BlockKnown, Existing, Flagged, Holding

\* What the operations of a client of blocks assume.
LEMMA RunningHas ==
  ASSUME BlocksRunning, BlockInv, NEW b \in Names
  PROVE  /\ blocks[b] \in AnyBlock /\ Counted(blocks[b])
         /\ Existing(b) = Flagged(blocks[b]) /\ Flagged(blocks[b]) = Holding(blocks[b])
         /\ buffer \in Nat
BY KnownIs, ExistingIs DEF BlocksRunning, BlockInv, BlocksKnown

\* Resizing to more, or out of the inplace buffer, destructs nothing.
LEMMA NoVictims ==
  ASSUME NEW s, NEW K, NEW n \in Nat, Cardinality(DOMAIN s) \in Nat, buffer \in Nat,
         Victims(s, K, n) # {}
  PROVE  SameLocation(s, 0) /\ K # {} /\ n < Cardinality(DOMAIN s)
BY DEF Victims, SameLocation

----------------------------------------------------------------------------
(* What each operation keeps, and when blocks still know their elements *)

\* construct()
LEMMA BlockConstructKeeps ==
  ASSUME BlockInv, NEW b \in Names, NEW i \in DOMAIN blocks[b].slot, NEW o \in Objects,
         BlockConstruct(b, i, o)
  PROVE  BlockInv' /\ BlocksKnown' /\ ~aborted'
<1> DEFINE k == [blocks[b] EXCEPT !.slot[i] = o, !.exists[i] = TRUE, !.num = @ + 1]
<1>1. BlocksRunning /\ i \notin Existing(b) /\ Becomes(b, k)
  BY DEF BlockConstruct
<1>2. k \in AnyBlock /\ Counted(k) /\ Flagged(k) = Holding(k)
  BY <1>1, RunningHas, ConstructIs
<1> HIDE DEF k
<1> QED BY <1>1, <1>2, BecomesKeeps, BecomesKnown

\* destruct()
LEMMA BlockDestructKeeps ==
  ASSUME BlockInv, NEW b \in Names, NEW i \in DOMAIN blocks[b].slot, BlockDestruct(b, i)
  PROVE  BlockInv' /\ BlocksKnown' /\ ~aborted'
<1> DEFINE k == [blocks[b] EXCEPT !.slot[i] = Raw, !.exists[i] = FALSE, !.num = @ - 1]
<1>1. BlocksRunning /\ i \in Existing(b) /\ Becomes(b, k)
  BY DEF BlockDestruct
<1>2. k \in AnyBlock /\ Counted(k) /\ Flagged(k) = Holding(k)
  BY <1>1, RunningHas, DestructIs
<1> HIDE DEF k
<1> QED BY <1>1, <1>2, BecomesKeeps, BecomesKnown

\* construct_all()
LEMMA ConstructAllKeeps ==
  ASSUME BlockInv, NEW b \in Names, NEW o \in Objects, ConstructAll(b, o)
  PROVE  BlockInv' /\ BlocksKnown' /\ ~aborted'
<1> DEFINE D == DOMAIN blocks[b].slot
           k == [slot |-> [i \in D |-> o], exists |-> [i \in D |-> TRUE],
                 num |-> blocks[b].num + Cardinality(D), lost |-> blocks[b].lost]
<1>1. BlocksRunning /\ Existing(b) = {} /\ Becomes(b, k)
  BY DEF ConstructAll
<1>2. k \in AnyBlock /\ Counted(k) /\ Flagged(k) = Holding(k)
  BY <1>1, RunningHas, ConstructAllIs
<1> HIDE DEF k
<1> QED BY <1>1, <1>2, BecomesKeeps, BecomesKnown

\* ~Memory_Block() and Memory_Block(size)
LEMMA RenewKeeps ==
  ASSUME BlockInv, NEW b \in Names, NEW n \in Nat, BlockRenew(b, n)
  PROVE  BlockInv' /\ BlocksKnown' /\ ~aborted'
BY NewBlockIs, BecomesKeeps, BecomesKnown DEF BlockRenew

\* resize(): an element that it destructs, or a node that it destroys with one, is in
\* the inplace buffer, and the block gets smaller.
LEMMA ResizeKeeps ==
  ASSUME BlockInv, NEW b \in Names, NEW n \in Nat, BlockResize(b, n)
  PROVE  /\ BlockInv'
         /\ \/ BlocksKnown' /\ ~aborted'
            \/ /\ SameLocation(blocks[b].slot, 0) /\ Existing(b) # {}
               /\ n \in 0 .. Cardinality(DOMAIN blocks[b].slot) - 1
<1> DEFINE s == blocks[b].slot
           K == Existing(b)
           k == BlockResized(blocks[b], K, n)
<1>1. /\ BlocksRunning /\ blocks[b] \in AnyBlock /\ Counted(blocks[b])
      /\ K = Flagged(blocks[b]) /\ K = Holding(blocks[b]) /\ buffer \in Nat
  BY RunningHas DEF BlockResize
<1>2. PICK m \in Nat : DOMAIN s = 0 .. m - 1 /\ Cardinality(DOMAIN s) = m
  BY <1>1, BlockShape
<1>3. CASE ResizeFails(s, K, n)
  <2>1. BlockInv'
    <3>1. blocks' = blocks /\ user' = user /\ buffer' = buffer /\ flags' = flags
      BY <1>3 DEF BlockResize, Abort
    <3> QED BY <3>1 DEF BlockInv, BlocksKnown, BlockKnown, Existing
  <2>2. PICK i \in DOMAIN s : i >= n /\ s[i] # Raw /\ SameLocation(s, n)
    BY <1>3 DEF ResizeFails
  <2>3. i \in K /\ n < m
    BY <1>1, <1>2, <2>2 DEF Holding
  <2>4. SameLocation(s, 0)
    BY <1>1, <2>2 DEF SameLocation
  <2> QED BY <1>2, <2>1, <2>3, <2>4
<1>4. CASE ~ResizeFails(s, K, n)
  <2>1. Becomes(b, k)
    BY <1>4 DEF BlockResize
  <2>2. /\ k \in AnyBlock /\ Counted(k)
        /\ Victims(s, K, n) = {} => Flagged(k) = Holding(k)
    BY <1>1, ResizedIs
  <2> HIDE DEF k
  <2>3. BlockInv'
    BY <1>1, <2>1, <2>2, BecomesKeeps
  <2>4. CASE Victims(s, K, n) = {}
    BY <1>1, <2>1, <2>2, <2>3, <2>4, BecomesKnown
  <2>5. CASE Victims(s, K, n) # {}
    BY <1>1, <1>2, <2>3, <2>5, NoVictims
  <2> QED BY <2>4, <2>5
<1> QED BY <1>3, <1>4

\* compact(): as resize(), of a block whose elements are in front.
LEMMA CompactKeeps ==
  ASSUME BlockInv, NEW b \in Names, BlockCompact(b)
  PROVE  /\ BlockInv'
         /\ \/ BlocksKnown' /\ ~aborted'
            \/ /\ SameLocation(blocks[b].slot, 0) /\ Existing(b) # {}
               /\ Existing(b) # DOMAIN blocks[b].slot
<1> DEFINE s == blocks[b].slot
           K == Existing(b)
<1>1. /\ BlocksRunning /\ blocks[b] \in AnyBlock /\ Counted(blocks[b])
      /\ K = Flagged(blocks[b]) /\ K = Holding(blocks[b]) /\ buffer \in Nat
  BY RunningHas DEF BlockCompact
<1>2. PICK from \in Orders(b) :
        Becomes(b, BlockResized(Packed(blocks[b], from), DOMAIN from, Cardinality(DOMAIN from)))
  BY DEF BlockCompact
<1>3. from \in [0 .. Cardinality(Flagged(blocks[b])) - 1 -> Flagged(blocks[b])]
  BY <1>1 DEF Orders
<1> DEFINE p == Packed(blocks[b], from)
           n == Cardinality(DOMAIN from)
           k == BlockResized(p, DOMAIN from, n)
<1>4. /\ p \in AnyBlock /\ Counted(p) /\ DOMAIN p.slot = DOMAIN s
      /\ Flagged(p) = DOMAIN from /\ n = Cardinality(K)
      /\ Flagged(p) = Holding(p)
  BY <1>1, <1>3, PackedIs
<1>6. Becomes(b, k)
  <2> HIDE DEF K, s
  <2> QED BY <1>2
<1> HIDE DEF p
<1>5. PICK m \in Nat : /\ DOMAIN s = 0 .. m - 1 /\ Cardinality(DOMAIN s) = m
                       /\ Cardinality(K) \in 0 .. m
  BY <1>1, BlockShape
<1>7. n \in Nat
  BY <1>4, <1>5
<1>8. /\ k \in AnyBlock /\ Counted(k)
      /\ Victims(p.slot, DOMAIN from, n) = {} => Flagged(k) = Holding(k)
  <2>1. k = BlockResized(p, Flagged(p), n)
    BY <1>4
  <2> QED BY <1>4, <1>7, <2>1, ResizedIs
<1> HIDE DEF k
<1>9. BlockInv'
  BY <1>1, <1>6, <1>8, BecomesKeeps
<1>10. CASE Victims(p.slot, DOMAIN from, n) = {}
  BY <1>1, <1>6, <1>8, <1>9, <1>10, BecomesKnown
<1>11. CASE Victims(p.slot, DOMAIN from, n) # {}
  <2>1. SameLocation(p.slot, 0) /\ DOMAIN from # {} /\ n < m
    BY <1>1, <1>4, <1>5, <1>7, <1>11, NoVictims
  <2>2. SameLocation(s, 0)
    BY <1>4, <2>1 DEF SameLocation
  <2>3. K # DOMAIN s
    BY <1>4, <1>5, <2>1
  <2>4. K # {}
    BY <1>1, <1>3, <2>1
  <2> QED BY <1>9, <2>2, <2>3, <2>4
<1> QED BY <1>10, <1>11

\* Copying: bits are copied; without flags in its nodes, a copy knows what it counts
\* only if there is nothing in it.
LEMMA CopyKeeps ==
  ASSUME BlockInv, NEW b \in Names, NEW to \in Names, BlockCopy(b, to)
  PROVE  BlockInv' /\ (flags # "inplace" => BlocksKnown' /\ ~aborted')
<1> DEFINE k == [blocks[b] EXCEPT !.exists = FlagsCopied(@)]
<1>1. /\ BlocksRunning /\ blocks[b] \in AnyBlock /\ Counted(blocks[b])
      /\ Flagged(blocks[b]) = Holding(blocks[b])
  BY RunningHas DEF BlockCopy
<1>2. Becomes(to, k) /\ flags \in {"bitset", "inplace"}
  BY <1>1 DEF BlockCopy, BlockInv, BlocksRunning
<1>3. PICK n \in Nat : blocks[b] \in BlockOf(n) /\ DOMAIN blocks[b].exists = 0 .. n - 1
  BY <1>1, BlockShape
<1>4. CASE flags = "bitset"
  <2>1. k = blocks[b]
    BY <1>3, <1>4 DEF FlagsCopied, BlockOf
  <2> QED BY <1>1, <1>2, <1>4, <2>1, BecomesKeeps, BecomesKnown
<1>5. CASE flags = "inplace"
  <2> DEFINE e == [i \in 0 .. n - 1 |-> FALSE]
  <2>1. k = [blocks[b] EXCEPT !.exists = e]
    BY <1>3, <1>5 DEF FlagsCopied
  <2>2. e \in [0 .. n - 1 -> BOOLEAN] /\ \A i \in DOMAIN e : ~e[i]
    OBVIOUS
  <2> HIDE DEF k, e
  <2>3. /\ k \in BlockOf(n) /\ k.exists = e /\ k.slot = blocks[b].slot
        /\ k.num = blocks[b].num /\ k.lost = blocks[b].lost
    BY <1>3, <2>1, <2>2 DEF BlockOf
  <2>4. Flagged(k) = {} /\ Holding(k) = Holding(blocks[b])
    BY <2>2, <2>3 DEF Flagged, Holding
  <2>5. Flagged(k) = Holding(k) => Counted(k)
    BY <1>1, <2>3, <2>4 DEF Counted
  <2>6. k \in AnyBlock
    BY <2>3 DEF AnyBlock
  <2> QED BY <1>1, <1>2, <1>5, <2>5, <2>6, BecomesKeeps
<1> QED BY <1>2, <1>4, <1>5

\* Moving: what the block moved from goes on counting is added to what it lost.
LEMMA MoveKeeps ==
  ASSUME BlockInv, NEW b \in Names, NEW to \in Names, BlockMove(b, to)
  PROVE  BlockInv' /\ BlocksKnown' /\ ~aborted'
<1> DEFINE k == blocks[b]
           e == [EmptyBlock EXCEPT !.num = k.num, !.lost = k.num]
<1>1. /\ BlocksRunning /\ k \in AnyBlock /\ Counted(k) /\ b # to
      /\ \A c \in Names : Flagged(blocks[c]) = Holding(blocks[c]) /\ Counted(blocks[c])
      /\ blocks \in [Names -> AnyBlock] /\ flags \in {"bitset", "inplace"} /\ buffer \in Nat
      /\ user = "blocks" /\ ~aborted
  BY KnownIs DEF BlockMove, BlocksRunning, BlockInv, BlocksKnown
<1>2. /\ blocks' = [blocks EXCEPT ![to] = k, ![b] = e]
      /\ user' = user /\ buffer' = buffer /\ flags' = flags /\ aborted' = aborted
  BY DEF BlockMove
<1>3. k.num \in Nat
  <2>1. PICK n \in Nat : k \in BlockOf(n) /\ Cardinality(Flagged(k)) \in 0 .. n
    BY <1>1, BlockShape
  <2>2. k.lost \in Nat
    BY <2>1 DEF BlockOf
  <2> QED BY <1>1, <2>1, <2>2 DEF Counted
<1>4. e \in AnyBlock /\ Flagged(e) = {} /\ Holding(e) = {} /\ Counted(e)
  <2> DEFINE z == EmptyBlock
             c == k.num
  <2>1. z \in BlockOf(0) /\ Flagged(z) = {} /\ Holding(z) = {}
    <3>1. z = [slot |-> [i \in 0 .. 0 - 1 |-> Raw], exists |-> [i \in 0 .. 0 - 1 |-> FALSE],
               num |-> 0, lost |-> 0]
      BY DEF EmptyBlock, NewBlock
    <3> HIDE DEF z
    <3>2. z \in BlockOf(0)
      BY <3>1 DEF BlockOf
    <3>3. Flagged(z) = {} /\ Holding(z) = {}
      BY <3>1 DEF Flagged, Holding
    <3> QED BY <3>2, <3>3
  <2>2. c \in Nat /\ e = [z EXCEPT !.num = c, !.lost = c]
    BY <1>3
  <2> HIDE DEF e, z, c
  <2>3. /\ e \in BlockOf(0) /\ e.slot = z.slot /\ e.exists = z.exists
        /\ e.num = c /\ e.lost = c
    <3>1. z \in BlockOf(0) /\ c \in Nat /\ c \in Int
      BY <2>1, <2>2
    <3> QED BY <3>1, <2>2 DEF BlockOf
  <2>4. Flagged(e) = {} /\ Holding(e) = {}
    BY <2>1, <2>3 DEF Flagged, Holding
  <2>5. Counted(e)
    BY <2>2, <2>3, <2>4, FS_EmptySet DEF Counted
  <2> QED BY <2>3, <2>4, <2>5 DEF AnyBlock
<1> HIDE DEF k, e
<1>5. blocks' \in [Names -> AnyBlock]
  BY <1>1, <1>2, <1>4
<1>6. \A c \in Names : blocks'[c] = IF c = b THEN e ELSE IF c = to THEN k ELSE blocks[c]
  BY <1>1, <1>2
<1>7. ASSUME NEW c \in Names
      PROVE  Flagged(blocks'[c]) = Holding(blocks'[c]) /\ Counted(blocks'[c])
  <2>1. CASE c = b
    BY <1>4, <1>6, <2>1
  <2>2. CASE c # b
    BY <1>1, <1>6, <2>2 DEF k
  <2> QED BY <2>1, <2>2
<1>8. BlocksKnown'
  BY <1>7 DEF BlocksKnown, BlockKnown, Existing, Flagged, Holding
<1> QED BY <1>1, <1>2, <1>5, <1>7, <1>8 DEF BlockInv

\* operator()(FIRST) of a block that counts what it has lost.
LEMMA EndSearchKeeps ==
  ASSUME BlockInv, NEW b \in Names, EndSearchFails(b)
  PROVE  BlockInv' /\ blocks[b].lost > 0
<1>1. /\ BlocksRunning /\ Existing(b) = {} /\ blocks[b].num > 0
      /\ blocks' = blocks /\ user' = user /\ buffer' = buffer /\ flags' = flags
  BY DEF EndSearchFails, NotEmpty, Abort
<1>2. blocks[b] \in AnyBlock /\ Counted(blocks[b]) /\ Existing(b) = Flagged(blocks[b])
  BY <1>1, RunningHas
<1>3. blocks[b].lost \in Nat
  BY <1>2, BlockShape DEF BlockOf
<1>4. blocks[b].lost > 0
  BY <1>1, <1>2, <1>3, FS_EmptySet DEF Counted
<1>5. BlockInv'
  BY <1>1 DEF BlockInv, BlocksKnown, BlockKnown, Existing
<1> QED BY <1>4, <1>5

----------------------------------------------------------------------------
(* All steps *)

\* Arrays over their blocks leave the client's blocks alone.
LEMMA ArraysLeaveBlocks ==
  ASSUME \/ user = "array" /\ Next
         \/ UnorderedNext
  PROVE  user # "blocks" /\ user' = user
<1>1. CASE user = "array" /\ Next
  BY <1>1 DEF Next, EmplaceBack, Grow, Construct, Destruct, PopBack, Resize, ResizeAborts,
     Reserve, MoveFrom, Compact, CompactAborts, LoopBegin, LoopStep, LoopEnd, params
<1>2. CASE UnorderedNext
  BY <1>2 DEF UnorderedNext, Add, Grow, Erase, EraseCurrent, UnorderedReserve, Reserve,
     Begin, Step, UserOfBag, params
<1> QED BY <1>1, <1>2

\* A step of a client of blocks keeps the invariant, and the blocks know their elements
\* but for the steps that BlocksKnowElements lists.
LEMMA BlockNextKeeps ==
  ASSUME BlockInv, BlockNext
  PROVE  /\ BlockInv'
         /\ \/ BlocksKnown' /\ ~aborted'
            \/ \E b \in Names :
                 LET s == blocks[b].slot
                 IN  /\ SameLocation(s, 0) /\ Existing(b) # {}
                     /\ \/ \E n \in 0 .. Cardinality(DOMAIN s) - 1 : BlockResize(b, n)
                        \/ BlockCompact(b) /\ Existing(b) # DOMAIN s
            \/ flags = "inplace" /\ \E b, to \in Names : BlockCopy(b, to)
            \/ \E b \in Names : blocks[b].lost > 0 /\ EndSearchFails(b)
<1>1. PICK b \in Names :
        \/ \E i \in DOMAIN blocks[b].slot : \E o \in Objects : BlockConstruct(b, i, o)
        \/ \E i \in DOMAIN blocks[b].slot : BlockDestruct(b, i)
        \/ \E o \in Objects : ConstructAll(b, o)
        \/ \E n \in 0 .. MaxSize : BlockResize(b, n)
        \/ BlockCompact(b)
        \/ \E n \in 0 .. MaxSize : BlockRenew(b, n)
        \/ EndSearchFails(b)
        \/ \E to \in Names : BlockCopy(b, to) \/ BlockMove(b, to)
  BY DEF BlockNext
<1>2. CASE \E i \in DOMAIN blocks[b].slot : \E o \in Objects : BlockConstruct(b, i, o)
  BY <1>2, BlockConstructKeeps
<1>3. CASE \E i \in DOMAIN blocks[b].slot : BlockDestruct(b, i)
  BY <1>3, BlockDestructKeeps
<1>4. CASE \E o \in Objects : ConstructAll(b, o)
  BY <1>4, ConstructAllKeeps
<1>5. CASE \E n \in 0 .. MaxSize : BlockResize(b, n)
  <2>1. PICK n \in 0 .. MaxSize : BlockResize(b, n)
    BY <1>5
  <2>2. n \in Nat
    BY SizesAssumption
  <2> QED BY <2>1, <2>2, ResizeKeeps
<1>6. CASE BlockCompact(b)
  BY <1>6, CompactKeeps
<1>7. CASE \E n \in 0 .. MaxSize : BlockRenew(b, n)
  <2>1. PICK n \in 0 .. MaxSize : BlockRenew(b, n)
    BY <1>7
  <2>2. n \in Nat
    BY SizesAssumption
  <2> QED BY <2>1, <2>2, RenewKeeps
<1>8. CASE EndSearchFails(b)
  BY <1>8, EndSearchKeeps
<1>9. CASE \E to \in Names : BlockCopy(b, to)
  BY <1>9, CopyKeeps
<1>10. CASE \E to \in Names : BlockMove(b, to)
  BY <1>10, MoveKeeps
<1> QED BY <1>1, <1>2, <1>3, <1>4, <1>5, <1>6, <1>7, <1>8, <1>9, <1>10

\* The invariant holds at first.
LEMMA BlockInvInit == ArraysInit => BlockInv
<1> SUFFICES ASSUME ArraysInit, user = "blocks"
             PROVE  /\ blocks \in [Names -> AnyBlock] /\ buffer \in Nat
                    /\ flags \in {"bitset", "inplace"}
                    /\ \A b \in Names : Counted(blocks[b])
  BY DEF BlockInv
<1>1. BlockInit
  BY DEF ArraysInit
<1>2. buffer \in Nat /\ flags \in {"bitset", "inplace"}
  BY <1>1, SizesAssumption DEF BlockInit
<1>3. \A n \in 0 .. MaxSize : NewBlock(n) \in AnyBlock /\ Counted(NewBlock(n))
  BY NewBlockIs, SizesAssumption
<1>4. blocks \in [Names -> {NewBlock(n) : n \in 0 .. MaxSize}]
  BY <1>1 DEF BlockInit
<1> QED BY <1>2, <1>3, <1>4

\* Every step keeps the invariant.
LEMMA BlockInvNext == BlockInv /\ [ArraysNext]_arrays_vars => BlockInv'
<1> SUFFICES ASSUME BlockInv, [ArraysNext]_arrays_vars PROVE BlockInv'
  OBVIOUS
<1>1. CASE BlockNext
  BY <1>1, BlockNextKeeps
<1>2. CASE (user = "array" /\ Next) \/ UnorderedNext
  BY <1>2, ArraysLeaveBlocks DEF BlockInv
<1>3. CASE UNCHANGED arrays_vars
  BY <1>3 DEF arrays_vars, vars, params, BlockInv, BlocksKnown, BlockKnown, Existing
<1> QED BY <1>1, <1>2, <1>3 DEF ArraysNext

\* The invariant of the blocks holds in every behaviour.
LEMMA BlockInvAlways == ArraysSpec => []BlockInv
BY BlockInvInit, BlockInvNext, PTL DEF ArraysSpec

\* count() is the number of elements, and what was cut off or moved away uncounted, after
\* any sequence of calls, for every size and buffer.
THEOREM CountExact == ArraysSpec => []CountDrifts
<1>1. BlockInv => CountDrifts
  BY ExistingIs DEF BlockInv, CountDrifts, Counted, BlocksRunning
<1> QED BY <1>1, BlockInvAlways, PTL

\* Blocks know their elements in every step but shrinking in the inplace buffer, copying
\* flags kept in the nodes, and searching a block for elements that it has lost.
THEOREM BlocksTrack == ArraysSpec => BlocksKnowElements
<1>1. BlockInv /\ [ArraysNext]_arrays_vars =>
        [BlocksRunning =>
           \/ BlocksKnown' /\ ~aborted'
           \/ \E b \in Names :
                LET s == blocks[b].slot
                IN  /\ SameLocation(s, 0) /\ Existing(b) # {}
                    /\ \/ \E n \in 0 .. Cardinality(DOMAIN s) - 1 : BlockResize(b, n)
                       \/ BlockCompact(b) /\ Existing(b) # DOMAIN s
           \/ flags = "inplace" /\ \E b, to \in Names : BlockCopy(b, to)
           \/ \E b \in Names : blocks[b].lost > 0 /\ EndSearchFails(b)]_block_vars
  <2> SUFFICES ASSUME BlockInv, [ArraysNext]_arrays_vars, BlocksRunning
               PROVE  \/ BlocksKnown' /\ ~aborted'
                      \/ \E b \in Names :
                           LET s == blocks[b].slot
                           IN  /\ SameLocation(s, 0) /\ Existing(b) # {}
                               /\ \/ \E n \in 0 .. Cardinality(DOMAIN s) - 1 :
                                       BlockResize(b, n)
                                  \/ BlockCompact(b) /\ Existing(b) # DOMAIN s
                      \/ flags = "inplace" /\ \E b, to \in Names : BlockCopy(b, to)
                      \/ \E b \in Names : blocks[b].lost > 0 /\ EndSearchFails(b)
    OBVIOUS
  <2>1. CASE BlockNext
    BY <2>1, BlockNextKeeps
  <2>2. CASE (user = "array" /\ Next) \/ UnorderedNext
    BY <2>2, ArraysLeaveBlocks DEF BlocksRunning
  <2>3. CASE UNCHANGED arrays_vars
    BY <2>3 DEF arrays_vars, vars, params, BlocksRunning, BlocksKnown, BlockKnown, Existing
  <2> QED BY <2>1, <2>2, <2>3 DEF ArraysNext
<1> QED BY <1>1, BlockInvAlways, PTL DEF ArraysSpec, BlocksKnowElements

----------------------------------------------------------------------------
(* The unordered array: its elements are in front, and are distinct. *)

ArrayOf(s, n, m) ==
  /\ n \in Nat /\ m \in 0 .. n
  /\ s \in [0 .. n - 1 -> Objects \cup {Raw}]
  /\ \A i, j \in 0 .. n - 1 : i # j /\ s[i] = s[j] => s[i] = Raw

FullTo(s, n, m) == \A i \in 0 .. n - 1 : s[i] # Raw <=> i < m

ArrayInv ==
  user = "unordered" =>
    /\ ~sparse /\ buffer \in Nat
    /\ ArrayOf(slot, domain, size)
    /\ HeapLifetimesMatch

\* Where a loop stands, and that it has visited elements that are there.
LoopInv ==
  user = "unordered" /\ Running /\ cursor # NoCursor =>
    /\ cursor \in 0 .. size /\ view \in Views /\ just_erased \in BOOLEAN
    /\ ~just_erased => cursor < size
    /\ visited \subseteq Held
    /\ LoopMeetsEachOnce

\* What a dense array knows is its first elements.
LEMMA DenseKnows ==
  ASSUME ~sparse, ArrayOf(slot, domain, size)
  PROVE  LifetimesMatch <=> (~aborted => FullTo(slot, domain, size))
<1>1. DOMAIN slot = 0 .. domain - 1 /\ size \in Int
  BY DEF ArrayOf
<1>2. KnownSlots = {i \in 0 .. domain - 1 : i < size}
  BY <1>1 DEF KnownSlots, Known
<1> QED BY <1>1, <1>2 DEF LifetimesMatch, FullTo

\* As DenseKnows, after a step.
LEMMA DenseKnowsNext ==
  ASSUME ~sparse', ArrayOf(slot', domain', size')
  PROVE  LifetimesMatch' <=> (~aborted' => FullTo(slot', domain', size'))
<1>1. DOMAIN slot' = 0 .. domain' - 1 /\ size' \in Int
  BY DEF ArrayOf
<1>2. KnownSlots' = {i \in 0 .. domain' - 1 : i < size'}
  BY <1>1 DEF KnownSlots, Known
<1> QED BY <1>1, <1>2 DEF LifetimesMatch, FullTo

\* What the operations of an unordered array assume.
LEMMA BagHas ==
  ASSUME ArrayInv, UserOfBag
  PROVE  /\ ~sparse /\ buffer \in Nat /\ ArrayOf(slot, domain, size)
         /\ FullTo(slot, domain, size) /\ ~aborted
         /\ Held = {slot[i] : i \in 0 .. size - 1}
         /\ \A i \in 0 .. size - 1 : slot[i] \in Objects
<1>1. /\ ~sparse /\ buffer \in Nat /\ ArrayOf(slot, domain, size)
      /\ FullTo(slot, domain, size) /\ ~aborted
  BY DenseKnows DEF ArrayInv, UserOfBag, Running
<1>2. /\ DOMAIN slot = 0 .. domain - 1 /\ domain \in Nat /\ size \in 0 .. domain
      /\ \A i \in 0 .. domain - 1 : slot[i] # Raw <=> i < size
      /\ \A i \in 0 .. domain - 1 : slot[i] \in Objects \cup {Raw}
  BY <1>1 DEF ArrayOf, FullTo
<1>3. Held = {slot[i] : i \in 0 .. size - 1}
  BY <1>2 DEF Held
<1> QED BY <1>1, <1>2, <1>3

\* As BagHas, after a step in which the elements are still known.
LEMMA HeldIs ==
  ASSUME NEW s, NEW n, NEW m, ArrayOf(s, n, m), FullTo(s, n, m)
  PROVE  {s[i] : i \in DOMAIN s} \ {Raw} = {s[i] : i \in 0 .. m - 1}
BY DEF ArrayOf, FullTo

\* What a loop is to meet, by the indices.
Coming(s, m) ==
  {s[i] : i \in IF Backward THEN 0 .. cursor - 1
                ELSE (IF just_erased THEN cursor ELSE cursor + 1) .. m - 1}

\* It is what is ahead of the loop's iterator.
LEMMA AheadIs ==
  ASSUME ArrayInv, UserOfBag, cursor \in 0 .. size, just_erased \in BOOLEAN
  PROVE  Ahead = Coming(slot, size)
<1>1. size \in Nat /\ \A i \in 0 .. size - 1 : slot[i] # Raw
  BY BagHas, ObjectsAssumption DEF ArrayOf
<1> QED BY <1>1 DEF Ahead, Coming

\* Growing by an element, whether the block grows or not.
LEMMA GrowIs ==
  ASSUME ArrayInv, UserOfBag, NEW o \in Objects, Grow(o)
  PROVE  /\ ArrayOf(slot', domain', size') /\ FullTo(slot', domain', size')
         /\ size' = size + 1 /\ slot'[size] = o /\ o \notin Held
         /\ \A i \in 0 .. size - 1 : slot'[i] = slot[i]
<1> DEFINE n == GrownDomain
<1>1. /\ buffer \in Nat /\ ArrayOf(slot, domain, size) /\ FullTo(slot, domain, size)
      /\ Held = {slot[i] : i \in 0 .. size - 1}
  BY BagHas
<1>2. /\ domain' = n /\ slot' = [Moved(n) EXCEPT ![size] = o] /\ size' = size + 1
      /\ o \notin Held
  BY DEF Grow
<1>3. /\ domain \in Nat /\ size \in 0 .. domain /\ DOMAIN slot = 0 .. domain - 1
      /\ slot \in [0 .. domain - 1 -> Objects \cup {Raw}]
  BY <1>1 DEF ArrayOf
<1>4. n \in Nat /\ n >= domain /\ size < n
  BY <1>3 DEF GrownDomain
<1> HIDE DEF n
<1>5. Victims(slot, KnownSlots, n) = {}
  <2>1. Cardinality(DOMAIN slot) = domain
    BY <1>3, FS_Interval
  <2>2. 0 .. domain - n - 1 = {}
    BY <1>3, <1>4
  <2> QED BY <2>1, <2>2 DEF Victims
<1>6. Moved(n) = [i \in 0 .. n - 1 |-> IF i \in 0 .. domain - 1 THEN slot[i] ELSE Raw]
  BY <1>3, <1>5 DEF Moved, Resized
<1>7. /\ DOMAIN slot' = 0 .. n - 1
      /\ \A i \in 0 .. n - 1 : slot'[i] = IF i = size THEN o
                                          ELSE IF i \in 0 .. domain - 1 THEN slot[i] ELSE Raw
  BY <1>2, <1>6
<1>8. \A i \in 0 .. n - 1 : slot'[i] = IF i = size THEN o
                                       ELSE IF i < size THEN slot[i] ELSE Raw
  BY <1>1, <1>3, <1>4, <1>7 DEF FullTo
<1>9. \A i \in 0 .. size - 1 : slot[i] # o /\ slot[i] # Raw
  BY <1>1, <1>2, <1>3 DEF FullTo
<1>10. o # Raw
  BY ObjectsAssumption
<1>11. slot' \in [0 .. n - 1 -> Objects \cup {Raw}]
  <2>1. slot' = [i \in 0 .. n - 1 |-> slot'[i]]
    BY <1>2, <1>6
  <2>2. \A i \in 0 .. n - 1 : slot'[i] \in Objects \cup {Raw}
    BY <1>3, <1>7
  <2> QED BY <2>1, <2>2
<1>12. \A i, j \in 0 .. n - 1 : i # j /\ slot'[i] = slot'[j] => slot'[i] = Raw
  BY <1>1, <1>3, <1>8, <1>9 DEF ArrayOf
<1>13. FullTo(slot', n, size + 1)
  BY <1>3, <1>8, <1>9, <1>10 DEF FullTo
<1> QED BY <1>2, <1>3, <1>4, <1>8, <1>11, <1>12, <1>13 DEF ArrayOf

\* Erasing moves the last element into the hole.
LEMMA EraseIs ==
  ASSUME ArrayInv, UserOfBag, NEW e \in 0 .. size - 1, slot' = SwapErased(e),
         size' = size - 1, domain' = domain
  PROVE  /\ ArrayOf(slot', domain', size') /\ FullTo(slot', domain', size')
         /\ \A i \in 0 .. size - 2 : slot'[i] = IF i = e THEN slot[size - 1] ELSE slot[i]
<1>1. /\ ArrayOf(slot, domain, size) /\ FullTo(slot, domain, size)
  BY BagHas
<1>2. /\ domain \in Nat /\ size \in 0 .. domain /\ size > 0 /\ DOMAIN slot = 0 .. domain - 1
      /\ slot \in [0 .. domain - 1 -> Objects \cup {Raw}]
      /\ size - 1 \in 0 .. domain - 1 /\ e \in 0 .. domain - 1
  BY <1>1 DEF ArrayOf
<1>3. slot' \in [0 .. domain - 1 -> Objects \cup {Raw}]
  BY <1>2 DEF SwapErased
<1>4. \A i \in 0 .. domain - 1 :
        slot'[i] = IF i = size - 1 THEN Raw ELSE IF i = e THEN slot[size - 1] ELSE slot[i]
  BY <1>2 DEF SwapErased
<1>5. \A i, j \in 0 .. domain - 1 : i # j /\ slot'[i] = slot'[j] => slot'[i] = Raw
  BY <1>1, <1>2, <1>4 DEF ArrayOf
<1>6. FullTo(slot', domain, size - 1)
  BY <1>1, <1>2, <1>4 DEF FullTo
<1> QED BY <1>2, <1>3, <1>4, <1>5, <1>6 DEF ArrayOf

\* Reserving keeps what it does not destruct.
LEMMA ReserveIs ==
  ASSUME ArrayInv, UserOfBag, NEW n \in Nat, Reserve(n)
  PROVE  /\ ArrayOf(slot', domain', size')
         /\ FullTo(slot', domain', size') => \A i \in 0 .. size - 1 : slot'[i] = slot[i]
         /\ buffer = 0 => FullTo(slot', domain', size')
<1>1. /\ ArrayOf(slot, domain, size) /\ FullTo(slot, domain, size)
  BY BagHas
<1>2. n >= size /\ domain' = n /\ slot' = Moved(n) /\ size' = size
  BY DEF Reserve
<1>3. /\ domain \in Nat /\ size \in 0 .. domain /\ DOMAIN slot = 0 .. domain - 1
      /\ slot \in [0 .. domain - 1 -> Objects \cup {Raw}]
  BY <1>1 DEF ArrayOf
<1> DEFINE V == Victims(slot, KnownSlots, n)
<1>4. slot' = [i \in 0 .. n - 1 |-> IF i \in 0 .. domain - 1 /\ i \notin V THEN slot[i] ELSE Raw]
  BY <1>2, <1>3 DEF Moved, Resized
<1>5. buffer = 0 => V = {}
  <2>1. Cardinality(DOMAIN slot) = domain
    BY <1>3, FS_Interval
  <2>2. buffer = 0 /\ V # {} => domain <= 0 /\ n <= 0
    BY <2>1 DEF Victims, SameLocation
  <2>3. domain <= 0 => 0 .. domain - n - 1 = {}
    BY <1>3
  <2> QED BY <2>1, <2>2, <2>3 DEF Victims
<1> HIDE DEF V
<1>6. slot' \in [0 .. n - 1 -> Objects \cup {Raw}]
  BY <1>3, <1>4
<1>7. \A i, j \in 0 .. n - 1 : i # j /\ slot'[i] = slot'[j] => slot'[i] = Raw
  BY <1>1, <1>3, <1>4 DEF ArrayOf
<1>8. ArrayOf(slot', domain', size')
  BY <1>2, <1>3, <1>6, <1>7 DEF ArrayOf
<1>9. FullTo(slot', n, size) => \A i \in 0 .. size - 1 : slot'[i] = slot[i]
  BY <1>2, <1>3, <1>4 DEF FullTo
<1>10. V = {} => FullTo(slot', n, size)
  BY <1>1, <1>2, <1>3, <1>4 DEF FullTo
<1> QED BY <1>2, <1>5, <1>8, <1>9, <1>10

----------------------------------------------------------------------------
(* Its steps *)

\* The array stays one, whatever a step does to it.
LEMMA ArrayKept ==
  ASSUME ArrayInv, UserOfBag, UNCHANGED <<params, aborted>>, ArrayOf(slot', domain', size'),
         buffer = 0 => FullTo(slot', domain', size')
  PROVE  ArrayInv'
<1>1. ~sparse' /\ buffer' = buffer /\ buffer \in Nat /\ aborted' = aborted
  BY BagHas DEF params
<1>2. HeapLifetimesMatch'
  BY <1>1, DenseKnowsNext DEF HeapLifetimesMatch
<1> QED BY <1>1, <1>2 DEF ArrayInv

\* The elements known after a step are those in front.
LEMMA KnownAfter ==
  ASSUME ~sparse', ArrayOf(slot', domain', size'), Running'
  PROVE  /\ FullTo(slot', domain', size')
         /\ Held' = {slot'[i] : i \in 0 .. size' - 1}
<1>1. FullTo(slot', domain', size')
  BY DenseKnowsNext DEF Running
<1> QED BY <1>1, HeldIs DEF Held

\* add(): a new element comes behind those that a forward loop is to meet.
LEMMA AddKeeps ==
  ASSUME ArrayInv, LoopInv, NEW o \in Objects, Add(o)
  PROVE  ArrayInv' /\ LoopInv'
<1>1. UserOfBag /\ Grow(o) /\ UNCHANGED <<params, aborted>>
      /\ cursor' = cursor /\ visited' = visited /\ view' = view /\ just_erased' = just_erased
      /\ kept' = IF cursor = NoCursor \/ Backward THEN kept ELSE kept \cup {o}
  BY DEF Add, Grow, unordered_vars
<1>2. /\ ArrayOf(slot', domain', size') /\ FullTo(slot', domain', size')
      /\ size' = size + 1 /\ slot'[size] = o /\ o \notin Held
      /\ \A i \in 0 .. size - 1 : slot'[i] = slot[i]
  BY <1>1, GrowIs
<1>3. ArrayInv'
  BY <1>1, <1>2, ArrayKept
<1>4. ASSUME Running', cursor # NoCursor
      PROVE  LoopInv'
  <2>1. /\ cursor \in 0 .. size /\ view \in Views /\ just_erased \in BOOLEAN
        /\ ~just_erased => cursor < size
        /\ visited \subseteq Held /\ size \in Nat
        /\ kept \ visited \subseteq Ahead /\ Ahead \cap visited = {}
        /\ Held = {slot[i] : i \in 0 .. size - 1}
        /\ \A i \in 0 .. size - 1 : slot[i] \in Objects
    BY <1>1, <1>4, BagHas DEF LoopInv, UserOfBag, LoopMeetsEachOnce, ArrayOf
  <2>2. Ahead = Coming(slot, size)
    BY <1>1, <2>1, AheadIs
  <2>3. UserOfBag'
    BY <1>1, <1>4 DEF UserOfBag, params
  <2>4. Ahead' = {slot'[i] : i \in IF Backward THEN 0 .. cursor - 1
                                   ELSE (IF just_erased THEN cursor ELSE cursor + 1) .. size}
    <3>1. \A i \in 0 .. size : slot'[i] # Raw
      BY <1>2, <2>1, ObjectsAssumption
    <3>2. Backward' = Backward
      BY <1>1 DEF Backward
    <3> QED BY <1>1, <1>2, <2>1, <3>1, <3>2 DEF Ahead
  <2>7. visited' \subseteq Held'
    <3>1. Held' = {slot'[i] : i \in 0 .. size}
      <4>1. ~sparse'
        BY <1>1, BagHas DEF params
      <4> QED BY <1>2, <1>4, <2>1, <4>1, KnownAfter
    <3>2. Held \subseteq Held'
      BY <1>2, <2>1, <3>1
    <3> QED BY <1>1, <2>1, <3>2
  <2> DEFINE Met == kept' \ visited' \subseteq Ahead' /\ Ahead' \cap visited' = {}
  <2>5. Backward => Met
    <3> SUFFICES ASSUME Backward PROVE Met
      OBVIOUS
    <3>1. Ahead' = Ahead
      BY <1>2, <2>1, <2>2, <2>4 DEF Coming
    <3> QED BY <1>1, <1>4, <2>1, <3>1
  <2>6. ~Backward => Met
    <3> SUFFICES ASSUME ~Backward PROVE Met
      OBVIOUS
    <3>1. Ahead' = Ahead \cup {o}
      <4> DEFINE first == IF just_erased THEN cursor ELSE cursor + 1
      <4>1. first \in 0 .. size
        BY <2>1
      <4>2. /\ Ahead = {slot[i] : i \in first .. size - 1}
            /\ Ahead' = {slot'[i] : i \in first .. size}
        BY <2>2, <2>4 DEF Coming
      <4> HIDE DEF first
      <4>3. first .. size = (first .. size - 1) \cup {size}
        BY <2>1, <4>1
      <4>4. \A i \in first .. size - 1 : slot'[i] = slot[i]
        BY <1>2, <2>1, <4>1
      <4> QED BY <1>2, <4>2, <4>3, <4>4
    <3>2. o \notin visited
      BY <1>2, <2>1
    <3> QED BY <1>1, <1>4, <2>1, <3>1, <3>2
  <2>8. LoopMeetsEachOnce'
    BY <2>5, <2>6 DEF LoopMeetsEachOnce
  <2> QED BY <1>1, <1>2, <2>1, <2>7, <2>8 DEF LoopInv
<1>5. ASSUME ~(Running' /\ cursor # NoCursor)
      PROVE  LoopInv'
  BY <1>1, <1>5 DEF LoopInv
<1> QED BY <1>3, <1>4, <1>5

\* erase(), with no loop on.
LEMMA EraseKeeps ==
  ASSUME ArrayInv, NEW i \in 0 .. size - 1, Erase(i)
  PROVE  ArrayInv' /\ LoopInv'
<1>1. /\ UserOfBag /\ cursor' = NoCursor /\ slot' = SwapErased(i) /\ size' = size - 1
      /\ domain' = domain /\ UNCHANGED <<params, aborted>>
  BY DEF Erase, loop
<1>2. ArrayOf(slot', domain', size') /\ FullTo(slot', domain', size')
  BY <1>1, EraseIs
<1>3. ArrayInv'
  BY <1>1, <1>2, ArrayKept
<1> QED BY <1>1, <1>3 DEF LoopInv

\* The loop erases its element: in its place comes the last one, which a forward loop
\* is still to meet, and a backward one has met.
LEMMA EraseCurrentKeeps ==
  ASSUME ArrayInv, LoopInv, EraseCurrent
  PROVE  ArrayInv' /\ LoopInv'
<1>1. /\ UserOfBag /\ cursor # NoCursor /\ just_erased = FALSE /\ just_erased' = TRUE
      /\ slot' = SwapErased(cursor) /\ size' = size - 1 /\ domain' = domain
      /\ cursor' = cursor /\ view' = view /\ UNCHANGED <<params, aborted>>
      /\ visited' = visited \ {slot[cursor]} /\ kept' = kept \ {slot[cursor]}
  <2>1. just_erased = FALSE
    BY DEF EraseCurrent, UserOfBag, LoopInv
  <2> QED BY <2>1 DEF EraseCurrent
<1>2. /\ cursor \in 0 .. size - 1 /\ view \in Views
      /\ visited \subseteq Held /\ size \in Nat
      /\ kept \ visited \subseteq Ahead /\ Ahead \cap visited = {}
      /\ Held = {slot[i] : i \in 0 .. size - 1}
      /\ \A i \in 0 .. size - 1 : slot[i] \in Objects
      /\ \A i, j \in 0 .. size - 1 : i # j => slot[i] # slot[j]
  <2>1. /\ cursor \in 0 .. size /\ cursor < size /\ view \in Views /\ visited \subseteq Held
        /\ kept \ visited \subseteq Ahead /\ Ahead \cap visited = {}
    BY <1>1 DEF LoopInv, UserOfBag, LoopMeetsEachOnce
  <2>2. /\ ArrayOf(slot, domain, size) /\ \A i \in 0 .. size - 1 : slot[i] \in Objects
        /\ Held = {slot[i] : i \in 0 .. size - 1}
    BY <1>1, BagHas
  <2>3. \A i, j \in 0 .. size - 1 : i # j => slot[i] # slot[j]
    BY <2>2, ObjectsAssumption DEF ArrayOf
  <2> QED BY <2>1, <2>2, <2>3 DEF ArrayOf
<1>3. /\ ArrayOf(slot', domain', size') /\ FullTo(slot', domain', size')
      /\ \A i \in 0 .. size - 2 : slot'[i] = IF i = cursor THEN slot[size - 1] ELSE slot[i]
  BY <1>1, <1>2, EraseIs
<1>4. ArrayInv'
  BY <1>1, <1>3, ArrayKept
<1>5. ASSUME Running' PROVE LoopInv'
  <2>1. Held' = {slot'[i] : i \in 0 .. size - 2}
    <3>1. ~sparse'
      BY <1>1, BagHas DEF params
    <3>2. size' - 1 = size - 2
      BY <1>1, <1>2
    <3> QED BY <1>3, <1>5, <3>1, <3>2, KnownAfter
  <2>2. visited' \subseteq Held'
    <3>1. ASSUME NEW i \in 0 .. size - 1, i # cursor PROVE slot[i] \in Held'
      <4>1. CASE i = size - 1
        <5>1. cursor \in 0 .. size - 2 /\ slot'[cursor] = slot[i]
          BY <1>2, <1>3, <3>1, <4>1
        <5> QED BY <2>1, <5>1
      <4>2. CASE i # size - 1
        <5>1. i \in 0 .. size - 2 /\ slot'[i] = slot[i]
          BY <1>2, <1>3, <3>1, <4>2
        <5> QED BY <2>1, <5>1
      <4> QED BY <4>1, <4>2
    <3> QED BY <1>1, <1>2, <3>1
  <2>3. Ahead = {slot[i] : i \in IF Backward THEN 0 .. cursor - 1 ELSE cursor + 1 .. size - 1}
    <3>0. cursor \in 0 .. size
      BY <1>2
    <3>1. just_erased = FALSE /\ just_erased \in BOOLEAN
      BY <1>1, Zenon
    <3>2. Ahead = Coming(slot, size)
      BY <1>1, <3>0, <3>1, AheadIs
    <3> QED BY <1>1, <3>2 DEF Coming
  <2>4. Ahead' = {slot'[i] : i \in IF Backward THEN 0 .. cursor - 1 ELSE cursor .. size - 2}
    <3>1. \A i \in 0 .. size - 2 : slot'[i] # Raw
      BY <1>2, <1>3, ObjectsAssumption
    <3>2. Backward' = Backward /\ size' - 1 = size - 2
      BY <1>1, <1>2 DEF Backward
    <3>3. (IF Backward THEN 0 .. cursor - 1 ELSE cursor .. size - 2) \subseteq 0 .. size - 2
      BY <1>2
    <3> QED BY <1>1, <3>1, <3>2, <3>3 DEF Ahead
  <2>5. Ahead' = Ahead
    <3>1. CASE Backward
      BY <1>2, <1>3, <2>3, <2>4, <3>1
    <3>2. CASE ~Backward
      <4>1. CASE cursor = size - 1
        BY <1>2, <2>3, <2>4, <3>2, <4>1
      <4>2. CASE cursor # size - 1
        <5>1. cursor .. size - 2 = {cursor} \cup (cursor + 1 .. size - 2)
          BY <1>2, <4>2
        <5>2. cursor + 1 .. size - 1 = (cursor + 1 .. size - 2) \cup {size - 1}
          BY <1>2, <4>2
        <5>3. /\ slot'[cursor] = slot[size - 1]
              /\ \A i \in cursor + 1 .. size - 2 : slot'[i] = slot[i]
          BY <1>2, <1>3, <4>2
        <5> QED BY <2>3, <2>4, <3>2, <5>1, <5>2, <5>3
      <4> QED BY <4>1, <4>2
    <3> QED BY <3>1, <3>2
  <2>6. slot[cursor] \notin Ahead
    BY <1>2, <2>3
  <2>7. LoopMeetsEachOnce'
    BY <1>1, <1>2, <2>5, <2>6 DEF LoopMeetsEachOnce
  <2>8. cursor \in 0 .. size - 1 /\ size' = size - 1
    BY <1>1, <1>2
  <2> QED BY <1>1, <1>2, <2>2, <2>7, <2>8 DEF LoopInv
<1>6. ASSUME ~Running' PROVE LoopInv'
  BY <1>6 DEF LoopInv
<1> QED BY <1>4, <1>5, <1>6

\* reserve(): the elements stay, or are lost track of.
LEMMA ReserveKeeps ==
  ASSUME ArrayInv, LoopInv, NEW n \in Nat, UnorderedReserve(n)
  PROVE  ArrayInv' /\ LoopInv'
<1>1. /\ UserOfBag /\ Reserve(n) /\ UNCHANGED <<params, size, aborted>>
      /\ cursor' = cursor /\ visited' = visited /\ kept' = kept
      /\ view' = view /\ just_erased' = just_erased
  BY DEF UnorderedReserve, Reserve, unordered_vars, loop
<1>2. /\ ArrayOf(slot', domain', size')
      /\ FullTo(slot', domain', size') => \A i \in 0 .. size - 1 : slot'[i] = slot[i]
      /\ buffer = 0 => FullTo(slot', domain', size')
  BY <1>1, ReserveIs
<1>3. ArrayInv'
  BY <1>1, <1>2, ArrayKept
<1>4. ASSUME Running', cursor # NoCursor PROVE LoopInv'
  <2>1. /\ cursor \in 0 .. size /\ view \in Views /\ just_erased \in BOOLEAN
        /\ ~just_erased => cursor < size
        /\ visited \subseteq Held /\ size \in Nat
        /\ kept \ visited \subseteq Ahead /\ Ahead \cap visited = {}
        /\ Held = {slot[i] : i \in 0 .. size - 1}
        /\ \A i \in 0 .. size - 1 : slot[i] \in Objects
    BY <1>1, <1>4, BagHas DEF LoopInv, UserOfBag, LoopMeetsEachOnce, ArrayOf
  <2>2. /\ \A i \in 0 .. size - 1 : slot'[i] = slot[i]
        /\ Held' = {slot'[i] : i \in 0 .. size - 1}
    <3>1. ~sparse'
      BY <1>1, BagHas DEF params
    <3> QED BY <1>1, <1>2, <1>4, <3>1, KnownAfter
  <2>3. Held' = Held
    BY <2>1, <2>2
  <2>4. Ahead' = Ahead
    BY <1>1, <2>1, <2>2 DEF Ahead, Backward
  <2> QED BY <1>1, <2>1, <2>3, <2>4 DEF LoopInv, LoopMeetsEachOnce
<1>5. ASSUME ~(Running' /\ cursor # NoCursor) PROVE LoopInv'
  BY <1>1, <1>5 DEF LoopInv
<1> QED BY <1>3, <1>4, <1>5

\* begin(): the first element in the loop's direction is visited, and all are to be met.
LEMMA BeginKeeps ==
  ASSUME ArrayInv, Begin
  PROVE  ArrayInv' /\ LoopInv'
<1>1. /\ UserOfBag /\ size > 0 /\ view' \in Views /\ just_erased' = FALSE
      /\ cursor' = (CASE view' = "forward" -> 0
                      [] view' = "backward" -> size - 1
                      [] view' = "map" -> MapBegin
                      [] view' = "reverse" -> ReverseBegin)
      /\ visited' = {slot[cursor']} /\ kept' = Held
      /\ UNCHANGED <<params, domain, slot, exists, size, aborted>>
  BY DEF Begin
<1>2. /\ ArrayOf(slot, domain, size) /\ FullTo(slot, domain, size)
      /\ \A i \in 0 .. size - 1 : slot[i] \in Objects
      /\ Held = {slot[i] : i \in 0 .. size - 1}
  BY <1>1, BagHas
<1>3. /\ size \in Nat /\ \A i, j \in 0 .. size - 1 : i # j => slot[i] # slot[j]
      /\ \A i \in 0 .. size - 1 : slot[i] # Raw
  BY <1>2, ObjectsAssumption DEF ArrayOf
<1>4. cursor' = IF Backward' THEN size - 1 ELSE 0
  BY <1>1 DEF Views, Backward, MapBegin, ReverseBegin
<1>0. size > 0 /\ size' = size /\ view' \in Views /\ just_erased' = FALSE
  BY <1>1
<1>5. cursor' \in 0 .. size - 1 /\ cursor' \in 0 .. size' /\ cursor' < size'
  BY <1>0, <1>3, <1>4
<1>6. ArrayInv'
  BY <1>1, <1>2, ArrayKept
<1>7. Held' = Held
  BY <1>1 DEF Held
<1>8. Ahead' = {slot[i] : i \in 0 .. size - 1} \ {slot[cursor']}
  <2> DEFINE I == IF Backward' THEN 0 .. cursor' - 1 ELSE cursor' + 1 .. size - 1
  <2>1. I = (0 .. size - 1) \ {cursor'}
    BY <1>0, <1>3, <1>4
  <2>2. Ahead' = {slot[i] : i \in I} \ {Raw}
    BY <1>1 DEF Ahead
  <2> HIDE DEF I
  <2> QED BY <1>3, <1>5, <2>1, <2>2
<1>9. LoopMeetsEachOnce'
  BY <1>1, <1>2, <1>8 DEF LoopMeetsEachOnce
<1>10. visited' \subseteq Held'
  BY <1>1, <1>2, <1>5, <1>7
<1> QED BY <1>0, <1>5, <1>6, <1>9, <1>10 DEF LoopInv

\* ++: the next element is the first of those to meet.
LEMMA StepKeeps ==
  ASSUME ArrayInv, LoopInv, Step
  PROVE  ArrayInv' /\ LoopInv'
<1>1. /\ UserOfBag /\ cursor # NoCursor /\ cursor' = After /\ just_erased' = FALSE
      /\ UNCHANGED <<params, domain, slot, exists, size, aborted>>
      /\ cursor' # NoCursor => /\ visited' = visited \cup {slot[cursor']}
                               /\ kept' = kept /\ view' = view
  BY DEF Step
<1>2. /\ ArrayOf(slot, domain, size) /\ FullTo(slot, domain, size)
      /\ \A i \in 0 .. size - 1 : slot[i] \in Objects
      /\ Held = {slot[i] : i \in 0 .. size - 1}
  BY <1>1, BagHas
<1>3. /\ size \in Nat /\ \A i, j \in 0 .. size - 1 : i # j => slot[i] # slot[j]
      /\ \A i \in 0 .. size - 1 : slot[i] # Raw
  BY <1>2, ObjectsAssumption DEF ArrayOf
<1>4. /\ cursor \in 0 .. size /\ view \in Views /\ just_erased \in BOOLEAN
      /\ ~just_erased => cursor < size
      /\ visited \subseteq Held
      /\ kept \ visited \subseteq Ahead /\ Ahead \cap visited = {}
  BY <1>1 DEF LoopInv, UserOfBag, LoopMeetsEachOnce
<1>5. ArrayInv'
  BY <1>1, <1>2, ArrayKept
<1>6. ASSUME cursor' # NoCursor PROVE LoopInv'
  <2> DEFINE next == IF Backward THEN cursor - 1 ELSE IF just_erased THEN cursor ELSE cursor + 1
             I == IF Backward THEN 0 .. next ELSE next .. size - 1
             J == IF Backward THEN 0 .. next - 1 ELSE next + 1 .. size - 1
  <2>1. cursor' = next /\ (~Backward => next # size)
    BY <1>1, <1>4, <1>6 DEF After, Increment, Decrement, MapIncrement, ReverseIncrement,
       Views, Backward
  <2>2. next \in 0 .. size - 1
    BY <1>1, <1>3, <1>4, <1>6, <2>1 DEF NoCursor
  <2>3. J = I \ {next} /\ next \in I /\ I \subseteq 0 .. size - 1
    BY <1>3, <2>2
  <2>4. Ahead = {slot[i] : i \in I}
    <3>1. Ahead = Coming(slot, size)
      BY <1>1, <1>4, AheadIs
    <3> QED BY <3>1 DEF Coming
  <2>5. Ahead' = {slot[i] : i \in J}
    <3>1. Backward' = Backward
      BY <1>1, <1>6 DEF Backward
    <3>2. Ahead' = {slot[i] : i \in J} \ {Raw}
      BY <1>1, <2>1, <3>1 DEF Ahead
    <3> HIDE DEF I, J, next
    <3> QED BY <1>3, <2>3, <3>2
  <2> HIDE DEF I, J, next
  <2>6. Ahead' = Ahead \ {slot[next]}
    BY <1>3, <2>2, <2>3, <2>4, <2>5
  <2>7. LoopMeetsEachOnce'
    BY <1>1, <1>4, <1>6, <2>1, <2>6 DEF LoopMeetsEachOnce
  <2>8. Held' = Held
    BY <1>1 DEF Held
  <2>9. visited' \subseteq Held'
    BY <1>1, <1>2, <1>4, <1>6, <2>1, <2>2, <2>8
  <2>10. cursor' \in 0 .. size /\ cursor' < size /\ size' = size
    BY <1>1, <1>3, <2>1, <2>2
  <2> QED BY <1>1, <1>4, <1>6, <2>7, <2>9, <2>10 DEF LoopInv
<1>7. ASSUME cursor' = NoCursor PROVE LoopInv'
  BY <1>7 DEF LoopInv
<1> QED BY <1>5, <1>6, <1>7

\* A new array has its elements in front, and no loop is on.
LEMMA BagInit == ArraysInit => ArrayInv /\ LoopInv
<1> SUFFICES ASSUME ArraysInit, user = "unordered" PROVE ArrayInv /\ LoopInv
  BY DEF ArrayInv, LoopInv
<1>1. /\ Init /\ ~sparse /\ buffer \in {0, StackBuffer} /\ buffer \in Nat
  BY SizesAssumption DEF ArraysInit, BlockInit
<1>2. PICK new \in {f \in [0 .. size - 1 -> Objects] :
                      \A i, j \in 0 .. size - 1 : f[i] = f[j] => i = j} :
        slot = [i \in 0 .. domain - 1 |-> IF i < size THEN new[i] ELSE Raw]
  BY <1>1 DEF Init
<1>3. domain \in Nat /\ size \in 0 .. domain
  BY <1>1, SizesAssumption DEF Init
<1>4. /\ new \in [0 .. size - 1 -> Objects]
      /\ \A i, j \in 0 .. size - 1 : new[i] = new[j] => i = j
      /\ \A i \in 0 .. domain - 1 : i < size => i \in 0 .. size - 1
  BY <1>2, <1>3
<1>5. ArrayOf(slot, domain, size)
  <2>1. slot \in [0 .. domain - 1 -> Objects \cup {Raw}]
    BY <1>2, <1>4
  <2>2. \A i, j \in 0 .. domain - 1 : i # j /\ slot[i] = slot[j] => slot[i] = Raw
    BY <1>2, <1>4, ObjectsAssumption
  <2> QED BY <1>3, <2>1, <2>2 DEF ArrayOf
<1>6. FullTo(slot, domain, size)
  BY <1>2, <1>4, ObjectsAssumption DEF FullTo
<1>7. cursor = NoCursor
  BY <1>1 DEF Init
<1> QED BY <1>1, <1>5, <1>6, <1>7, DenseKnows DEF ArrayInv, LoopInv, HeapLifetimesMatch

\* Every step keeps both.
LEMMA BagNext == ArrayInv /\ LoopInv /\ [ArraysNext]_arrays_vars => ArrayInv' /\ LoopInv'
<1> SUFFICES ASSUME ArrayInv, LoopInv, [ArraysNext]_arrays_vars PROVE ArrayInv' /\ LoopInv'
  OBVIOUS
<1>1. CASE UnorderedNext
  <2>1. \A n \in 0 .. MaxSize : n \in Nat
    BY SizesAssumption
  <2> QED BY <1>1, <2>1, AddKeeps, EraseKeeps, EraseCurrentKeeps, ReserveKeeps, BeginKeeps,
             StepKeeps DEF UnorderedNext
<1>2. CASE user = "array" /\ Next
  <2>1. user' = "array"
    BY <1>2, ArraysLeaveBlocks
  <2> QED BY <2>1 DEF ArrayInv, LoopInv
<1>3. CASE BlockNext /\ UNCHANGED <<array_vars, unordered_vars>>
  <2>1. user = "blocks" /\ user' = user
    BY <1>3 DEF BlockNext, BlockConstruct, BlockDestruct, ConstructAll, BlockResize,
       BlockCompact, BlockRenew, EndSearchFails, BlockCopy, BlockMove, BlocksRunning,
       Becomes, Abort
  <2> QED BY <2>1 DEF ArrayInv, LoopInv
<1>4. CASE UNCHANGED arrays_vars
  <2>1. UNCHANGED <<user, sparse, buffer, domain, slot, exists, size, cursor, visited, kept,
                    aborted, view, just_erased>>
    BY <1>4 DEF arrays_vars, vars, params, loop, unordered_vars
  <2> QED BY <2>1 DEF ArrayInv, LoopInv, HeapLifetimesMatch, LifetimesMatch, KnownSlots,
          Known, Running, Held, LoopMeetsEachOnce, Ahead, Backward
<1> QED BY <1>1, <1>2, <1>3, <1>4 DEF ArraysNext

----------------------------------------------------------------------------
(* A Dynamic_Array, dense or sparse: its elements are distinct, and below   *)
(* its size; what a sparse array knows are its flags.                       *)

SlotsOf(s, e, n, m) ==
  /\ ArrayOf(s, n, m)
  /\ e \in [0 .. n - 1 -> BOOLEAN]
  /\ \A i \in 0 .. n - 1 : e[i] => sparse /\ i < m

\* What an array with these flags and this size knows.
KnownIn(e, n, m) == {i \in 0 .. n - 1 : IF sparse THEN e[i] ELSE i < m}

HeldIn(s, n) == {i \in 0 .. n - 1 : s[i] # Raw}

StorageInv ==
  user # "blocks" =>
    /\ sparse \in BOOLEAN /\ buffer \in Nat
    /\ SlotsOf(slot, exists, domain, size)
    /\ HeapLifetimesMatch

\* Where a loop stands, and that it has visited elements that are there.
DynamicLoopInv ==
  user = "array" =>
    /\ view = "forward" /\ just_erased = FALSE
    /\ Running /\ cursor # NoCursor =>
         /\ cursor \in 0 .. size - 1
         /\ visited \subseteq Held
         /\ LoopMeetsEachOnce

ArrayRuns == Running /\ StorageInv

\* What the operations of an array assume.
LEMMA DynamicHas ==
  ASSUME ArrayRuns
  PROVE  /\ sparse \in BOOLEAN /\ buffer \in Nat /\ ~aborted
         /\ SlotsOf(slot, exists, domain, size)
         /\ domain \in Nat /\ size \in 0 .. domain
         /\ DOMAIN slot = 0 .. domain - 1 /\ DOMAIN exists = 0 .. domain - 1
         /\ slot \in [0 .. domain - 1 -> Objects \cup {Raw}]
         /\ KnownSlots = KnownIn(exists, domain, size)
         /\ KnownSlots = HeldIn(slot, domain)
         /\ KnownSlots \subseteq 0 .. size - 1
         /\ Held = {slot[i] : i \in KnownSlots}
<1>1. /\ sparse \in BOOLEAN /\ buffer \in Nat /\ ~aborted /\ LifetimesMatch
      /\ SlotsOf(slot, exists, domain, size)
  BY DEF ArrayRuns, StorageInv, Running
<1>2. /\ domain \in Nat /\ size \in 0 .. domain
      /\ DOMAIN slot = 0 .. domain - 1 /\ DOMAIN exists = 0 .. domain - 1
      /\ slot \in [0 .. domain - 1 -> Objects \cup {Raw}]
  BY <1>1 DEF SlotsOf, ArrayOf
<1>3. KnownSlots = KnownIn(exists, domain, size)
  BY <1>2 DEF KnownSlots, Known, KnownIn
<1>4. KnownSlots = HeldIn(slot, domain)
  BY <1>1, <1>2 DEF LifetimesMatch, HeldIn
<1>5. KnownSlots \subseteq 0 .. size - 1
  BY <1>1, <1>2, <1>3 DEF KnownIn, SlotsOf
<1>6. Held = {slot[i] : i \in KnownSlots}
  BY <1>2, <1>4 DEF Held, HeldIn
<1> QED BY <1>1, <1>2, <1>3, <1>4, <1>5, <1>6

\* A step keeps the invariant if the array is one, and knows what it holds unless
\* it has an inplace buffer.
LEMMA DynamicKept ==
  ASSUME ArrayRuns, UNCHANGED params, SlotsOf(slot', exists', domain', size'),
         buffer = 0 /\ ~aborted' => KnownIn(exists', domain', size') = HeldIn(slot', domain')
  PROVE  StorageInv'
<1>1. /\ sparse' = sparse /\ sparse \in BOOLEAN /\ buffer' = buffer /\ buffer \in Nat
  BY DEF ArrayRuns, StorageInv, params, Running
<1>2. DOMAIN slot' = 0 .. domain' - 1
  BY DEF SlotsOf, ArrayOf
<1>3. SlotsOf(slot, exists, domain, size)'
  BY <1>1 DEF SlotsOf
<1>4. KnownSlots' = KnownIn(exists', domain', size')
  BY <1>1, <1>2 DEF KnownSlots, Known, KnownIn
<1>5. HeapLifetimesMatch'
  BY <1>1, <1>2, <1>4 DEF HeapLifetimesMatch, LifetimesMatch, HeldIn
<1> QED BY <1>1, <1>3, <1>5 DEF StorageInv

\* What an array holds after a step, if it still runs.
LEMMA DynamicAfter ==
  ASSUME ArrayRuns, UNCHANGED params, SlotsOf(slot', exists', domain', size'), Running'
  PROVE  /\ KnownIn(exists', domain', size') = HeldIn(slot', domain')
         /\ Held' = {slot'[i] : i \in HeldIn(slot', domain')}
<1>1. sparse' = sparse
  BY DEF params
<1>2. DOMAIN slot' = 0 .. domain' - 1
  BY DEF SlotsOf, ArrayOf
<1>3. KnownSlots' = KnownIn(exists', domain', size')
  BY <1>1, <1>2 DEF KnownSlots, Known, KnownIn
<1>4. KnownSlots' = HeldIn(slot', domain')
  BY <1>2 DEF Running, LifetimesMatch, HeldIn
<1>5. Held' = {slot'[i] : i \in HeldIn(slot', domain')}
  BY <1>2 DEF Held, HeldIn
<1> QED BY <1>3, <1>4, <1>5

\* Growing by an element, whether the block grows or not.
LEMMA DynamicGrow ==
  ASSUME ArrayRuns, NEW o \in Objects, Grow(o)
  PROVE  /\ SlotsOf(slot', exists', domain', size')
         /\ KnownIn(exists', domain', size') = HeldIn(slot', domain')
         /\ size' = size + 1 /\ slot'[size] = o /\ o \notin Held
         /\ \A i \in 0 .. size - 1 : slot'[i] = slot[i]
         /\ HeldIn(slot', domain') = KnownSlots \cup {size}
<1> DEFINE n == GrownDomain
           K == KnownSlots
<1>1. /\ sparse \in BOOLEAN /\ buffer \in Nat /\ SlotsOf(slot, exists, domain, size)
      /\ domain \in Nat /\ size \in 0 .. domain
      /\ DOMAIN slot = 0 .. domain - 1 /\ DOMAIN exists = 0 .. domain - 1
      /\ slot \in [0 .. domain - 1 -> Objects \cup {Raw}]
      /\ K = KnownIn(exists, domain, size) /\ K = HeldIn(slot, domain) /\ K \subseteq 0 .. size - 1
      /\ Held = {slot[i] : i \in K}
  BY DynamicHas
<1>2. /\ domain' = n /\ slot' = [Moved(n) EXCEPT ![size] = o] /\ size' = size + 1
      /\ exists' = [Flags(n) EXCEPT ![size] = sparse]
      /\ o \notin Held
  BY DEF Grow
<1>4. n \in Nat /\ n >= domain /\ size < n
  BY <1>1 DEF GrownDomain
<1> HIDE DEF n
<1>5. Victims(slot, K, n) = {}
  <2>1. Cardinality(DOMAIN slot) = domain
    BY <1>1, FS_Interval
  <2>2. 0 .. domain - n - 1 = {}
    BY <1>1, <1>4
  <2> QED BY <2>1, <2>2 DEF Victims
<1>6. Moved(n) = [i \in 0 .. n - 1 |-> IF i \in 0 .. domain - 1 THEN slot[i] ELSE Raw]
  BY <1>1, <1>5 DEF Moved, Resized
<1>7. \A i \in 0 .. n - 1 : slot'[i] = IF i = size THEN o
                                       ELSE IF i \in 0 .. domain - 1 THEN slot[i] ELSE Raw
  BY <1>2, <1>6
<1> HIDE DEF K
<1>8. \A i \in 0 .. n - 1 : slot'[i] = IF i = size THEN o
                                       ELSE IF i < size THEN slot[i] ELSE Raw
  BY <1>1, <1>4, <1>7 DEF HeldIn
<1>9. \A i \in 0 .. size - 1 : slot[i] # o
  BY <1>1, <1>2, ObjectsAssumption DEF HeldIn
<1>11. slot' \in [0 .. n - 1 -> Objects \cup {Raw}]
  <2>1. slot' = [i \in 0 .. n - 1 |-> slot'[i]]
    BY <1>2, <1>6
  <2>2. \A i \in 0 .. n - 1 : slot'[i] \in Objects \cup {Raw}
    BY <1>1, <1>7
  <2> QED BY <2>1, <2>2
<1>12. \A i, j \in 0 .. n - 1 : i # j /\ slot'[i] = slot'[j] => slot'[i] = Raw
  BY <1>1, <1>8, <1>9 DEF ArrayOf, SlotsOf
<1>13. ArrayOf(slot', n, size + 1)
  BY <1>1, <1>4, <1>11, <1>12 DEF ArrayOf
<1>14. /\ exists' \in [0 .. n - 1 -> BOOLEAN]
       /\ \A i \in 0 .. n - 1 : exists'[i] <=> IF i = size THEN sparse
                                              ELSE i \in 0 .. domain - 1 /\ exists[i]
  BY <1>1, <1>2, <1>4 DEF Flags, FlagsResized
<1>15. \A i \in 0 .. n - 1 : exists'[i] => sparse /\ i < size + 1
  BY <1>1, <1>14 DEF SlotsOf
<1>16. \A i : i \in KnownIn(exists', n, size + 1) <=> i \in K \/ i = size
  BY <1>1, <1>4, <1>14 DEF KnownIn
<1>17. \A i : i \in HeldIn(slot', n) <=> i \in K \/ i = size
  BY <1>1, <1>4, <1>8, ObjectsAssumption DEF HeldIn
<1>18. KnownIn(exists', n, size + 1) = HeldIn(slot', n) /\ HeldIn(slot', n) = K \cup {size}
  BY <1>16, <1>17
<1>19. domain' = n /\ size' = size + 1
  BY <1>2
<1>20. SlotsOf(slot', exists', domain', size')
  BY <1>13, <1>14, <1>15, <1>19 DEF SlotsOf
<1>21. slot'[size] = o /\ \A i \in 0 .. size - 1 : slot'[i] = slot[i]
  BY <1>1, <1>4, <1>8
<1> QED BY <1>2, <1>18, <1>19, <1>20, <1>21 DEF K

\* Resizing keeps what it does not destruct, which is all without an inplace buffer.
LEMMA MovedIs ==
  ASSUME ArrayRuns, NEW n \in Nat
  PROVE  /\ Moved(n) \in [0 .. n - 1 -> Objects \cup {Raw}]
         /\ \A i \in 0 .. n - 1 : Moved(n)[i] # Raw => i < size /\ Moved(n)[i] = slot[i]
         /\ buffer = 0 => \A i \in 0 .. n - 1 : i < size => Moved(n)[i] = slot[i]
<1> DEFINE V == Victims(slot, KnownSlots, n)
<1>1. /\ domain \in Nat /\ size \in 0 .. domain /\ DOMAIN slot = 0 .. domain - 1
      /\ slot \in [0 .. domain - 1 -> Objects \cup {Raw}]
      /\ KnownSlots = HeldIn(slot, domain) /\ KnownSlots \subseteq 0 .. size - 1
  BY DynamicHas
<1>2. Moved(n) = [i \in 0 .. n - 1 |-> IF i \in 0 .. domain - 1 /\ i \notin V THEN slot[i] ELSE Raw]
  BY <1>1 DEF Moved, Resized
<1>3. buffer = 0 => V = {}
  <2>1. Cardinality(DOMAIN slot) = domain
    BY <1>1, FS_Interval
  <2>2. buffer = 0 /\ V # {} => domain <= 0 /\ n <= 0
    BY <2>1 DEF Victims, SameLocation
  <2>3. domain <= 0 => 0 .. domain - n - 1 = {}
    BY <1>1
  <2> QED BY <2>1, <2>2, <2>3 DEF Victims
<1> HIDE DEF V
<1>4. Moved(n) \in [0 .. n - 1 -> Objects \cup {Raw}]
  BY <1>1, <1>2
<1>5. \A i \in 0 .. n - 1 : Moved(n)[i] # Raw => i < size /\ Moved(n)[i] = slot[i]
  BY <1>1, <1>2 DEF HeldIn
<1>6. buffer = 0 => \A i \in 0 .. n - 1 : i < size => Moved(n)[i] = slot[i]
  BY <1>1, <1>2, <1>3
<1> QED BY <1>4, <1>5, <1>6

\* reserve() leaves the elements where they are, or loses track of them.
LEMMA DynamicReserve ==
  ASSUME ArrayRuns, NEW n \in Nat, Reserve(n)
  PROVE  /\ SlotsOf(slot', exists', domain', size')
         /\ KnownIn(exists', domain', size') = KnownSlots
         /\ KnownIn(exists', domain', size') = HeldIn(slot', domain') =>
              \A i \in 0 .. size - 1 : slot'[i] = slot[i]
         /\ buffer = 0 => KnownIn(exists', domain', size') = HeldIn(slot', domain')
<1> DEFINE K == KnownSlots
<1>1. /\ sparse \in BOOLEAN /\ SlotsOf(slot, exists, domain, size)
      /\ domain \in Nat /\ size \in 0 .. domain
      /\ DOMAIN exists = 0 .. domain - 1
      /\ K = KnownIn(exists, domain, size) /\ K = HeldIn(slot, domain) /\ K \subseteq 0 .. size - 1
  BY DynamicHas
<1>2. n >= size /\ domain' = n /\ slot' = Moved(n) /\ size' = size /\ exists' = Flags(n)
  BY DEF Reserve
<1>3. /\ slot' \in [0 .. n - 1 -> Objects \cup {Raw}]
      /\ \A i \in 0 .. n - 1 : slot'[i] # Raw => i < size /\ slot'[i] = slot[i]
      /\ buffer = 0 => \A i \in 0 .. n - 1 : i < size => slot'[i] = slot[i]
  BY <1>2, MovedIs
<1> HIDE DEF K
<1>4. \A i, j \in 0 .. n - 1 : i # j /\ slot'[i] = slot'[j] => slot'[i] = Raw
  BY <1>1, <1>3 DEF SlotsOf, ArrayOf
<1>5. ArrayOf(slot', n, size)
  BY <1>1, <1>2, <1>3, <1>4 DEF ArrayOf
<1>6. /\ exists' \in [0 .. n - 1 -> BOOLEAN]
      /\ \A i \in 0 .. n - 1 : exists'[i] <=> i \in 0 .. domain - 1 /\ exists[i]
  BY <1>1, <1>2 DEF Flags, FlagsResized
<1>7. \A i \in 0 .. n - 1 : exists'[i] => sparse /\ i < size
  BY <1>1, <1>6 DEF SlotsOf
<1>8. SlotsOf(slot', exists', n, size)
  BY <1>5, <1>6, <1>7 DEF SlotsOf
<1>9. \A i : i \in KnownIn(exists', n, size) <=> i \in K
  BY <1>1, <1>2, <1>6 DEF KnownIn
<1>10. KnownIn(exists', n, size) = K
  BY <1>9
<1>11. K = HeldIn(slot', n) => \A i \in 0 .. size - 1 : slot'[i] = slot[i]
  BY <1>1, <1>2, <1>3 DEF HeldIn
<1>12. buffer = 0 => K = HeldIn(slot', n)
  BY <1>1, <1>2, <1>3 DEF HeldIn
<1>13. domain' = n /\ size' = size
  BY <1>2
<1> QED BY <1>8, <1>10, <1>11, <1>12, <1>13 DEF K

\* resize() keeps the elements below the new size, and constructs all from the old one
\* on.
LEMMA DynamicResize ==
  ASSUME ArrayRuns, NEW n \in Nat, Resize(n)
  PROVE  /\ SlotsOf(slot', exists', domain', size')
         /\ size' = n /\ domain' = n
         /\ KnownIn(exists', domain', size') = HeldIn(slot', domain') =>
              \A i \in 0 .. n - 1 : i < size => slot'[i] = slot[i]
         /\ buffer = 0 => KnownIn(exists', domain', size') = HeldIn(slot', domain')
<1> DEFINE K == KnownSlots
           I == size .. n - 1
<1>1. /\ sparse \in BOOLEAN /\ SlotsOf(slot, exists, domain, size)
      /\ domain \in Nat /\ size \in 0 .. domain
      /\ DOMAIN exists = 0 .. domain - 1
      /\ K = KnownIn(exists, domain, size) /\ K = HeldIn(slot, domain) /\ K \subseteq 0 .. size - 1
      /\ Held = {slot[i] : i \in K}
  BY DynamicHas
<1>2. PICK new \in Fresh(I) :
        slot' = [i \in 0 .. n - 1 |-> IF i < size THEN Moved(n)[i] ELSE new[i]]
  BY DEF Resize
<1>3. /\ domain' = n /\ size' = n
      /\ exists' = [i \in 0 .. n - 1 |-> sparse /\ (i >= size \/ Flags(n)[i])]
  BY DEF Resize
<1>4. /\ new \in [I -> Objects \ Held] /\ \A i, j \in I : new[i] = new[j] => i = j
  BY DEF Fresh
<1>5. /\ Moved(n) \in [0 .. n - 1 -> Objects \cup {Raw}]
      /\ \A i \in 0 .. n - 1 : Moved(n)[i] # Raw => i < size /\ Moved(n)[i] = slot[i]
      /\ buffer = 0 => \A i \in 0 .. n - 1 : i < size => Moved(n)[i] = slot[i]
  BY MovedIs
<1> HIDE DEF K
<1>6. \A i \in 0 .. n - 1 : i >= size => i \in I
  BY <1>1
<1>7. \A i \in 0 .. n - 1 : IF i < size THEN slot'[i] = Moved(n)[i]
                            ELSE slot'[i] = new[i] /\ new[i] \in Objects \ Held
  BY <1>1, <1>2, <1>4, <1>6
<1>8. slot' \in [0 .. n - 1 -> Objects \cup {Raw}]
  <2>1. slot' = [i \in 0 .. n - 1 |-> slot'[i]]
    BY <1>2
  <2>2. \A i \in 0 .. n - 1 : slot'[i] \in Objects \cup {Raw}
    BY <1>5, <1>7
  <2> QED BY <2>1, <2>2
<1>9. \A i \in 0 .. n - 1 : i < size /\ slot'[i] # Raw => slot'[i] = slot[i] /\ i \in K
  BY <1>1, <1>5, <1>7 DEF HeldIn
<1>10. \A i, j \in 0 .. n - 1 : i # j /\ slot'[i] = slot'[j] => slot'[i] = Raw
  <2> SUFFICES ASSUME NEW i \in 0 .. n - 1, NEW j \in 0 .. n - 1, i < j, slot'[i] = slot'[j]
               PROVE  slot'[i] = Raw
    OBVIOUS
  <2>1. CASE j < size
    BY <1>1, <1>9, <2>1 DEF SlotsOf, ArrayOf, HeldIn
  <2>2. CASE i < size /\ j >= size
    BY <1>1, <1>7, <1>9, <2>2
  <2>3. CASE i >= size
    BY <1>1, <1>4, <1>6, <1>7, <2>3
  <2> QED BY <1>1, <2>1, <2>2, <2>3
<1>11. ArrayOf(slot', n, n)
  BY <1>8, <1>10 DEF ArrayOf
<1>12. /\ exists' \in [0 .. n - 1 -> BOOLEAN]
       /\ \A i \in 0 .. n - 1 :
            exists'[i] <=> sparse /\ (i >= size \/ (i \in 0 .. domain - 1 /\ exists[i]))
  BY <1>1, <1>3 DEF Flags, FlagsResized
<1>13. SlotsOf(slot', exists', n, n)
  BY <1>11, <1>12 DEF SlotsOf
<1>14. \A i : i \in KnownIn(exists', n, n) <=> i \in 0 .. n - 1 /\ (i \in K \/ i >= size)
  BY <1>1, <1>12 DEF KnownIn, SlotsOf
<1>15. \A i : i \in HeldIn(slot', n) =>  i \in 0 .. n - 1 /\ (i \in K \/ i >= size)
  BY <1>1, <1>9 DEF HeldIn
<1>16. buffer = 0 => \A i \in 0 .. n - 1 : i \in K \/ i >= size => i \in HeldIn(slot', n)
  BY <1>1, <1>5, <1>7, ObjectsAssumption DEF HeldIn
<1>17. buffer = 0 => KnownIn(exists', n, n) = HeldIn(slot', n)
  BY <1>14, <1>15, <1>16
<1>18. KnownIn(exists', n, n) = HeldIn(slot', n) =>
         \A i \in 0 .. n - 1 : i < size => slot'[i] = slot[i]
  <2> SUFFICES ASSUME KnownIn(exists', n, n) = HeldIn(slot', n), NEW i \in 0 .. n - 1, i < size
               PROVE  slot'[i] = slot[i]
    OBVIOUS
  <2>1. CASE i \in K
    BY <1>9, <1>14, <2>1 DEF HeldIn
  <2>2. CASE i \notin K
    BY <1>1, <1>9, <2>2 DEF HeldIn
  <2> QED BY <2>1, <2>2
<1>19. domain' = n /\ size' = n
  BY <1>3
<1> QED BY <1>13, <1>17, <1>18, <1>19

\* pop_back() of a dense array.
LEMMA DynamicPop ==
  ASSUME ArrayRuns, PopBack
  PROVE  /\ SlotsOf(slot', exists', domain', size')
         /\ KnownIn(exists', domain', size') = HeldIn(slot', domain')
<1>1. /\ SlotsOf(slot, exists, domain, size)
      /\ domain \in Nat /\ size \in 0 .. domain
      /\ slot \in [0 .. domain - 1 -> Objects \cup {Raw}]
      /\ KnownIn(exists, domain, size) = HeldIn(slot, domain)
  BY DynamicHas
<1>2. /\ ~sparse /\ size > 0 /\ slot' = [slot EXCEPT ![size - 1] = Raw] /\ size' = size - 1
      /\ domain' = domain /\ exists' = exists
  BY DEF PopBack
<1>3. ArrayOf(slot', domain, size - 1)
  BY <1>1, <1>2 DEF SlotsOf, ArrayOf
<1>4. SlotsOf(slot', exists', domain', size')
  BY <1>1, <1>2, <1>3 DEF SlotsOf
<1>5. \A i \in 0 .. domain - 1 : slot'[i] # Raw <=> i < size - 1
  BY <1>1, <1>2 DEF KnownIn, HeldIn
<1> QED BY <1>2, <1>4, <1>5 DEF KnownIn, HeldIn

\* Constructing an element of a sparse array.
LEMMA DynamicConstruct ==
  ASSUME ArrayRuns, NEW i \in 0 .. size - 1, NEW o \in Objects, Construct(i, o)
  PROVE  /\ SlotsOf(slot', exists', domain', size')
         /\ KnownIn(exists', domain', size') = HeldIn(slot', domain')
         /\ size' = size /\ slot'[i] = o /\ o \notin Held
         /\ HeldIn(slot', domain') = KnownSlots \cup {i} /\ i \notin KnownSlots
         /\ \A j \in KnownSlots : slot'[j] = slot[j]
<1> DEFINE K == KnownSlots
<1>1. /\ SlotsOf(slot, exists, domain, size)
      /\ domain \in Nat /\ size \in 0 .. domain
      /\ slot \in [0 .. domain - 1 -> Objects \cup {Raw}]
      /\ K = KnownIn(exists, domain, size) /\ K = HeldIn(slot, domain)
      /\ Held = {slot[j] : j \in K}
  BY DynamicHas
<1>2. /\ sparse /\ ~exists[i] /\ o \notin Held
      /\ slot' = [slot EXCEPT ![i] = o] /\ exists' = [exists EXCEPT ![i] = TRUE]
      /\ size' = size /\ domain' = domain
  BY DEF Construct
<1>3. i \in 0 .. domain - 1 /\ i < size
  BY <1>1
<1> HIDE DEF K
<1>4. \A j \in 0 .. domain - 1 : slot[j] # o
  BY <1>1, <1>2, ObjectsAssumption DEF HeldIn
<1>5. ArrayOf(slot', domain, size)
  BY <1>1, <1>2, <1>3, <1>4 DEF SlotsOf, ArrayOf
<1>6. /\ exists' \in [0 .. domain - 1 -> BOOLEAN]
      /\ \A j \in 0 .. domain - 1 : exists'[j] <=> j = i \/ exists[j]
  BY <1>1, <1>2, <1>3 DEF SlotsOf
<1>7. \A j \in 0 .. domain - 1 : exists'[j] => sparse /\ j < size
  BY <1>1, <1>2, <1>3, <1>6 DEF SlotsOf
<1>8. SlotsOf(slot', exists', domain, size)
  BY <1>5, <1>6, <1>7 DEF SlotsOf
<1>9. i \notin K
  BY <1>1, <1>2 DEF KnownIn
<1>10. \A j : j \in KnownIn(exists', domain, size) <=> j \in K \/ j = i
  BY <1>1, <1>2, <1>3, <1>6 DEF KnownIn
<1>11. \A j : j \in HeldIn(slot', domain) <=> j \in K \/ j = i
  BY <1>1, <1>2, <1>3, ObjectsAssumption DEF HeldIn
<1>12. KnownIn(exists', domain, size) = K \cup {i} /\ HeldIn(slot', domain) = K \cup {i}
  BY <1>10, <1>11
<1>13. slot'[i] = o /\ \A j \in K : slot'[j] = slot[j]
  BY <1>1, <1>2, <1>3, <1>9 DEF HeldIn
<1>14. size' = size /\ domain' = domain
  BY <1>2
<1> QED BY <1>2, <1>8, <1>9, <1>12, <1>13, <1>14 DEF K

\* Destructing one, of a sparse array.
LEMMA DynamicDestruct ==
  ASSUME ArrayRuns, NEW i \in 0 .. size - 1, Destruct(i)
  PROVE  /\ SlotsOf(slot', exists', domain', size')
         /\ KnownIn(exists', domain', size') = HeldIn(slot', domain')
         /\ size' = size /\ i \in KnownSlots
         /\ HeldIn(slot', domain') = KnownSlots \ {i}
         /\ \A j \in KnownSlots \ {i} : slot'[j] = slot[j]
<1> DEFINE K == KnownSlots
<1>1. /\ SlotsOf(slot, exists, domain, size)
      /\ domain \in Nat /\ size \in 0 .. domain
      /\ slot \in [0 .. domain - 1 -> Objects \cup {Raw}]
      /\ K = KnownIn(exists, domain, size) /\ K = HeldIn(slot, domain)
  BY DynamicHas
<1>2. /\ sparse /\ exists[i]
      /\ slot' = [slot EXCEPT ![i] = Raw] /\ exists' = [exists EXCEPT ![i] = FALSE]
      /\ size' = size /\ domain' = domain
  BY DEF Destruct
<1>3. i \in 0 .. domain - 1 /\ i < size
  BY <1>1
<1> HIDE DEF K
<1>5. ArrayOf(slot', domain, size)
  BY <1>1, <1>2, <1>3 DEF SlotsOf, ArrayOf
<1>6. /\ exists' \in [0 .. domain - 1 -> BOOLEAN]
      /\ \A j \in 0 .. domain - 1 : exists'[j] <=> j # i /\ exists[j]
  BY <1>1, <1>2, <1>3 DEF SlotsOf
<1>7. \A j \in 0 .. domain - 1 : exists'[j] => sparse /\ j < size
  BY <1>1, <1>2, <1>3, <1>6 DEF SlotsOf
<1>8. SlotsOf(slot', exists', domain, size)
  BY <1>5, <1>6, <1>7 DEF SlotsOf
<1>9. i \in K
  BY <1>1, <1>2, <1>3 DEF KnownIn
<1>10. \A j : j \in KnownIn(exists', domain, size) <=> j \in K /\ j # i
  BY <1>1, <1>2, <1>3, <1>6 DEF KnownIn
<1>11. \A j : j \in HeldIn(slot', domain) <=> j \in K /\ j # i
  BY <1>1, <1>2, <1>3 DEF HeldIn
<1>12. KnownIn(exists', domain, size) = K \ {i} /\ HeldIn(slot', domain) = K \ {i}
  BY <1>10, <1>11
<1>13. \A j \in K \ {i} : slot'[j] = slot[j]
  BY <1>1, <1>2, <1>3 DEF HeldIn
<1>14. size' = size /\ domain' = domain
  BY <1>2
<1> QED BY <1>8, <1>9, <1>12, <1>13, <1>14 DEF K

\* An array that has been moved from is empty.
LEMMA DynamicMove ==
  ASSUME ArrayRuns, MoveFrom
  PROVE  /\ SlotsOf(slot', exists', domain', size')
         /\ KnownIn(exists', domain', size') = HeldIn(slot', domain')
<1>1. domain' = 0 /\ size' = 0 /\ slot' = <<>> /\ exists' = <<>>
  BY DEF MoveFrom
<1>2. <<>> \in [0 .. 0 - 1 -> Objects \cup {Raw}] /\ <<>> \in [0 .. 0 - 1 -> BOOLEAN]
  OBVIOUS
<1>3. ArrayOf(slot', 0, 0)
  BY <1>1, <1>2 DEF ArrayOf
<1> QED BY <1>1, <1>2, <1>3 DEF SlotsOf, KnownIn, HeldIn

----------------------------------------------------------------------------
(* compact() *)

\* A set of naturals has a least element.
LEMMA Least ==
  ASSUME NEW T, T \subseteq Nat, T # {}
  PROVE  \E n \in T : \A m \in T : n <= m
<1>1. PICK n \in T : \A m \in T : ~(<<m, n>> \in OpToRel(<, Nat))
  BY NatLessThanWellFounded, WFMin
<1>2. \A m \in T : ~(m < n)
  BY <1>1 DEF OpToRel
<1> QED BY <1>2

\* Induction up to n: what has 0, and with each number the next, has all.
LEMMA UpTo ==
  ASSUME NEW n \in Nat, NEW T, 0 \in T, \A i \in 0 .. n - 1 : i \in T => i + 1 \in T
  PROVE  0 .. n \subseteq T
<1> DEFINE U == {i \in 0 .. n : i \notin T}
<1>1. SUFFICES ASSUME U # {} PROVE FALSE
  OBVIOUS
<1>2. U \subseteq Nat
  OBVIOUS
<1>3. PICK u \in U : \A m \in U : u <= m
  <2> HIDE DEF U
  <2> QED BY <1>1, <1>2, Least
<1>4. u # 0 /\ u - 1 \in 0 .. n - 1 /\ u - 1 \notin U
  BY <1>3
<1> QED BY <1>3, <1>4

FirstTurn == [target |-> 0, slot |-> slot, failed |-> FALSE]

IsTurns(g, m) == g = [i \in 0 .. m |-> IF i = 0 THEN FirstTurn ELSE CompactTurn(g[i - 1], i - 1)]

\* The turns of the loop exist, as many as there are.
LEMMA TurnsExist ==
  ASSUME domain \in Nat
  PROVE  IsTurns(AfterTurns, domain)
<1> DEFINE T == {m \in 0 .. domain : \E g : IsTurns(g, m)}
<1>1. 0 \in T
  <2> DEFINE g == [i \in 0 .. 0 |-> FirstTurn]
  <2>1. IsTurns(g, 0)
    BY DEF IsTurns
  <2> QED BY <2>1
<1>2. ASSUME NEW m \in 0 .. domain - 1, m \in T PROVE m + 1 \in T
  <2>1. PICK g : IsTurns(g, m)
    BY <1>2
  <2> DEFINE h == [i \in 0 .. m + 1 |-> IF i <= m THEN g[i] ELSE CompactTurn(g[m], m)]
  <2>2. ASSUME NEW i \in 0 .. m + 1
        PROVE  h[i] = IF i = 0 THEN FirstTurn ELSE CompactTurn(h[i - 1], i - 1)
    <3>1. CASE i = 0
      <4>1. h[i] = g[0] /\ 0 \in 0 .. m
        BY <3>1
      <4>2. g[0] = FirstTurn
        BY <2>1, <4>1 DEF IsTurns
      <4> QED BY <3>1, <4>1, <4>2
    <3>2. CASE i # 0 /\ i <= m
      <4>1. h[i] = g[i] /\ h[i - 1] = g[i - 1] /\ i \in 0 .. m
        BY <3>2
      <4>2. g[i] = CompactTurn(g[i - 1], i - 1)
        BY <2>1, <3>2, <4>1 DEF IsTurns
      <4> QED BY <3>2, <4>1, <4>2
    <3>3. CASE i = m + 1
      <4>1. h[i] = CompactTurn(g[m], m) /\ h[i - 1] = g[m] /\ i - 1 = m /\ i # 0
        BY <3>3
      <4> QED BY <4>1
    <3> QED BY <3>1, <3>2, <3>3
  <2>3. h = [i \in 0 .. m + 1 |-> h[i]]
    OBVIOUS
  <2>4. IsTurns(h, m + 1)
    <3> HIDE DEF h
    <3> QED BY <2>2, <2>3 DEF IsTurns
  <2> HIDE DEF h
  <2> QED BY <1>2, <2>4
<1>3. domain \in T
  <2> HIDE DEF T
  <2>1. 0 .. domain \subseteq T
    BY <1>1, <1>2, UpTo
  <2> QED BY <2>1
<1>4. \E g : IsTurns(g, domain)
  BY <1>3
<1> QED BY <1>4 DEF AfterTurns, IsTurns, FirstTurn

Turns == [target : Nat, slot : [0 .. domain - 1 -> Objects \cup {Raw}], failed : BOOLEAN]

\* Before turn i, the first slots are full, up to the target, and those from i on are
\* as they were.
TurnInv(r, i) ==
  /\ r \in Turns
  /\ ~r.failed =>
       /\ r.target <= i
       /\ \A j \in 0 .. r.target - 1 : r.slot[j] # Raw
       /\ \A j \in i .. domain - 1 : r.slot[j] = slot[j]
       /\ \A j, k \in 0 .. domain - 1 : j # k /\ r.slot[j] = r.slot[k] => r.slot[j] = Raw

\* A turn keeps that.
LEMMA TurnKeeps ==
  ASSUME domain \in Nat, slot \in [0 .. domain - 1 -> Objects \cup {Raw}],
         NEW i \in 0 .. domain - 1, NEW r, TurnInv(r, i)
  PROVE  TurnInv(CompactTurn(r, i), i + 1)
<1> DEFINE t == r.target
           s == r.slot
           q == CompactTurn(r, i)
<1>1. /\ r \in Turns /\ t \in Nat /\ s \in [0 .. domain - 1 -> Objects \cup {Raw}]
      /\ r.failed \in BOOLEAN
  BY DEF TurnInv, Turns
<1>2. CASE r.failed
  BY <1>1, <1>2 DEF CompactTurn, TurnInv
<1>3. CASE ~r.failed
  <2>1. /\ t <= i
        /\ \A j \in 0 .. t - 1 : s[j] # Raw
        /\ \A j \in i .. domain - 1 : s[j] = slot[j]
        /\ \A j, k \in 0 .. domain - 1 : j # k /\ s[j] = s[k] => s[j] = Raw
    BY <1>3 DEF TurnInv
  <2>2. CASE s[i] = Raw \/ t = i
    <3>1. q = r
      BY <2>2 DEF CompactTurn
    <3> QED BY <1>1, <1>3, <2>1, <3>1 DEF TurnInv
  <2>3. CASE s[i] # Raw /\ t # i /\ s[t] # Raw
    <3>1. q = [r EXCEPT !.failed = TRUE]
      BY <1>3, <2>3 DEF CompactTurn
    <3> HIDE DEF q
    <3>2. q \in Turns /\ q.failed
      BY <1>1, <3>1 DEF Turns
    <3> QED BY <3>2 DEF TurnInv, q
  <2>4. CASE s[i] # Raw /\ t # i /\ s[t] = Raw
    <3> DEFINE z == [s EXCEPT ![t] = slot[i], ![i] = Raw]
               u == t + 1
    <3>1. q = [r EXCEPT !.slot = z, !.target = u]
      BY <1>3, <2>4 DEF CompactTurn
    <3>2. /\ z \in [0 .. domain - 1 -> Objects \cup {Raw}]
          /\ \A j \in 0 .. domain - 1 :
               z[j] = IF j = i THEN Raw ELSE IF j = t THEN s[i] ELSE s[j]
      <4>1. s[i] = slot[i] /\ t \in 0 .. domain - 1 /\ t # i /\ s[i] \in Objects \cup {Raw}
        BY <1>1, <2>1, <2>4
      <4>2. z = [s EXCEPT ![t] = s[i], ![i] = Raw]
        BY <4>1
      <4> HIDE DEF s, t, z
      <4> QED BY <1>1, <4>1, <4>2
    <3>3. /\ u \in Nat /\ u <= i + 1 /\ t \in 0 .. domain - 1 /\ t < i
      BY <1>1, <2>1, <2>4
    <3>4. \A j \in 0 .. t : z[j] # Raw
      BY <1>1, <2>1, <2>4, <3>2, <3>3
    <3>5. \A j \in i + 1 .. domain - 1 : z[j] = slot[j]
      BY <2>1, <3>2, <3>3
    <3>6. \A j, k \in 0 .. domain - 1 : j # k /\ z[j] = z[k] => z[j] = Raw
      BY <2>1, <3>2, <3>3
    <3>7. 0 .. u - 1 = 0 .. t
      BY <1>1
    <3> HIDE DEF z, u, q
    <3>8. q \in Turns /\ q.slot = z /\ q.target = u
      BY <1>1, <3>1, <3>2, <3>3 DEF Turns
    <3> QED BY <3>3, <3>4, <3>5, <3>6, <3>7, <3>8 DEF TurnInv, q
  <2> QED BY <2>2, <2>3, <2>4
<1> QED BY <1>1, <1>2, <1>3

\* After the loop the first slots are full, up to the target.
LEMMA CompactedIs ==
  ASSUME ArrayRuns
  PROVE  TurnInv(Compacted, domain)
<1>1. /\ domain \in Nat /\ slot \in [0 .. domain - 1 -> Objects \cup {Raw}]
      /\ ArrayOf(slot, domain, size)
  BY DynamicHas DEF SlotsOf
<1>2. /\ AfterTurns[0] = FirstTurn
      /\ \A i \in 0 .. domain - 1 : AfterTurns[i + 1] = CompactTurn(AfterTurns[i], i)
  <2>1. IsTurns(AfterTurns, domain)
    BY <1>1, TurnsExist
  <2>2. \A i \in 0 .. domain :
          AfterTurns[i] = IF i = 0 THEN FirstTurn ELSE CompactTurn(AfterTurns[i - 1], i - 1)
    BY <2>1 DEF IsTurns
  <2>3. ASSUME NEW i \in 0 .. domain - 1 PROVE AfterTurns[i + 1] = CompactTurn(AfterTurns[i], i)
    <3>1. i + 1 \in 0 .. domain /\ i + 1 # 0 /\ (i + 1) - 1 = i
      BY <1>1
    <3> QED BY <2>2, <3>1
  <2> QED BY <1>1, <2>2, <2>3
<1> DEFINE T == {i \in 0 .. domain : TurnInv(AfterTurns[i], i)}
<1>3. 0 \in T
  <2>1. TurnInv(FirstTurn, 0)
    BY <1>1 DEF TurnInv, FirstTurn, Turns, ArrayOf
  <2> QED BY <1>1, <1>2, <2>1
<1>4. \A i \in 0 .. domain - 1 : i \in T => i + 1 \in T
  BY <1>1, <1>2, TurnKeeps
<1>5. domain \in T
  <2> HIDE DEF T
  <2>1. 0 .. domain \subseteq T
    BY <1>1, <1>3, <1>4, UpTo
  <2> QED BY <1>1, <2>1
<1> QED BY <1>5 DEF Compacted

\* compact() leaves an array that is full, of elements that it knows.
LEMMA DynamicCompact ==
  ASSUME ArrayRuns, Compact
  PROVE  /\ SlotsOf(slot', exists', domain', size')
         /\ KnownIn(exists', domain', size') = HeldIn(slot', domain')
<1> DEFINE r == Compacted
           n == r.target
<1>1. TurnInv(r, domain) /\ ~r.failed /\ domain \in Nat
  BY CompactedIs, DynamicHas DEF Compact
<1>2. /\ sparse /\ domain' = n /\ size' = n
      /\ slot' = [i \in 0 .. n - 1 |-> r.slot[i]] /\ exists' = [i \in 0 .. n - 1 |-> TRUE]
  BY DEF Compact
<1> HIDE DEF r
<1>3. /\ n \in Nat /\ n <= domain /\ r.slot \in [0 .. domain - 1 -> Objects \cup {Raw}]
      /\ \A j \in 0 .. n - 1 : r.slot[j] # Raw
      /\ \A j, k \in 0 .. domain - 1 : j # k /\ r.slot[j] = r.slot[k] => r.slot[j] = Raw
  BY <1>1 DEF TurnInv, Turns
<1> HIDE DEF n
<1>4. ArrayOf(slot', n, n)
  <2>1. slot' \in [0 .. n - 1 -> Objects \cup {Raw}]
    BY <1>1, <1>2, <1>3
  <2>2. \A j, k \in 0 .. n - 1 : j # k /\ slot'[j] = slot'[k] => slot'[j] = Raw
    BY <1>1, <1>2, <1>3
  <2> QED BY <1>3, <2>1, <2>2 DEF ArrayOf
<1>5. SlotsOf(slot', exists', n, n)
  BY <1>2, <1>3, <1>4 DEF SlotsOf
<1>6. KnownIn(exists', n, n) = HeldIn(slot', n)
  BY <1>2, <1>3 DEF KnownIn, HeldIn
<1> QED BY <1>2, <1>5, <1>6

----------------------------------------------------------------------------
(* The loop over it *)

\* What a loop is to meet are the elements behind its own.
LEMMA DynamicAhead ==
  ASSUME user = "array", ArrayRuns, DynamicLoopInv, cursor \in Nat
  PROVE  Ahead = {slot[j] : j \in {k \in KnownSlots : k > cursor}}
<1>1. /\ size \in Nat /\ size <= domain /\ domain \in Nat
      /\ KnownSlots = HeldIn(slot, domain) /\ KnownSlots \subseteq 0 .. size - 1
  BY DynamicHas
<1>2. ~Backward /\ just_erased = FALSE
  BY DEF DynamicLoopInv, Backward
<1>3. Ahead = {slot[j] : j \in cursor + 1 .. size - 1} \ {Raw}
  BY <1>2 DEF Ahead
<1> QED BY <1>1, <1>3 DEF HeldIn

\* And so are, after a step, the elements behind where it stands then.
LEMMA DynamicAheadAfter ==
  ASSUME user = "array", ArrayRuns, DynamicLoopInv, UNCHANGED params,
         UNCHANGED unordered_vars, SlotsOf(slot', exists', domain', size'), Running',
         cursor' \in Nat
  PROVE  Ahead' = {slot'[j] : j \in {k \in HeldIn(slot', domain') : k > cursor'}}
<1>1. KnownIn(exists', domain', size') = HeldIn(slot', domain')
  BY DynamicAfter
<1>2. /\ size' \in Nat /\ size' <= domain' /\ domain' \in Nat
      /\ HeldIn(slot', domain') \subseteq 0 .. size' - 1
  <2>1. size' \in Nat /\ size' <= domain' /\ domain' \in Nat
    BY DEF SlotsOf, ArrayOf
  <2>2. \A i \in KnownIn(exists', domain', size') : i \in 0 .. domain' - 1 /\ i < size'
    BY DEF SlotsOf, KnownIn
  <2> QED BY <1>1, <2>1, <2>2
<1>3. ~Backward' /\ just_erased' = FALSE
  BY DEF DynamicLoopInv, Backward, unordered_vars
<1>4. Ahead' = {slot'[j] : j \in cursor' + 1 .. size' - 1} \ {Raw}
  BY <1>3 DEF Ahead
<1>5. \A j : j \in HeldIn(slot', domain') /\ j > cursor'
               <=> j \in cursor' + 1 .. size' - 1 /\ slot'[j] # Raw
  BY <1>2 DEF HeldIn
<1> QED BY <1>4, <1>5

\* No two slots hold the same element.
LEMMA DynamicDistinct ==
  ASSUME ArrayRuns, NEW i \in KnownSlots, NEW j \in KnownSlots, slot[i] = slot[j]
  PROVE  i = j
BY DynamicHas DEF SlotsOf, ArrayOf, HeldIn

\* The next index of K, or the end.
LEMMA NextIs ==
  ASSUME NEW n \in Nat, NEW K, K \subseteq 0 .. n - 1, NEW i \in 0 .. n - 1
  PROVE  LET j == NextOf(K, i, n)
         IN  /\ j \in i + 1 .. n /\ (j = n \/ j \in K)
             /\ \A k \in K : k > i => k >= j
<1> DEFINE T == {j \in i + 1 .. n : j = n \/ j \in K}
<1>1. T \subseteq Nat /\ n \in T
  OBVIOUS
<1>2. PICK t \in T : \A m \in T : t <= m
  <2> HIDE DEF T
  <2> QED BY <1>1, Least
<1>3. /\ t \in i + 1 .. n /\ (t = n \/ t \in K) /\ \A k \in i + 1 .. t - 1 : k \notin K
  BY <1>2
<1> DEFINE j == NextOf(K, i, n)
<1>4. /\ j \in i + 1 .. n /\ (j = n \/ j \in K) /\ \A k \in i + 1 .. j - 1 : k \notin K
  BY <1>3 DEF NextOf
<1> HIDE DEF j
<1>5. \A k \in K : k > i => k >= j
  BY <1>4
<1> QED BY <1>4, <1>5 DEF j

\* What the invariant says of a loop that is on.
LEMMA LoopHas ==
  ASSUME user = "array", ArrayRuns, DynamicLoopInv, cursor # NoCursor
  PROVE  /\ cursor \in 0 .. size - 1 /\ cursor \in Nat
         /\ visited \subseteq Held
         /\ kept \ visited \subseteq Ahead /\ Ahead \cap visited = {}
BY DynamicHas DEF ArrayRuns, DynamicLoopInv, LoopMeetsEachOnce

\* emplace_back(): the new element is the last that the loop is to meet.
LEMMA EmplaceKeeps ==
  ASSUME user = "array", ArrayRuns, DynamicLoopInv, NEW o \in Objects, EmplaceBack(o),
         UNCHANGED unordered_vars
  PROVE  StorageInv' /\ DynamicLoopInv'
<1>1. /\ Grow(o) /\ UNCHANGED <<params, aborted>> /\ cursor' = cursor /\ visited' = visited
      /\ kept' = IF cursor = NoCursor THEN {} ELSE kept \cup {o}
  BY DEF EmplaceBack, Grow
<1>2. /\ SlotsOf(slot', exists', domain', size')
      /\ KnownIn(exists', domain', size') = HeldIn(slot', domain')
      /\ size' = size + 1 /\ slot'[size] = o /\ o \notin Held
      /\ \A i \in 0 .. size - 1 : slot'[i] = slot[i]
      /\ HeldIn(slot', domain') = KnownSlots \cup {size}
  BY <1>1, DynamicGrow
<1>3. StorageInv'
  BY <1>1, <1>2, DynamicKept
<1>4. ASSUME Running', cursor # NoCursor PROVE DynamicLoopInv'
  <2> DEFINE K == KnownSlots
  <2>1. /\ size \in Nat /\ K \subseteq 0 .. size - 1 /\ Held = {slot[i] : i \in K}
    BY DynamicHas
  <2>2. /\ cursor \in 0 .. size - 1 /\ cursor \in Nat
        /\ visited \subseteq Held
        /\ kept \ visited \subseteq Ahead /\ Ahead \cap visited = {}
    BY <1>4, LoopHas
  <2>3. Ahead = {slot[j] : j \in {k \in K : k > cursor}}
    BY <2>2, DynamicAhead
  <2>4. Ahead' = {slot'[j] : j \in {k \in K \cup {size} : k > cursor}}
    BY <1>1, <1>2, <1>4, <2>2, DynamicAheadAfter
  <2>5. Held' = {slot'[i] : i \in K \cup {size}}
    BY <1>1, <1>2, <1>4, DynamicAfter
  <2> HIDE DEF K
  <2>6. \A i \in K : slot'[i] = slot[i]
    BY <1>2, <2>1
  <2>7. \A x : x \in Ahead' <=> x \in Ahead \/ x = o
    <3>1. slot'[size] = o /\ size > cursor
      BY <1>2, <2>1, <2>2
    <3>2. o \in Ahead'
      BY <2>4, <3>1
    <3>3. ASSUME NEW x \in Ahead PROVE x \in Ahead'
      <4>1. PICK j \in K : j > cursor /\ x = slot[j]
        BY <2>3, <3>3
      <4> QED BY <2>4, <2>6, <4>1
    <3>4. ASSUME NEW x \in Ahead', x # o PROVE x \in Ahead
      <4>1. PICK j \in K \cup {size} : j > cursor /\ x = slot'[j]
        BY <2>4, <3>4
      <4> QED BY <2>3, <2>6, <3>1, <3>4, <4>1
    <3> QED BY <3>2, <3>3, <3>4
  <2>8. Held \subseteq Held'
    BY <2>1, <2>5, <2>6
  <2>9. LoopMeetsEachOnce'
    BY <1>1, <1>2, <1>4, <2>2, <2>7 DEF LoopMeetsEachOnce
  <2>10. cursor' \in 0 .. size' - 1
    BY <1>1, <1>2, <2>1, <2>2
  <2> QED BY <1>1, <2>2, <2>8, <2>9, <2>10 DEF DynamicLoopInv, unordered_vars
<1>5. ASSUME ~(Running' /\ cursor # NoCursor) PROVE DynamicLoopInv'
  BY <1>1, <1>5 DEF DynamicLoopInv, unordered_vars
<1> QED BY <1>3, <1>4, <1>5

\* reserve(): the elements stay, or are lost track of.
LEMMA ReserveKeepsLoop ==
  ASSUME user = "array", ArrayRuns, DynamicLoopInv, NEW n \in Nat, Reserve(n),
         UNCHANGED unordered_vars
  PROVE  StorageInv' /\ DynamicLoopInv'
<1>1. /\ UNCHANGED <<params, size, loop, aborted>>
      /\ cursor' = cursor /\ visited' = visited /\ kept' = kept
  BY DEF Reserve, loop
<1>2. /\ SlotsOf(slot', exists', domain', size')
      /\ KnownIn(exists', domain', size') = KnownSlots
      /\ KnownIn(exists', domain', size') = HeldIn(slot', domain') =>
           \A i \in 0 .. size - 1 : slot'[i] = slot[i]
      /\ buffer = 0 => KnownIn(exists', domain', size') = HeldIn(slot', domain')
  BY DynamicReserve
<1>3. StorageInv'
  BY <1>1, <1>2, DynamicKept
<1>4. ASSUME Running', cursor # NoCursor PROVE DynamicLoopInv'
  <2> DEFINE K == KnownSlots
  <2>1. /\ size \in Nat /\ K \subseteq 0 .. size - 1 /\ Held = {slot[i] : i \in K}
    BY DynamicHas
  <2>2. /\ cursor \in 0 .. size - 1 /\ cursor \in Nat
        /\ visited \subseteq Held
        /\ kept \ visited \subseteq Ahead /\ Ahead \cap visited = {}
    BY <1>4, LoopHas
  <2>3. Ahead = {slot[j] : j \in {k \in K : k > cursor}}
    BY <2>2, DynamicAhead
  <2>4. K = HeldIn(slot', domain') /\ Held' = {slot'[i] : i \in K}
    BY <1>1, <1>2, <1>4, DynamicAfter
  <2>5. Ahead' = {slot'[j] : j \in {k \in K : k > cursor}}
    BY <1>1, <1>2, <1>4, <2>2, <2>4, DynamicAheadAfter
  <2> HIDE DEF K
  <2>6. \A i \in K : slot'[i] = slot[i]
    BY <1>2, <2>1, <2>4 DEF K
  <2>7. Ahead' = Ahead /\ Held' = Held
    BY <2>1, <2>3, <2>4, <2>5, <2>6
  <2> QED BY <1>1, <2>2, <2>7 DEF DynamicLoopInv, LoopMeetsEachOnce, unordered_vars
<1>5. ASSUME ~(Running' /\ cursor # NoCursor) PROVE DynamicLoopInv'
  BY <1>1, <1>5 DEF DynamicLoopInv, unordered_vars
<1> QED BY <1>3, <1>4, <1>5

\* An element constructed in a hole is met if it is ahead, but need not be.
LEMMA ConstructKeepsLoop ==
  ASSUME user = "array", ArrayRuns, DynamicLoopInv, NEW i \in 0 .. size - 1, NEW o \in Objects,
         Construct(i, o), UNCHANGED unordered_vars
  PROVE  StorageInv' /\ DynamicLoopInv'
<1>1. /\ UNCHANGED <<params, size, loop, aborted>>
      /\ cursor' = cursor /\ visited' = visited /\ kept' = kept
  BY DEF Construct, loop
<1>2. /\ SlotsOf(slot', exists', domain', size')
      /\ KnownIn(exists', domain', size') = HeldIn(slot', domain')
      /\ size' = size /\ slot'[i] = o /\ o \notin Held
      /\ HeldIn(slot', domain') = KnownSlots \cup {i} /\ i \notin KnownSlots
      /\ \A j \in KnownSlots : slot'[j] = slot[j]
  BY DynamicConstruct
<1>3. StorageInv'
  BY <1>1, <1>2, DynamicKept
<1>4. ASSUME Running', cursor # NoCursor PROVE DynamicLoopInv'
  <2> DEFINE K == KnownSlots
  <2>1. Held = {slot[j] : j \in K}
    BY DynamicHas
  <2>2. /\ cursor \in 0 .. size - 1 /\ cursor \in Nat
        /\ visited \subseteq Held
        /\ kept \ visited \subseteq Ahead /\ Ahead \cap visited = {}
    BY <1>4, LoopHas
  <2>3. Ahead = {slot[j] : j \in {k \in K : k > cursor}}
    BY <2>2, DynamicAhead
  <2>4. Held' = {slot'[j] : j \in K \cup {i}}
    BY <1>1, <1>2, <1>4, DynamicAfter
  <2>5. Ahead' = {slot'[j] : j \in {k \in K \cup {i} : k > cursor}}
    BY <1>1, <1>2, <1>4, <2>2, DynamicAheadAfter
  <2>0. /\ slot'[i] = o /\ o \notin Held /\ i \notin K
        /\ \A j \in K : slot'[j] = slot[j]
    BY <1>2
  <2> HIDE DEF K
  <2>6. \A x : /\ x \in Ahead => x \in Ahead'
               /\ x \in Ahead' => x \in Ahead \/ x = o
    BY <2>0, <2>3, <2>5
  <2>7. Held \subseteq Held'
    BY <2>0, <2>1, <2>4
  <2>8. LoopMeetsEachOnce'
    BY <1>1, <2>0, <2>2, <2>6 DEF LoopMeetsEachOnce
  <2> QED BY <1>1, <2>2, <2>7, <2>8 DEF DynamicLoopInv, unordered_vars
<1>5. ASSUME ~(Running' /\ cursor # NoCursor) PROVE DynamicLoopInv'
  BY <1>1, <1>5 DEF DynamicLoopInv, unordered_vars
<1> QED BY <1>3, <1>4, <1>5

\* An element that is destructed need not be met any more.
LEMMA DestructKeepsLoop ==
  ASSUME user = "array", ArrayRuns, DynamicLoopInv, NEW i \in 0 .. size - 1, Destruct(i),
         UNCHANGED unordered_vars
  PROVE  StorageInv' /\ DynamicLoopInv'
<1>1. /\ UNCHANGED <<params, size, aborted>> /\ cursor' = cursor
      /\ visited' = visited \ {slot[i]} /\ kept' = kept \ {slot[i]}
  BY DEF Destruct
<1>2. /\ SlotsOf(slot', exists', domain', size')
      /\ KnownIn(exists', domain', size') = HeldIn(slot', domain')
      /\ size' = size /\ i \in KnownSlots
      /\ HeldIn(slot', domain') = KnownSlots \ {i}
      /\ \A j \in KnownSlots \ {i} : slot'[j] = slot[j]
  BY DynamicDestruct
<1>3. StorageInv'
  BY <1>1, <1>2, DynamicKept
<1>4. ASSUME Running', cursor # NoCursor PROVE DynamicLoopInv'
  <2> DEFINE K == KnownSlots
  <2>1. Held = {slot[j] : j \in K}
    BY DynamicHas
  <2>2. /\ cursor \in 0 .. size - 1 /\ cursor \in Nat
        /\ visited \subseteq Held
        /\ kept \ visited \subseteq Ahead /\ Ahead \cap visited = {}
    BY <1>4, LoopHas
  <2>3. Ahead = {slot[j] : j \in {k \in K : k > cursor}}
    BY <2>2, DynamicAhead
  <2>4. Held' = {slot'[j] : j \in K \ {i}}
    BY <1>1, <1>2, <1>4, DynamicAfter
  <2>5. Ahead' = {slot'[j] : j \in {k \in K \ {i} : k > cursor}}
    BY <1>1, <1>2, <1>4, <2>2, DynamicAheadAfter
  <2>0. /\ i \in K /\ \A j \in K \ {i} : slot'[j] = slot[j] /\ slot[j] # slot[i]
    BY <1>2, DynamicDistinct
  <2> HIDE DEF K
  <2>6. \A x : x \in Ahead' <=> x \in Ahead /\ x # slot[i]
    BY <2>0, <2>3, <2>5
  <2>7. Held \ {slot[i]} \subseteq Held'
    BY <2>0, <2>1, <2>4
  <2>8. LoopMeetsEachOnce'
    BY <1>1, <2>2, <2>6 DEF LoopMeetsEachOnce
  <2> QED BY <1>1, <2>2, <2>7, <2>8 DEF DynamicLoopInv, unordered_vars
<1>5. ASSUME ~(Running' /\ cursor # NoCursor) PROVE DynamicLoopInv'
  BY <1>1, <1>5 DEF DynamicLoopInv, unordered_vars
<1> QED BY <1>3, <1>4, <1>5

\* A loop begins at the first element, and is to meet all.
LEMMA LoopBeginKeeps ==
  ASSUME user = "array", ArrayRuns, DynamicLoopInv, LoopBegin, UNCHANGED unordered_vars
  PROVE  StorageInv' /\ DynamicLoopInv'
<1> DEFINE K == KnownSlots
<1>1. /\ size # 0 /\ cursor' = (IF Known(0) THEN 0 ELSE NextIndex(0)) /\ cursor' # size
      /\ visited' = {slot[cursor']} /\ kept' = Held
      /\ UNCHANGED <<params, domain, slot, exists, size, aborted>>
  <2>1. /\ cursor' = (IF size = 0 THEN NoCursor
                      ELSE LET first == IF Known(0) THEN 0 ELSE NextIndex(0)
                           IN  IF first = size THEN NoCursor ELSE first)
        /\ cursor' # NoCursor
    BY DEF LoopBegin
  <2> QED BY <2>1 DEF LoopBegin
<1>2. /\ size \in Nat /\ size <= domain /\ domain \in Nat /\ DOMAIN slot = 0 .. domain - 1
      /\ SlotsOf(slot, exists, domain, size)
      /\ K = KnownIn(exists, domain, size) /\ K = HeldIn(slot, domain) /\ K \subseteq 0 .. size - 1
      /\ Held = {slot[i] : i \in K}
  BY DynamicHas
<1>3. /\ Known(0) <=> 0 \in K
      /\ NextIndex(0) = NextOf(K, 0, size)
  BY <1>1, <1>2 DEF NextIndex, KnownSlots
<1>4. /\ SlotsOf(slot', exists', domain', size')
      /\ KnownIn(exists', domain', size') = HeldIn(slot', domain')
      /\ HeldIn(slot', domain') = K
  BY <1>1, <1>2
<1> HIDE DEF K
<1>5. cursor' \in K /\ \A k \in K : k >= cursor'
  <2>1. CASE 0 \in K
    BY <1>1, <1>2, <1>3, <2>1
  <2>2. CASE 0 \notin K
    <3>1. 0 \in 0 .. size - 1
      BY <1>1, <1>2
    <3> DEFINE j == NextOf(K, 0, size)
    <3>2. j \in 1 .. size /\ (j = size \/ j \in K) /\ \A k \in K : k > 0 => k >= j
      BY <1>2, <3>1, NextIs
    <3>3. cursor' = j
      BY <1>1, <1>3, <2>2
    <3> HIDE DEF j
    <3>4. \A k \in K : k > 0
      BY <1>2, <2>2
    <3> QED BY <1>1, <3>2, <3>3, <3>4
  <2> QED BY <2>1, <2>2
<1>6. StorageInv'
  BY <1>1, <1>4, DynamicKept
<1>7. view' = "forward" /\ just_erased' = FALSE
  BY DEF DynamicLoopInv, unordered_vars
<1>8. ASSUME Running' PROVE DynamicLoopInv'
  <2>1. cursor' \in 0 .. size - 1 /\ cursor' \in Nat
    BY <1>2, <1>5
  <2>2. Ahead' = {slot'[j] : j \in {k \in K : k > cursor'}}
    BY <1>1, <1>4, <1>8, <2>1, DynamicAheadAfter
  <2>3. Held' = Held
    BY <1>1 DEF Held
  <2>4. \A k \in K : slot[k] = slot[cursor'] => k = cursor'
    BY <1>5, DynamicDistinct DEF K
  <2>5. Held \ {slot[cursor']} \subseteq Ahead'
    BY <1>1, <1>2, <1>5, <2>1, <2>2
  <2>6. slot[cursor'] \notin Ahead'
    BY <1>1, <2>1, <2>2, <2>4
  <2>7. LoopMeetsEachOnce'
    BY <1>1, <2>5, <2>6 DEF LoopMeetsEachOnce
  <2>8. visited' \subseteq Held'
    BY <1>1, <1>2, <1>5, <2>3
  <2> QED BY <1>1, <1>7, <2>1, <2>7, <2>8 DEF DynamicLoopInv
<1>9. ASSUME ~Running' PROVE DynamicLoopInv'
  BY <1>7, <1>9 DEF DynamicLoopInv
<1> QED BY <1>6, <1>8, <1>9

\* ++ visits the first element of those to meet.
LEMMA LoopStepKeeps ==
  ASSUME user = "array", ArrayRuns, DynamicLoopInv, LoopStep, UNCHANGED unordered_vars
  PROVE  StorageInv' /\ DynamicLoopInv'
<1> DEFINE K == KnownSlots
<1>1. /\ cursor # NoCursor /\ cursor' = NextIndex(cursor) /\ cursor' # size
      /\ visited' = visited \cup {slot[cursor']} /\ kept' = kept
      /\ UNCHANGED <<params, domain, slot, exists, size, aborted>>
  BY DEF LoopStep
<1>2. /\ size \in Nat /\ size <= domain /\ domain \in Nat /\ DOMAIN slot = 0 .. domain - 1
      /\ SlotsOf(slot, exists, domain, size)
      /\ K = KnownIn(exists, domain, size) /\ K = HeldIn(slot, domain) /\ K \subseteq 0 .. size - 1
      /\ Held = {slot[i] : i \in K}
  BY DynamicHas
<1>3. /\ cursor \in 0 .. size - 1 /\ cursor \in Nat
      /\ visited \subseteq Held
      /\ kept \ visited \subseteq Ahead /\ Ahead \cap visited = {}
  BY <1>1, LoopHas
<1>4. /\ SlotsOf(slot', exists', domain', size')
      /\ KnownIn(exists', domain', size') = HeldIn(slot', domain')
      /\ HeldIn(slot', domain') = K
  BY <1>1, <1>2
<1>5. NextIndex(cursor) = NextOf(K, cursor, size)
  BY DEF NextIndex, KnownSlots
<1>6. Ahead = {slot[j] : j \in {k \in K : k > cursor}}
  BY <1>3, DynamicAhead
<1> HIDE DEF K
<1>7. cursor' \in K /\ cursor' > cursor /\ \A k \in K : k > cursor => k >= cursor'
  <2> DEFINE j == NextOf(K, cursor, size)
  <2>1. /\ j \in cursor + 1 .. size /\ (j = size \/ j \in K)
        /\ \A k \in K : k > cursor => k >= j
    BY <1>2, <1>3, NextIs
  <2>2. cursor' = j
    BY <1>1, <1>5
  <2> HIDE DEF j
  <2> QED BY <1>1, <1>3, <2>1, <2>2
<1>8. StorageInv'
  BY <1>1, <1>4, DynamicKept
<1>9. view' = "forward" /\ just_erased' = FALSE
  BY DEF DynamicLoopInv, unordered_vars
<1>10. ASSUME Running' PROVE DynamicLoopInv'
  <2>1. cursor' \in 0 .. size - 1 /\ cursor' \in Nat
    BY <1>2, <1>7
  <2>2. Ahead' = {slot'[j] : j \in {k \in K : k > cursor'}}
    BY <1>1, <1>4, <1>10, <2>1, DynamicAheadAfter
  <2>3. Held' = Held
    BY <1>1 DEF Held
  <2>4. \A k \in K : slot[k] = slot[cursor'] => k = cursor'
    BY <1>7, DynamicDistinct DEF K
  <2>5. Ahead' = Ahead \ {slot[cursor']}
    <3>1. \A k \in K : k > cursor' <=> k > cursor /\ k # cursor'
      BY <1>2, <1>3, <1>7
    <3>2. Ahead' = {slot[j] : j \in {k \in K : k > cursor /\ k # cursor'}}
      BY <1>1, <2>2, <3>1
    <3> QED BY <1>6, <2>4, <3>2
  <2>6. LoopMeetsEachOnce'
    BY <1>1, <1>3, <2>5 DEF LoopMeetsEachOnce
  <2>7. visited' \subseteq Held'
    BY <1>1, <1>2, <1>3, <1>7, <2>3
  <2> QED BY <1>1, <1>9, <2>1, <2>6, <2>7 DEF DynamicLoopInv
<1>11. ASSUME ~Running' PROVE DynamicLoopInv'
  BY <1>9, <1>11 DEF DynamicLoopInv
<1> QED BY <1>8, <1>10, <1>11

----------------------------------------------------------------------------
(* All its steps *)

\* A step after which there is no loop.
LEMMA NoLoopAfter ==
  ASSUME user = "array", DynamicLoopInv, UNCHANGED unordered_vars, cursor' = NoCursor
  PROVE  DynamicLoopInv'
BY DEF DynamicLoopInv, unordered_vars

\* Each operation keeps both.
LEMMA DynamicNext ==
  ASSUME user = "array", StorageInv, DynamicLoopInv, Next, UNCHANGED unordered_vars
  PROVE  StorageInv' /\ DynamicLoopInv'
<1>1. ArrayRuns /\ UNCHANGED params
  BY DEF Next, EmplaceBack, Grow, Construct, Destruct, PopBack, Resize, ResizeAborts,
     Reserve, MoveFrom, Compact, CompactAborts, LoopBegin, LoopStep, LoopEnd, ArrayRuns
<1>2. \A n \in 0 .. MaxSize : n \in Nat
  BY SizesAssumption
<1>3. CASE \E o \in Objects : EmplaceBack(o)
  BY <1>1, <1>3, EmplaceKeeps
<1>4. CASE \E o \in Objects, i \in 0 .. size - 1 : Construct(i, o)
  BY <1>1, <1>4, ConstructKeepsLoop
<1>5. CASE \E i \in 0 .. size - 1 : Destruct(i)
  BY <1>1, <1>5, DestructKeepsLoop
<1>6. CASE PopBack
  <2>1. cursor' = NoCursor
    BY <1>6 DEF PopBack, loop
  <2> QED BY <1>1, <1>6, <2>1, DynamicPop, DynamicKept, NoLoopAfter
<1>7. CASE \E n \in 0 .. MaxSize : Resize(n)
  <2>1. PICK n \in 0 .. MaxSize : Resize(n)
    BY <1>7
  <2>2. cursor' = NoCursor
    BY <2>1 DEF Resize, loop
  <2> QED BY <1>1, <1>2, <2>1, <2>2, DynamicResize, DynamicKept, NoLoopAfter
<1>8. CASE (\E n \in 0 .. MaxSize : ResizeAborts(n)) \/ CompactAborts
  <2>1. /\ UNCHANGED <<domain, slot, exists, size>> /\ cursor' = NoCursor /\ aborted'
    BY <1>8 DEF ResizeAborts, CompactAborts, loop
  <2>2. SlotsOf(slot', exists', domain', size')
    BY <1>1, <2>1, DynamicHas
  <2> QED BY <1>1, <2>1, <2>2, DynamicKept, NoLoopAfter
<1>9. CASE \E n \in 0 .. MaxSize : Reserve(n)
  BY <1>1, <1>2, <1>9, ReserveKeepsLoop
<1>10. CASE MoveFrom
  <2>1. cursor' = NoCursor
    BY <1>10 DEF MoveFrom, loop
  <2> QED BY <1>1, <1>10, <2>1, DynamicMove, DynamicKept, NoLoopAfter
<1>11. CASE Compact
  <2>1. cursor' = NoCursor
    BY <1>11 DEF Compact, loop
  <2> QED BY <1>1, <1>11, <2>1, DynamicCompact, DynamicKept, NoLoopAfter
<1>12. CASE LoopBegin
  BY <1>1, <1>12, LoopBeginKeeps
<1>13. CASE LoopStep
  BY <1>1, <1>13, LoopStepKeeps
<1>14. CASE LoopEnd
  <2>1. UNCHANGED <<domain, slot, exists, size>> /\ cursor' = NoCursor
    BY <1>14 DEF LoopEnd
  <2>2. /\ SlotsOf(slot', exists', domain', size')
        /\ KnownIn(exists', domain', size') = HeldIn(slot', domain')
    BY <1>1, <2>1, DynamicHas
  <2> QED BY <1>1, <2>1, <2>2, DynamicKept, NoLoopAfter
<1> QED BY <1>3, <1>4, <1>5, <1>6, <1>7, <1>8, <1>9, <1>10, <1>11, <1>12, <1>13, <1>14 DEF Next

\* An unordered array is a dense one all the time.
LEMMA UnorderedKeepsStorage ==
  ASSUME StorageInv, ArrayInv, LoopInv, UnorderedNext
  PROVE  StorageInv'
<1>1. ArrayRuns /\ UserOfBag /\ UNCHANGED params
  BY DEF UnorderedNext, Add, Grow, Erase, EraseCurrent, UnorderedReserve, Reserve, Begin,
     Step, UserOfBag, ArrayRuns
<1>2. \A n \in 0 .. MaxSize : n \in Nat
  BY SizesAssumption
<1>3. /\ ~sparse /\ SlotsOf(slot, exists, domain, size)
      /\ KnownIn(exists, domain, size) = HeldIn(slot, domain) /\ size \in Nat
  BY <1>1, BagHas, DynamicHas
<1>4. CASE \E o \in Objects : Add(o)
  BY <1>1, <1>4, DynamicGrow, DynamicKept DEF Add
<1>5. CASE (\E i \in 0 .. size - 1 : Erase(i)) \/ EraseCurrent
  <2>1. PICK i \in 0 .. size - 1 :
          slot' = SwapErased(i) /\ size' = size - 1 /\ UNCHANGED <<domain, exists>>
    <3>1. CASE EraseCurrent
      <4>1. cursor \in 0 .. size - 1
        BY <1>1, <1>3, <3>1 DEF EraseCurrent, LoopInv, UserOfBag
      <4> QED BY <3>1, <4>1 DEF EraseCurrent
    <3> QED BY <1>5, <3>1 DEF Erase
  <2>2. ArrayOf(slot', domain', size') /\ FullTo(slot', domain', size')
    BY <1>1, <2>1, EraseIs
  <2>3. SlotsOf(slot', exists', domain', size')
    BY <1>3, <2>1, <2>2 DEF SlotsOf
  <2>4. KnownIn(exists', domain', size') = HeldIn(slot', domain')
    BY <1>3, <2>2 DEF KnownIn, HeldIn, FullTo
  <2> QED BY <1>1, <2>3, <2>4, DynamicKept
<1>6. CASE \E n \in 0 .. MaxSize : UnorderedReserve(n)
  BY <1>1, <1>2, <1>6, DynamicReserve, DynamicKept DEF UnorderedReserve
<1>7. CASE Begin \/ Step
  <2>1. UNCHANGED <<domain, slot, exists, size>>
    BY <1>7 DEF Begin, Step
  <2> QED BY <1>1, <1>3, <2>1, DynamicKept
<1> QED BY <1>4, <1>5, <1>6, <1>7 DEF UnorderedNext


\* All that is known of arrays; a client of blocks has none.
ArraysInv ==
  /\ user \in {"blocks", "array", "unordered"}
  /\ user = "blocks" => DOMAIN slot = {}
  /\ ArrayInv /\ LoopInv
  /\ StorageInv /\ DynamicLoopInv

\* It holds at first: the elements are in front, and no loop is on.
LEMMA ArraysInvInit == ArraysInit => ArraysInv
<1> SUFFICES ASSUME ArraysInit PROVE ArraysInv
  OBVIOUS
<1>1. Init /\ buffer \in Nat /\ user \in {"blocks", "array", "unordered"}
  BY SizesAssumption DEF ArraysInit, BlockInit
<1>2. PICK new \in {f \in [0 .. size - 1 -> Objects] :
                      \A i, j \in 0 .. size - 1 : f[i] = f[j] => i = j} :
        slot = [i \in 0 .. domain - 1 |-> IF i < size THEN new[i] ELSE Raw]
  BY <1>1 DEF Init
<1>3. domain \in Nat /\ size \in 0 .. domain /\ sparse \in BOOLEAN /\ cursor = NoCursor
      /\ exists = [i \in 0 .. domain - 1 |-> sparse /\ i < size]
  BY <1>1, SizesAssumption DEF Init
<1>4. /\ new \in [0 .. size - 1 -> Objects]
      /\ \A i, j \in 0 .. size - 1 : new[i] = new[j] => i = j
      /\ \A i \in 0 .. domain - 1 : i < size => i \in 0 .. size - 1
  BY <1>2, <1>3
<1>5. ArrayOf(slot, domain, size)
  <2>1. slot \in [0 .. domain - 1 -> Objects \cup {Raw}]
    BY <1>2, <1>4
  <2>2. \A i, j \in 0 .. domain - 1 : i # j /\ slot[i] = slot[j] => slot[i] = Raw
    BY <1>2, <1>4, ObjectsAssumption
  <2> QED BY <1>3, <2>1, <2>2 DEF ArrayOf
<1>6. /\ exists \in [0 .. domain - 1 -> BOOLEAN]
      /\ \A i \in 0 .. domain - 1 : exists[i] <=> sparse /\ i < size
  BY <1>3
<1>7. SlotsOf(slot, exists, domain, size)
  BY <1>5, <1>6 DEF SlotsOf
<1>8. KnownIn(exists, domain, size) = HeldIn(slot, domain)
  <2>1. \A i \in 0 .. domain - 1 : slot[i] # Raw <=> i < size
    BY <1>2, <1>4, ObjectsAssumption
  <2> QED BY <1>6, <2>1 DEF KnownIn, HeldIn
<1>9. LifetimesMatch
  <2>1. DOMAIN slot = 0 .. domain - 1
    BY <1>2
  <2>2. KnownSlots = KnownIn(exists, domain, size)
    BY <2>1 DEF KnownSlots, Known, KnownIn
  <2> QED BY <1>8, <2>1, <2>2 DEF LifetimesMatch, HeldIn
<1>10. StorageInv
  BY <1>1, <1>3, <1>7, <1>9 DEF StorageInv, HeapLifetimesMatch
<1>11. user = "blocks" => DOMAIN slot = {}
  <2>1. user = "blocks" => domain = 0
    BY DEF ArraysInit
  <2> QED BY <1>2, <2>1
<1>12. DynamicLoopInv
  BY <1>3 DEF ArraysInit, DynamicLoopInv
<1> QED BY <1>1, <1>10, <1>11, <1>12, BagInit DEF ArraysInv

\* A step of a client of blocks changes no array.
LEMMA BlocksLeaveArrays ==
  ASSUME BlockNext, UNCHANGED <<array_vars, unordered_vars>>
  PROVE  user = "blocks" /\ user' = user /\ slot' = slot
BY DEF BlockNext, BlockConstruct, BlockDestruct, ConstructAll, BlockResize, BlockCompact,
   BlockRenew, EndSearchFails, BlockCopy, BlockMove, BlocksRunning, Becomes, Abort, array_vars

\* Every step keeps it.
LEMMA ArraysInvNext == ArraysInv /\ [ArraysNext]_arrays_vars => ArraysInv'
<1> SUFFICES ASSUME ArraysInv, [ArraysNext]_arrays_vars PROVE ArraysInv'
  OBVIOUS
<1>1. ArrayInv' /\ LoopInv'
  BY BagNext DEF ArraysInv
<1>2. CASE user = "array" /\ Next /\ UNCHANGED unordered_vars
  <2>1. user' = user
    BY <1>2, ArraysLeaveBlocks
  <2> QED BY <1>1, <1>2, <2>1, DynamicNext DEF ArraysInv
<1>3. CASE UnorderedNext
  <2>1. user = "unordered" /\ user' = user
    BY <1>3, ArraysLeaveBlocks DEF UnorderedNext, Add, Erase, EraseCurrent,
       UnorderedReserve, Begin, Step, UserOfBag
  <2>2. StorageInv'
    BY <1>3, UnorderedKeepsStorage DEF ArraysInv
  <2> QED BY <1>1, <2>1, <2>2 DEF ArraysInv, DynamicLoopInv
<1>4. CASE BlockNext /\ UNCHANGED <<array_vars, unordered_vars>>
  <2>1. user = "blocks" /\ user' = user /\ slot' = slot
    BY <1>4, BlocksLeaveArrays
  <2> QED BY <1>1, <2>1 DEF ArraysInv, StorageInv, DynamicLoopInv
<1>5. CASE UNCHANGED arrays_vars
  <2>1. UNCHANGED <<user, sparse, buffer, domain, slot, exists, size, cursor, visited, kept,
                    aborted, view, just_erased>>
    BY <1>5 DEF arrays_vars, vars, params, loop, unordered_vars
  <2>2. LifetimesMatch' <=> LifetimesMatch
    BY <2>1 DEF LifetimesMatch, KnownSlots, Known
  <2>3. StorageInv'
    BY <2>1, <2>2 DEF ArraysInv, StorageInv, HeapLifetimesMatch, SlotsOf
  <2>4. DynamicLoopInv'
    BY <2>1, <2>2 DEF ArraysInv, DynamicLoopInv, Running, Held, LoopMeetsEachOnce, Ahead,
       Backward
  <2> QED BY <1>1, <2>1, <2>3, <2>4 DEF ArraysInv
<1> QED BY <1>2, <1>3, <1>4, <1>5 DEF ArraysNext

\* It holds in every behaviour.
LEMMA ArraysInvAlways == ArraysSpec => []ArraysInv
BY ArraysInvInit, ArraysInvNext, PTL DEF ArraysSpec

\* Without an inplace buffer an array, dense or sparse, always knows which slots hold an
\* element, whatever it grows, shrinks, constructs, destructs and compacts.
THEOREM HeapLifetimes == ArraysSpec => []HeapLifetimesMatch
<1>1. ArraysInv => HeapLifetimesMatch
  <2> SUFFICES ASSUME ArraysInv PROVE HeapLifetimesMatch
    OBVIOUS
  <2>1. CASE user = "blocks"
    BY <2>1 DEF ArraysInv, HeapLifetimesMatch, LifetimesMatch, KnownSlots
  <2>2. CASE user # "blocks"
    BY <2>2 DEF ArraysInv, StorageInv
  <2> QED BY <2>1, <2>2
<1> QED BY <1>1, ArraysInvAlways, PTL

\* A loop over an array, or in either direction over an unordered array or a view of it,
\* meets each element once that stays, whatever its body constructs, adds and erases.
THEOREM LoopsComplete == ArraysSpec => []LoopMeetsEachOnce
<1>1. ArraysInv => LoopMeetsEachOnce
  <2> SUFFICES ASSUME ArraysInv, cursor # NoCursor, Running PROVE LoopMeetsEachOnce
    BY DEF LoopMeetsEachOnce
  <2>1. user \in {"array", "unordered"}
    BY DEF ArraysInv, Running
  <2> QED BY <2>1 DEF ArraysInv, LoopInv, DynamicLoopInv
<1> QED BY <1>1, ArraysInvAlways, PTL

----------------------------------------------------------------------------
(* Elements stay in place *)

\* An array is a prefix of one that is longer and has its elements.
LEMMA PrefixIs ==
  ASSUME NEW m \in Nat, NEW n \in Nat, m <= n,
         NEW f \in [1 .. m -> Objects \cup {Raw}], NEW g \in [1 .. n -> Objects \cup {Raw}],
         \A i \in 1 .. m : f[i] = g[i]
  PROVE  IsPrefix(f, g)
<1>1. /\ f \in Seq(Objects \cup {Raw}) /\ g \in Seq(Objects \cup {Raw})
      /\ Len(f) = m /\ Len(g) = n
  OBVIOUS
<1>2. SubSeq(f, 1, m) = SubSeq(g, 1, m)
  BY <1>1
<1> QED BY <1>1, <1>2 DEF IsPrefix

\* What the array's elements are.
LEMMA ArrayIs ==
  ASSUME NEW S, size \in Nat, \A i \in 0 .. size - 1 : slot[i] \in S
  PROVE  Array \in [1 .. size -> S] /\ \A i \in 1 .. size : Array[i] = slot[i - 1]
BY DEF Array

\* And what they are after a step.
LEMMA ArrayIsAfter ==
  ASSUME NEW S, size' \in Nat, \A i \in 0 .. size' - 1 : slot'[i] \in S
  PROVE  Array' \in [1 .. size' -> S] /\ \A i \in 1 .. size' : Array'[i] = slot'[i - 1]
<1> DEFINE n == size'
           s == slot'
           A == Array'
<1>1. A = [i \in 1 .. n |-> s[i - 1]]
  BY DEF Array
<1>2. n \in Nat /\ \A i \in 0 .. n - 1 : s[i] \in S
  OBVIOUS
<1> HIDE DEF n, s, A
<1>3. \A i \in 1 .. n : i - 1 \in 0 .. n - 1
  BY <1>2
<1>4. A \in [1 .. n -> S] /\ \A i \in 1 .. n : A[i] = s[i - 1]
  BY <1>1, <1>2, <1>3
<1> QED BY <1>4 DEF n, s, A

\* A sequence with one more element.
LEMMA AppendIs ==
  ASSUME NEW n \in Nat, NEW S, NEW f \in [1 .. n -> S], NEW g \in [1 .. n + 1 -> S],
         \A i \in 1 .. n : g[i] = f[i]
  PROVE  g = Append(f, g[n + 1])
<1> DEFINE h == Append(f, g[n + 1])
<1>1. f \in Seq(S) /\ Len(f) = n /\ g[n + 1] \in S
  OBVIOUS
<1>2. h \in Seq(S) /\ Len(h) = n + 1
  BY <1>1
<1>3. \A i \in 1 .. n + 1 : h[i] = IF i <= n THEN f[i] ELSE g[n + 1]
  BY <1>1
<1>4. g \in Seq(S) /\ Len(g) = n + 1
  OBVIOUS
<1> HIDE DEF h
<1>5. h \in [1 .. n + 1 -> S]
  BY <1>2
<1>6. \A i \in 1 .. n + 1 : h[i] = g[i]
  BY <1>3
<1>7. h = g
  BY <1>5, <1>6
<1> QED BY <1>7 DEF h

\* The elements of an array that runs.
LEMMA ElementsAre ==
  ASSUME ArrayRuns
  PROVE  /\ size \in Nat
         /\ Array \in [1 .. size -> Objects \cup {Raw}]
         /\ \A i \in 1 .. size : Array[i] = slot[i - 1]
<1>1. /\ domain \in Nat /\ size \in 0 .. domain
      /\ slot \in [0 .. domain - 1 -> Objects \cup {Raw}]
  BY DynamicHas
<1>2. size \in Nat /\ \A i \in 0 .. size - 1 : slot[i] \in Objects \cup {Raw}
  BY <1>1
<1> QED BY <1>2, ArrayIs

\* And after a step that leaves its slots well formed.
LEMMA ElementsAreAfter ==
  ASSUME SlotsOf(slot', exists', domain', size')
  PROVE  /\ size' \in Nat
         /\ Array' \in [1 .. size' -> Objects \cup {Raw}]
         /\ \A i \in 1 .. size' : Array'[i] = slot'[i - 1]
<1>1. /\ domain' \in Nat /\ size' \in 0 .. domain'
      /\ slot' \in [0 .. domain' - 1 -> Objects \cup {Raw}]
  BY DEF SlotsOf, ArrayOf
<1>2. size' \in Nat /\ \A i \in 0 .. size' - 1 : slot'[i] \in Objects \cup {Raw}
  <2> DEFINE n == domain'
             m == size'
             s == slot'
  <2>1. n \in Nat /\ m \in 0 .. n /\ s \in [0 .. n - 1 -> Objects \cup {Raw}]
    BY <1>1
  <2> HIDE DEF n, m, s
  <2>2. m \in Nat /\ \A i \in 0 .. m - 1 : s[i] \in Objects \cup {Raw}
    BY <2>1
  <2> QED BY <2>2 DEF m, s
<1> QED BY <1>2, ArrayIsAfter

\* emplace_back() appends.
LEMMA EmplaceAppends ==
  ASSUME ArrayRuns, NEW o \in Objects, EmplaceBack(o)
  PROVE  Array' = Append(Array, o)
<1>1. Grow(o)
  BY DEF EmplaceBack
<1>2. /\ SlotsOf(slot', exists', domain', size')
      /\ size' = size + 1 /\ slot'[size] = o
      /\ \A i \in 0 .. size - 1 : slot'[i] = slot[i]
  BY <1>1, DynamicGrow
<1>3. /\ size \in Nat
      /\ Array \in [1 .. size -> Objects \cup {Raw}]
      /\ \A i \in 1 .. size : Array[i] = slot[i - 1]
  BY ElementsAre
<1>4. /\ Array' \in [1 .. size + 1 -> Objects \cup {Raw}]
      /\ \A i \in 1 .. size + 1 : Array'[i] = slot'[i - 1]
  BY <1>2, ElementsAreAfter
<1>5. Array'[size + 1] = o /\ \A i \in 1 .. size : Array'[i] = Array[i]
  BY <1>2, <1>3, <1>4
<1>6. Array' = Append(Array, Array'[size + 1])
  <2> DEFINE A == Array
             B == Array'
  <2>1. /\ size \in Nat /\ A \in [1 .. size -> Objects \cup {Raw}]
        /\ B \in [1 .. size + 1 -> Objects \cup {Raw}]
        /\ \A i \in 1 .. size : B[i] = A[i]
    BY <1>3, <1>4, <1>5
  <2> HIDE DEF A, B
  <2>2. B = Append(A, B[size + 1])
    BY <2>1, AppendIs
  <2> QED BY <2>2 DEF A, B
<1> QED BY <1>5, <1>6

\* reserve() keeps all.
LEMMA ReserveKeepsAll ==
  ASSUME ArrayRuns, UNCHANGED params, NEW n \in Nat, Reserve(n), buffer = 0 \/ Running'
  PROVE  Array' = Array
<1>1. /\ SlotsOf(slot', exists', domain', size')
      /\ KnownIn(exists', domain', size') = HeldIn(slot', domain') =>
           \A i \in 0 .. size - 1 : slot'[i] = slot[i]
      /\ buffer = 0 => KnownIn(exists', domain', size') = HeldIn(slot', domain')
  BY DynamicReserve
<1>2. KnownIn(exists', domain', size') = HeldIn(slot', domain')
  BY <1>1, DynamicAfter
<1>3. size' = size
  BY DEF Reserve
<1>4. /\ size \in Nat
      /\ Array \in [1 .. size -> Objects \cup {Raw}]
      /\ \A i \in 1 .. size : Array[i] = slot[i - 1]
  BY ElementsAre
<1>5. /\ Array' \in [1 .. size -> Objects \cup {Raw}]
      /\ \A i \in 1 .. size : Array'[i] = slot'[i - 1]
  BY <1>1, <1>3, ElementsAreAfter
<1>6. \A i \in 1 .. size : Array'[i] = Array[i]
  BY <1>1, <1>2, <1>4, <1>5
<1> QED BY <1>4, <1>5, <1>6

\* resize() keeps the common prefix.
LEMMA ResizeKeepsPrefix ==
  ASSUME ArrayRuns, UNCHANGED params, NEW n \in Nat, Resize(n), buffer = 0 \/ Running'
  PROVE  IF n < size THEN IsPrefix(Array', Array) ELSE IsPrefix(Array, Array')
<1> DEFINE A == Array
           B == Array'
<1>1. /\ SlotsOf(slot', exists', domain', size')
      /\ size' = n
      /\ KnownIn(exists', domain', size') = HeldIn(slot', domain') =>
           \A i \in 0 .. n - 1 : i < size => slot'[i] = slot[i]
      /\ buffer = 0 => KnownIn(exists', domain', size') = HeldIn(slot', domain')
  BY DynamicResize
<1>2. KnownIn(exists', domain', size') = HeldIn(slot', domain')
  BY <1>1, DynamicAfter
<1>3. /\ size \in Nat
      /\ Array \in [1 .. size -> Objects \cup {Raw}]
      /\ \A i \in 1 .. size : Array[i] = slot[i - 1]
  BY ElementsAre
<1>4. /\ Array' \in [1 .. n -> Objects \cup {Raw}]
      /\ \A i \in 1 .. n : Array'[i] = slot'[i - 1]
  BY <1>1, ElementsAreAfter
<1>5. \A i \in 1 .. n : i <= size => Array'[i] = Array[i]
  BY <1>1, <1>2, <1>3, <1>4
<1>6. CASE n < size
  <2>1. /\ A \in [1 .. size -> Objects \cup {Raw}] /\ B \in [1 .. n -> Objects \cup {Raw}]
        /\ size \in Nat /\ n <= size /\ \A i \in 1 .. n : B[i] = A[i]
    BY <1>3, <1>4, <1>5, <1>6
  <2> HIDE DEF A, B
  <2>2. IsPrefix(B, A)
    BY <2>1, PrefixIs
  <2>3. IsPrefix(Array', Array)
    BY <2>2 DEF A, B
  <2> QED BY <2>3, <1>6
<1>7. CASE ~(n < size)
  <2>1. /\ A \in [1 .. size -> Objects \cup {Raw}] /\ B \in [1 .. n -> Objects \cup {Raw}]
        /\ size \in Nat /\ size <= n /\ \A i \in 1 .. size : A[i] = B[i]
    BY <1>3, <1>4, <1>5, <1>7
  <2> HIDE DEF A, B
  <2>2. IsPrefix(A, B)
    BY <2>1, PrefixIs
  <2>3. IsPrefix(Array, Array')
    BY <2>2 DEF A, B
  <2> QED BY <2>3, <1>7
<1> QED BY <1>6, <1>7

\* emplace_back() appends to the array, reserve() keeps its elements and their
\* order, and resize() the common prefix, whether the block moves or not: always
\* without an inplace buffer, with one as long as the array knows its elements.
THEOREM ElementsInPlace == ArraysSpec => ElementsStay
<1> DEFINE Stays ==
             buffer = 0 \/ Running' =>
               /\ \A o \in Objects : EmplaceBack(o) => Array' = Append(Array, o)
               /\ \A n \in 0 .. MaxSize : Reserve(n) => Array' = Array
               /\ \A n \in 0 .. MaxSize : Resize(n) =>
                    IF n < size THEN IsPrefix(Array', Array) ELSE IsPrefix(Array, Array')
<1>1. ArraysInv => [Stays]_vars
  <2> SUFFICES ASSUME ArraysInv, buffer = 0 \/ Running'
               PROVE  /\ \A o \in Objects : EmplaceBack(o) => Array' = Append(Array, o)
                      /\ \A n \in 0 .. MaxSize : Reserve(n) => Array' = Array
                      /\ \A n \in 0 .. MaxSize : Resize(n) =>
                           IF n < size THEN IsPrefix(Array', Array) ELSE IsPrefix(Array, Array')
    OBVIOUS
  <2>1. ASSUME NEW o \in Objects, EmplaceBack(o) PROVE Array' = Append(Array, o)
    <3>1. ArrayRuns
      BY <2>1 DEF ArraysInv, ArrayRuns, EmplaceBack, Grow
    <3> QED BY <2>1, <3>1, EmplaceAppends
  <2>2. ASSUME NEW n \in 0 .. MaxSize, Reserve(n) PROVE Array' = Array
    <3>1. ArrayRuns /\ UNCHANGED params /\ n \in Nat
      BY <2>2, SizesAssumption DEF ArraysInv, ArrayRuns, Reserve
    <3> QED BY <2>2, <3>1, ReserveKeepsAll
  <2>3. ASSUME NEW n \in 0 .. MaxSize, Resize(n)
        PROVE  IF n < size THEN IsPrefix(Array', Array) ELSE IsPrefix(Array, Array')
    <3>1. ArrayRuns /\ UNCHANGED params /\ n \in Nat
      BY <2>3, SizesAssumption DEF ArraysInv, ArrayRuns, Resize
    <3> QED BY <2>3, <3>1, ResizeKeepsPrefix
  <2> QED BY <2>1, <2>2, <2>3
<1> QED BY <1>1, ArraysInvAlways, PTL DEF ElementsStay

===========================================================================
