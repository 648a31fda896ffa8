--------------------- MODULE BlockAllocatorsProofs ---------------------
(***************************************************************************)
(* Theorems about Chunked_Array and the allocators whose elements never    *)
(* move, for every finite set of objects and all sizes of an int: blocks,  *)
(* size and count agree, loops meet each element once, and the allocators  *)
(* are what an allocator's client sees.                                    *)
(***************************************************************************)
EXTENDS BlockAllocators, FiniteSetTheorems, FunctionTheorems, SequenceTheorems,
        WellFoundedInduction, TLAPS

----------------------------------------------------------------------------
(* Powers of two of 32 bits *)

Pow2(a) == 2 ^ a

\* A set of naturals has a least element.
LEMMA Least ==
  ASSUME NEW T, T \subseteq Nat, T # {}
  PROVE  \E n \in T : \A m \in T : n <= m
<1>1. PICK n \in T : \A m \in T : ~(<<m, n>> \in OpToRel(<, Nat))
  BY NatLessThanWellFounded, WFMin
<1>2. \A m \in T : ~(m < n)
  BY <1>1 DEF OpToRel
<1> QED BY <1>2

\* A set that has 0, and i + 1 with every i, has all numbers up to n.
LEMMA UpTo ==
  ASSUME NEW n \in Nat, NEW T, 0 \in T, \A i \in 0 .. n - 1 : i \in T => i + 1 \in T
  PROVE  0 .. n \subseteq T
<1> DEFINE U == {i \in 0 .. n : i \notin T}
<1>1. SUFFICES ASSUME U # {} PROVE FALSE
  OBVIOUS
<1>2. U \subseteq Nat
  OBVIOUS
<1>3. PICK u \in U : \A m \in U : u <= m
  <2> HIDE DEF U
  <2> QED BY <1>1, <1>2, Least
<1>4. u # 0 /\ u - 1 \in 0 .. n - 1 /\ u - 1 \notin U
  BY <1>3
<1> QED BY <1>3, <1>4

\* The powers, one by one.
LEMMA PowValues ==
  /\ Pow2(0) = 1 /\ Pow2(1) = 2 /\ Pow2(2) = 4 /\ Pow2(3) = 8
  /\ Pow2(4) = 16 /\ Pow2(5) = 32 /\ Pow2(6) = 64 /\ Pow2(7) = 128
  /\ Pow2(8) = 256 /\ Pow2(9) = 512 /\ Pow2(10) = 1024 /\ Pow2(11) = 2048
  /\ Pow2(12) = 4096 /\ Pow2(13) = 8192 /\ Pow2(14) = 16384 /\ Pow2(15) = 32768
  /\ Pow2(16) = 65536 /\ Pow2(17) = 131072 /\ Pow2(18) = 262144 /\ Pow2(19) = 524288
  /\ Pow2(20) = 1048576 /\ Pow2(21) = 2097152 /\ Pow2(22) = 4194304 /\ Pow2(23) = 8388608
  /\ Pow2(24) = 16777216 /\ Pow2(25) = 33554432 /\ Pow2(26) = 67108864 /\ Pow2(27) = 134217728
  /\ Pow2(28) = 268435456 /\ Pow2(29) = 536870912 /\ Pow2(30) = 1073741824
  /\ Pow2(31) = 2147483648
BY SMT DEF Pow2

\* Each is twice the one before.
LEMMA PowDoubles == \A a \in 0 .. 30 : Pow2(a + 1) = 2 * Pow2(a)
<1> SUFFICES ASSUME NEW a \in 0 .. 30 PROVE Pow2(a + 1) = 2 * Pow2(a)
  OBVIOUS
<1>1. CASE a < 8
  BY <1>1, PowValues, SMT
<1>2. CASE 8 <= a /\ a < 16
  BY <1>2, PowValues, SMT
<1>3. CASE 16 <= a /\ a < 24
  BY <1>3, PowValues, SMT
<1>4. CASE 24 <= a
  BY <1>4, PowValues, SMT
<1> QED BY <1>1, <1>2, <1>3, <1>4

\* All of them are positive.
LEMMA PowPositive == \A a \in 0 .. 31 : Pow2(a) \in Nat \ {0}
<1> DEFINE T == {a \in 0 .. 31 : Pow2(a) \in Nat \ {0}}
<1>1. 0 \in T
  BY PowValues, SMT
<1>2. \A a \in 0 .. 31 - 1 : a \in T => a + 1 \in T
  BY PowDoubles, SMT
<1>3. 0 .. 31 \subseteq T
  <2> HIDE DEF T
  <2> QED BY <1>1, <1>2, UpTo, SMT
<1> QED BY <1>3

\* So are those of the blocks.
LEMMA PowNat == \A a \in 0 .. 30 : Pow2(a) \in Nat
<1> TAKE a \in 0 .. 30
<1>1. a \in 0 .. 31
  OBVIOUS
<1> QED BY <1>1, PowPositive

\* A greater exponent is at least twice the power.
LEMMA PowGrows == \A a, b \in 0 .. 31 : a < b => 2 * Pow2(a) <= Pow2(b)
<1> SUFFICES ASSUME NEW a \in 0 .. 31
             PROVE  \A b \in 0 .. 31 : a < b => 2 * Pow2(a) <= Pow2(b)
  OBVIOUS
<1> DEFINE T == {b \in 0 .. 31 : a < b => 2 * Pow2(a) <= Pow2(b)}
<1>1. 0 \in T
  OBVIOUS
<1>2. ASSUME NEW b \in 0 .. 31 - 1, b \in T PROVE b + 1 \in T
  <2>1. Pow2(b + 1) = 2 * Pow2(b) /\ Pow2(a) \in Nat /\ Pow2(b) \in Nat
    BY PowDoubles, PowPositive
  <2>2. CASE a < b
    BY <1>2, <2>1, <2>2
  <2>3. CASE a = b
    BY <2>1, <2>3
  <2>4. CASE b < a
    BY <2>4
  <2> QED BY <2>2, <2>3, <2>4
<1>3. 0 .. 31 \subseteq T
  <2> HIDE DEF T
  <2> QED BY <1>1, <1>2, UpTo
<1> QED BY <1>3

\* The sizes an int can have.
Limit == Pow2(31) - 1
Sizes == 0 .. Limit - 1

\* The largest size.
LEMMA LimitNat == Limit \in Nat \ {0} /\ Limit < Pow2(31) /\ Pow2(31) \in Nat
<1>1. Pow2(31) \in Nat /\ 2 * Pow2(0) <= Pow2(31) /\ Pow2(0) \in Nat \ {0}
  BY PowPositive, PowGrows
<1> QED BY <1>1 DEF Limit

\* The sizes of the array are among those of an int.
LEMMA SizesInside == MaxSize \in Sizes
<1>1. Limit = 2147483647
  BY PowValues, SMT DEF Limit
<1>2. MaxSize \in Nat /\ MaxSize < Limit
  BY <1>1, BoundsAssumption, SMT
<1> QED BY <1>2, LimitNat, SMT DEF Sizes

----------------------------------------------------------------------------
(* Handles *)

\* The highest bit of a size.
LEMMA ScanIs ==
  ASSUME NEW x \in 1 .. Limit
  PROVE  /\ BitScanReverse(x) \in 0 .. 30
         /\ Pow2(BitScanReverse(x)) <= x
         /\ x < Pow2(BitScanReverse(x) + 1)
<1> DEFINE T == {a \in 0 .. 31 : Pow2(a) <= x}
<1>1. Limit \in Nat /\ Limit < Pow2(31) /\ Pow2(31) \in Nat
  BY LimitNat
<1>2. 0 \in T
  BY <1>1, PowValues, SMT
<1>3. 31 \notin T
  BY <1>1
<1>4. PICK a \in 0 .. 30 : a \in T /\ a + 1 \notin T
  <2> SUFFICES ASSUME \A a \in 0 .. 30 : a \in T => a + 1 \in T PROVE FALSE
    OBVIOUS
  <2>1. \A a \in 0 .. 31 - 1 : a \in T => a + 1 \in T
    OBVIOUS
  <2>2. 0 .. 31 \subseteq T
    <3> HIDE DEF T
    <3> QED BY <1>2, <2>1, UpTo
  <2> QED BY <1>3, <2>2
<1>5. a \in 0 .. 31 /\ Pow2(a) <= x /\ x < Pow2(a + 1)
  <2>1. a + 1 \in 0 .. 31 /\ Pow2(a + 1) \in Nat
    BY PowPositive
  <2> QED BY <1>1, <1>4, <2>1
<1>6. BitScanReverse(x) = CHOOSE b \in 0 .. 31 : Pow2(b) <= x /\ x < Pow2(b + 1)
  BY Zenon DEF BitScanReverse, Pow2
<1> DEFINE b == BitScanReverse(x)
<1>7. b \in 0 .. 31 /\ Pow2(b) <= x /\ x < Pow2(b + 1)
  <2> HIDE DEF b
  <2> QED BY <1>5, <1>6 DEF b
<1>8. b # 31
  BY <1>1, <1>7
<1> HIDE DEF b
<1> QED BY <1>7, <1>8 DEF b

\* It is the only bit that is not above the size, with the next one above it.
LEMMA ScanOnly ==
  ASSUME NEW x \in 1 .. Limit, NEW a \in 0 .. 30, Pow2(a) <= x, x < Pow2(a + 1)
  PROVE  BitScanReverse(x) = a
<1> DEFINE b == BitScanReverse(x)
<1>1. b \in 0 .. 30 /\ Pow2(b) <= x /\ x < Pow2(b + 1)
  BY ScanIs
<1> HIDE DEF b
<1>2. x \in Nat /\ Pow2(a) \in Nat /\ Pow2(b) \in Nat
  BY <1>1, LimitNat, PowPositive
<1>3. Pow2(a + 1) = 2 * Pow2(a) /\ Pow2(b + 1) = 2 * Pow2(b)
  BY <1>1, PowDoubles
<1>4. ~(a < b) /\ ~(b < a)
  BY <1>1, <1>2, <1>3, PowGrows
<1> QED BY <1>1, <1>4 DEF b

\* The handles of an array as long as can be.
AnyHandle == {h \in (0 .. 30) \X Nat : h[2] < Pow2(h[1])}

\* IndexOf and HandleOf turn into each other, and keep the order.
LEMMA IndexIs ==
  ASSUME NEW h \in AnyHandle
  PROVE  /\ IndexOf(h) = Pow2(h[1]) + h[2] - 1
         /\ IndexOf(h) \in Sizes
         /\ HandleOf(IndexOf(h)) = h
         /\ BitScanReverse(IndexOf(h) + 1) = h[1]
<1>1. h[1] \in 0 .. 30 /\ h[2] \in Nat /\ h[2] < Pow2(h[1]) /\ h = <<h[1], h[2]>>
  BY DEF AnyHandle
<1>2. IndexOf(h) = Pow2(h[1]) + h[2] - 1
  BY DEF IndexOf, Pow2
<1> DEFINE a == h[1]
           b == h[2]
           i == IndexOf(h)
<1>3. Pow2(a) \in Nat \ {0} /\ Pow2(a + 1) = 2 * Pow2(a) /\ 2 * Pow2(a) <= Pow2(31)
  BY <1>1, PowPositive, PowDoubles, PowGrows
<1>4. Pow2(31) \in Nat
  BY LimitNat
<1> HIDE DEF a, b, i
<1>5. a \in 0 .. 30 /\ b \in Nat /\ b < Pow2(a) /\ i = Pow2(a) + b - 1
  BY <1>1, <1>2 DEF a, b, i
<1>6. i \in Sizes /\ i + 1 \in 1 .. Limit /\ Pow2(a) <= i + 1 /\ i + 1 < Pow2(a + 1)
  BY <1>3, <1>4, <1>5 DEF Sizes, Limit
<1>7. BitScanReverse(i + 1) = a
  BY <1>5, <1>6, ScanOnly
<1>8. HandleOf(i) = <<a, i + 1 - Pow2(a)>>
  BY <1>7 DEF HandleOf, Pow2
<1>9. i + 1 - Pow2(a) = b
  BY <1>3, <1>5
<1>10. HandleOf(i) = h
  BY <1>1, <1>8, <1>9 DEF a, b
<1> QED BY <1>2, <1>6, <1>7, <1>10 DEF a, i

\* Handle(unsigned) of an index is a handle, and has that index.
LEMMA HandleIs ==
  ASSUME NEW i \in Sizes
  PROVE  /\ HandleOf(i) \in AnyHandle
         /\ HandleOf(i) = <<BitScanReverse(i + 1), i + 1 - Pow2(BitScanReverse(i + 1))>>
         /\ IndexOf(HandleOf(i)) = i
<1> DEFINE a == BitScanReverse(i + 1)
<1>1. i + 1 \in 1 .. Limit /\ i \in Nat
  BY LimitNat DEF Sizes
<1>2. a \in 0 .. 30 /\ Pow2(a) <= i + 1 /\ i + 1 < Pow2(a + 1)
  BY <1>1, ScanIs
<1>3. HandleOf(i) = <<a, i + 1 - Pow2(a)>>
  BY DEF HandleOf, Pow2
<1> HIDE DEF a
<1>4. Pow2(a) \in Nat \ {0} /\ Pow2(a + 1) = 2 * Pow2(a)
  BY <1>2, PowPositive, PowDoubles
<1>5. i + 1 - Pow2(a) \in Nat /\ i + 1 - Pow2(a) < Pow2(a)
  BY <1>1, <1>2, <1>4
<1>6. HandleOf(i) \in AnyHandle
  BY <1>2, <1>3, <1>5 DEF AnyHandle
<1>7. IndexOf(HandleOf(i)) = Pow2(a) + (i + 1 - Pow2(a)) - 1
  BY <1>3, <1>6, IndexIs
<1>8. IndexOf(HandleOf(i)) = i
  BY <1>1, <1>4, <1>7
<1> QED BY <1>3, <1>6, <1>8 DEF a

\* The handle of the last slot of an array.
LEMMA LastHandleIs ==
  ASSUME NEW i \in Sizes, NEW n, n = i + 1, NEW a, a = BitScanReverse(n)
  PROVE  HandleOf(i) = <<a, n - Pow2(a)>>
<1>1. i \in Nat
  BY DEF Sizes
<1>2. BitScanReverse(i + 1) = a
  OBVIOUS
<1>3. HandleOf(i) = <<a, i + 1 - Pow2(a)>>
  BY <1>2, HandleIs, Zenon
<1>4. i + 1 - Pow2(a) = n - Pow2(a)
  <2>1. i + 1 \in 1 .. Limit
    BY LimitNat DEF Sizes
  <2>2. Pow2(a) \in Nat
    BY <1>2, <2>1, ScanIs, PowNat
  <2> QED BY <1>1, <2>2
<1> QED BY <1>3, <1>4, Zenon

\* operator++ goes to the next index.
LEMMA NextHandleIs ==
  ASSUME NEW i \in Sizes, i + 1 \in Sizes
  PROVE  NextHandle(HandleOf(i)) = HandleOf(i + 1)
<1> DEFINE h == HandleOf(i)
           g == NextHandle(h)
<1>1. h \in AnyHandle /\ IndexOf(h) = i
  BY HandleIs
<1> HIDE DEF h
<1>2. h[1] \in 0 .. 30 /\ h[2] \in Nat /\ h[2] < Pow2(h[1]) /\ i = Pow2(h[1]) + h[2] - 1
  BY <1>1, IndexIs DEF AnyHandle
<1>3. Pow2(h[1]) \in Nat \ {0}
  BY <1>2, PowPositive
<1>4. CASE h[2] + 1 = Pow2(h[1])
  <2>1. g = <<h[1] + 1, 0>>
    BY <1>4 DEF NextHandle, Pow2
  <2>2. h[1] # 30
    <3> SUFFICES ASSUME h[1] = 30 PROVE FALSE
      OBVIOUS
    <3>1. Pow2(31) = 2 * Pow2(30)
      BY PowDoubles
    <3>2. i + 1 = Limit
      BY <1>2, <1>3, <1>4, <3>1 DEF Limit
    <3> QED BY <3>2, LimitNat DEF Sizes
  <2>3. h[1] + 1 \in 0 .. 30
    BY <1>2, <2>2
  <2>4. Pow2(h[1] + 1) = 2 * Pow2(h[1])
    BY <1>2, PowDoubles
  <2>5. g \in AnyHandle /\ g[1] = h[1] + 1 /\ g[2] = 0
    <3>1. 0 < Pow2(h[1] + 1)
      BY <1>3, <2>4
    <3> QED BY <2>1, <2>3, <3>1 DEF AnyHandle
  <2> HIDE DEF g
  <2>6. IndexOf(g) = i + 1
    BY <1>2, <1>3, <1>4, <2>4, <2>5, IndexIs
  <2>7. g = HandleOf(i + 1)
    BY <2>5, <2>6, IndexIs
  <2> QED BY <2>7 DEF g, h
<1>5. CASE h[2] + 1 # Pow2(h[1])
  <2>1. g = <<h[1], h[2] + 1>>
    BY <1>5 DEF NextHandle, Pow2
  <2>2. g \in AnyHandle /\ g[1] = h[1] /\ g[2] = h[2] + 1
    <3>1. h[2] + 1 < Pow2(h[1])
      BY <1>2, <1>3, <1>5
    <3> QED BY <1>2, <2>1, <3>1 DEF AnyHandle
  <2> HIDE DEF g
  <2>3. IndexOf(g) = i + 1
    BY <1>2, <1>3, <2>2, IndexIs
  <2>4. g = HandleOf(i + 1)
    BY <2>2, <2>3, IndexIs
  <2> QED BY <2>4 DEF g, h
<1> QED BY <1>4, <1>5

\* operator-- goes to the index before.
LEMMA PrevHandleIs ==
  ASSUME NEW i \in Sizes, i > 0
  PROVE  PrevHandle(HandleOf(i)) = HandleOf(i - 1)
<1> DEFINE h == HandleOf(i)
           g == PrevHandle(h)
<1>1. h \in AnyHandle /\ IndexOf(h) = i
  BY HandleIs
<1> HIDE DEF h
<1>2. /\ h[1] \in 0 .. 30 /\ h[2] \in Nat /\ h[2] < Pow2(h[1]) /\ i = Pow2(h[1]) + h[2] - 1
      /\ i \in Nat
  BY <1>1, IndexIs DEF AnyHandle, Sizes
<1>3. Pow2(h[1]) \in Nat \ {0}
  BY <1>2, PowPositive
<1>4. CASE h[2] = 0
  <2>1. g = <<h[1] - 1, Pow2(h[1] - 1) - 1>>
    BY <1>4 DEF PrevHandle, Pow2
  <2>2. h[1] # 0
    BY <1>2, <1>4, PowValues, SMT
  <2>3. h[1] - 1 \in 0 .. 30 /\ h[1] - 1 + 1 = h[1]
    BY <1>2, <2>2
  <2>4. Pow2(h[1]) = 2 * Pow2(h[1] - 1) /\ Pow2(h[1] - 1) \in Nat \ {0}
    <3> HIDE DEF g
    <3> QED BY <2>3, PowDoubles, PowPositive
  <2>5. g \in AnyHandle /\ g[1] = h[1] - 1 /\ g[2] = Pow2(h[1] - 1) - 1
    <3>1. Pow2(h[1] - 1) - 1 \in Nat /\ Pow2(h[1] - 1) - 1 < Pow2(h[1] - 1)
      BY <2>4
    <3> QED BY <2>1, <2>3, <3>1 DEF AnyHandle
  <2> HIDE DEF g
  <2>6. IndexOf(g) = i - 1
    BY <1>2, <1>4, <2>4, <2>5, IndexIs
  <2>7. g = HandleOf(i - 1)
    BY <2>5, <2>6, IndexIs
  <2> QED BY <2>7 DEF g, h
<1>5. CASE h[2] # 0
  <2>1. g = <<h[1], h[2] - 1>>
    BY <1>5 DEF PrevHandle
  <2>2. g \in AnyHandle /\ g[1] = h[1] /\ g[2] = h[2] - 1
    <3>1. h[2] - 1 \in Nat /\ h[2] - 1 < Pow2(h[1])
      BY <1>2, <1>3, <1>5
    <3> QED BY <1>2, <2>1, <3>1 DEF AnyHandle
  <2> HIDE DEF g
  <2>3. IndexOf(g) = i - 1
    BY <1>2, <1>3, <2>2, IndexIs
  <2>4. g = HandleOf(i - 1)
    BY <2>2, <2>3, IndexIs
  <2> QED BY <2>4 DEF g, h
<1> QED BY <1>4, <1>5

----------------------------------------------------------------------------
(* Blocks *)

Contents == Objects \cup {NoObject}

AnyBlock == UNION {[0 .. m - 1 -> Contents] : m \in Nat}

\* The slots of some blocks, as Handles and At have it of the array's.
SlotsIn(bs) == UNION {{k - 1} \X DOMAIN bs[k] : k \in DOMAIN bs}
InSlot(bs, h) == bs[h[1] + 1][h[2]]

BlockCount(n) == IF n = 0 THEN 0 ELSE BitScanReverse(n) + 1

IsContent(n, c) == n \in Sizes /\ c \in [0 .. n - 1 -> Contents]

\* An array of size n has blocks of 1, 2, 4, ... slots with c in the first n.
IsBlocks(bs, n, c) ==
  /\ bs \in Seq(AnyBlock)
  /\ Len(bs) = BlockCount(n)
  /\ \A k \in 1 .. Len(bs) : DOMAIN bs[k] = 0 .. Pow2(k - 1) - 1
  /\ \A h \in SlotsIn(bs) :
       InSlot(bs, h) = IF IndexOf(h) < n THEN c[IndexOf(h)] ELSE NoObject

Shaped(bs) == \A k \in 1 .. Len(bs) : DOMAIN bs[k] = 0 .. Pow2(k - 1) - 1

ContentAt(h, n, c) == IF IndexOf(h) < n THEN c[IndexOf(h)] ELSE NoObject

\* An object comes to a slot, or goes.
Put(c, i, o) == [c EXCEPT ![i] = o]

\* The blocks and the content after emplace_back(), pop_back() and resize().
Grown(bs, n) == IF n + 1 = 2 ^ BitScanReverse(n + 1) THEN Append(bs, Block(n + 1)) ELSE bs
EndSlot(cs, m) == <<Len(cs) - 1, m - Domain(Last(cs))>>
Longer(c, n) == [i \in 0 .. n |-> IF i < n THEN c[i] ELSE NoObject]

Dropped(bs, idx) == IF idx = 0 THEN Front(bs) ELSE bs
Shorter(c, n) == [i \in 0 .. n - 2 |-> c[i]]

Widened(bs, n) ==
  [k \in 1 .. BitScanReverse(n) + 1 |-> IF k <= Len(bs) THEN bs[k] ELSE Block(2 ^ (k - 1))]
SlotAfter(ws, s, n, new, k, b) ==
  LET i == IndexOf(<<k - 1, b>>)
  IN  IF i \in s .. n - 1 THEN new[i] ELSE IF i >= n THEN NoObject ELSE ws[k][b]
Resized(ws, s, n, new) ==
  [k \in DOMAIN ws |-> [b \in DOMAIN ws[k] |-> SlotAfter(ws, s, n, new, k, b)]]
Joined(c, s, n, new) == [i \in 0 .. n - 1 |-> IF i < s THEN c[i] ELSE new[i]]

\* The number of blocks that a size needs.
LEMMA BlockCountIs ==
  ASSUME NEW n \in Sizes
  PROVE  /\ BlockCount(n) \in 0 .. 31
         /\ n = 0 <=> BlockCount(n) = 0
         /\ n > 0 => /\ BlockCount(n) = BitScanReverse(n) + 1
                     /\ Pow2(BlockCount(n) - 1) <= n
                     /\ n < Pow2(BlockCount(n))
<1>1. CASE n = 0
  BY <1>1 DEF BlockCount
<1>2. CASE n # 0
  <2>1. n \in 1 .. Limit
    BY <1>2, LimitNat DEF Sizes
  <2> DEFINE a == BitScanReverse(n)
  <2>2. a \in 0 .. 30 /\ Pow2(a) <= n /\ n < Pow2(a + 1)
    BY <2>1, ScanIs
  <2>3. BlockCount(n) = a + 1
    BY <1>2 DEF BlockCount
  <2> HIDE DEF a
  <2>4. a + 1 - 1 = a
    BY <2>2
  <2> QED BY <1>2, <2>2, <2>3, <2>4 DEF a
<1> QED BY <1>1, <1>2

\* An index is inside if its block is there, and its block is there if it is
\* below the size.
LEMMA InsideIs ==
  ASSUME NEW n \in Sizes, NEW i \in 0 .. n - 1
  PROVE  /\ i \in Sizes
         /\ HandleOf(i) \in AnyHandle
         /\ HandleOf(i)[1] \in 0 .. BlockCount(n) - 1
         /\ IndexOf(HandleOf(i)) = i
<1>1. i \in Sizes /\ i \in Nat /\ n \in Nat
  BY LimitNat DEF Sizes
<1> DEFINE a == HandleOf(i)[1]
           k == BlockCount(n)
<1>2. /\ HandleOf(i) \in AnyHandle /\ IndexOf(HandleOf(i)) = i /\ a = BitScanReverse(i + 1)
  BY <1>1, HandleIs
<1>3. k \in 1 .. 31 /\ n < Pow2(k)
  BY <1>1, BlockCountIs
<1>4. i + 1 \in 1 .. Limit
  BY <1>1, LimitNat DEF Sizes
<1>5. a \in 0 .. 30 /\ Pow2(a) <= i + 1
  BY <1>2, <1>4, ScanIs
<1> HIDE DEF a, k
<1>6. Pow2(a) \in Nat /\ Pow2(k) \in Nat
  BY <1>3, <1>5, PowPositive
<1>7. ~(k < a) /\ k # a
  BY <1>1, <1>3, <1>5, <1>6, PowGrows
<1> QED BY <1>1, <1>2, <1>3, <1>5, <1>7 DEF a, k

\* What the slots of blocks are.
LEMMA SlotIs ==
  ASSUME NEW bs \in Seq(AnyBlock)
  PROVE  /\ Len(bs) \in Nat /\ DOMAIN bs = 1 .. Len(bs)
         /\ \A k \in 1 .. Len(bs) :
              \E m \in Nat : DOMAIN bs[k] = 0 .. m - 1 /\ bs[k] \in [0 .. m - 1 -> Contents]
         /\ \A h : h \in SlotsIn(bs) <=>
                     \E k \in 1 .. Len(bs), b \in Nat : h = <<k - 1, b>> /\ b \in DOMAIN bs[k]
         /\ \A h \in SlotsIn(bs) : /\ h = <<h[1], h[2]>>
                                   /\ h[1] \in 0 .. Len(bs) - 1 /\ h[2] \in Nat
                                   /\ h[2] \in DOMAIN bs[h[1] + 1]
                                   /\ InSlot(bs, h) \in Contents
<1>1. Len(bs) \in Nat /\ DOMAIN bs = 1 .. Len(bs)
  BY LenProperties
<1>2. ASSUME NEW k \in 1 .. Len(bs)
      PROVE  \E m \in Nat : DOMAIN bs[k] = 0 .. m - 1 /\ bs[k] \in [0 .. m - 1 -> Contents]
  <2>1. bs[k] \in AnyBlock
    BY <1>2, ElementOfSeq
  <2>2. PICK m \in Nat : bs[k] \in [0 .. m - 1 -> Contents]
    BY <2>1 DEF AnyBlock
  <2> QED BY <2>2
<1>3. \A k \in 1 .. Len(bs) : \A b \in DOMAIN bs[k] : b \in Nat /\ bs[k][b] \in Contents
  <2> TAKE k \in 1 .. Len(bs)
  <2>1. PICK m \in Nat : DOMAIN bs[k] = 0 .. m - 1 /\ bs[k] \in [0 .. m - 1 -> Contents]
    BY <1>2
  <2> QED BY <2>1
<1>4. \A h : h \in SlotsIn(bs) <=>
               \E k \in 1 .. Len(bs), b \in Nat : h = <<k - 1, b>> /\ b \in DOMAIN bs[k]
  <2>1. \A h : h \in SlotsIn(bs) <=> \E k \in 1 .. Len(bs) : h \in {k - 1} \X DOMAIN bs[k]
    BY <1>1 DEF SlotsIn
  <2>2. \A h : \A k \in 1 .. Len(bs) :
          h \in {k - 1} \X DOMAIN bs[k] <=> \E b \in Nat : h = <<k - 1, b>> /\ b \in DOMAIN bs[k]
    BY <1>3
  <2> QED BY <2>1, <2>2
<1>5. ASSUME NEW h \in SlotsIn(bs)
      PROVE  /\ h = <<h[1], h[2]>> /\ h[1] \in 0 .. Len(bs) - 1 /\ h[2] \in Nat
             /\ h[2] \in DOMAIN bs[h[1] + 1] /\ InSlot(bs, h) \in Contents
  <2>1. PICK k \in 1 .. Len(bs), b \in Nat : h = <<k - 1, b>> /\ b \in DOMAIN bs[k]
    BY <1>4, <1>5
  <2>2. h[1] = k - 1 /\ h[2] = b /\ h[1] + 1 = k
    BY <2>1
  <2> QED BY <1>1, <1>3, <2>1, <2>2 DEF InSlot
<1> QED BY <1>1, <1>2, <1>4, <1>5

\* The slots of an array are the handles into its blocks.
LEMMA ArraySlots ==
  ASSUME NEW n, NEW c, IsContent(n, c), NEW bs, IsBlocks(bs, n, c)
  PROVE  /\ \A h : h \in SlotsIn(bs) <=> h \in AnyHandle /\ h[1] < BlockCount(n)
         /\ \A i \in 0 .. n - 1 : /\ HandleOf(i) \in SlotsIn(bs)
                                  /\ InSlot(bs, HandleOf(i)) = c[i]
         /\ \A h \in SlotsIn(bs) : /\ IndexOf(h) \in Nat
                                   /\ h = HandleOf(IndexOf(h))
                                   /\ InSlot(bs, h) # NoObject => IndexOf(h) < n
<1>1. /\ n \in Sizes /\ n \in Nat /\ c \in [0 .. n - 1 -> Contents]
      /\ bs \in Seq(AnyBlock) /\ Len(bs) = BlockCount(n)
      /\ \A k \in 1 .. Len(bs) : DOMAIN bs[k] = 0 .. Pow2(k - 1) - 1
  BY DEF IsContent, IsBlocks, Sizes
<1>2. BlockCount(n) \in 0 .. 31
  BY <1>1, BlockCountIs
<1> DEFINE L == BlockCount(n)
<1> HIDE DEF L
<1>3. /\ \A h : h \in SlotsIn(bs) <=>
                \E k \in 1 .. L, b \in Nat : h = <<k - 1, b>> /\ b \in DOMAIN bs[k]
      /\ \A k \in 1 .. L : DOMAIN bs[k] = 0 .. Pow2(k - 1) - 1
      /\ L \in 0 .. 31
  BY <1>1, <1>2, SlotIs DEF L
<1>4. \A h : h \in SlotsIn(bs) <=> h \in AnyHandle /\ h[1] < L
  <2>1. ASSUME NEW h \in SlotsIn(bs) PROVE h \in AnyHandle /\ h[1] < L
    <3>1. PICK k \in 1 .. L, b \in Nat : h = <<k - 1, b>> /\ b \in DOMAIN bs[k]
      BY <1>3
    <3>2. k - 1 \in 0 .. 30 /\ k - 1 < L
      BY <1>3
    <3>3. b < Pow2(k - 1)
      <4>1. Pow2(k - 1) \in Nat
        BY <3>2, PowPositive
      <4> QED BY <1>3, <3>1, <4>1
    <3> QED BY <3>1, <3>2, <3>3 DEF AnyHandle
  <2>2. ASSUME NEW h \in AnyHandle, h[1] < L PROVE h \in SlotsIn(bs)
    <3>1. PICK a \in 0 .. 30, b \in Nat : h = <<a, b>> /\ b < Pow2(a)
      BY DEF AnyHandle
    <3> DEFINE k == a + 1
    <3>2. k \in 1 .. L /\ k - 1 = a
      BY <1>3, <2>2, <3>1
    <3> HIDE DEF k
    <3>3. b \in DOMAIN bs[k]
      <4>1. Pow2(a) \in Nat
        BY PowPositive
      <4> QED BY <1>3, <3>1, <3>2, <4>1
    <3> QED BY <1>3, <3>1, <3>2, <3>3
  <2> QED BY <2>1, <2>2
<1>5. ASSUME NEW i \in 0 .. n - 1
      PROVE  HandleOf(i) \in SlotsIn(bs) /\ InSlot(bs, HandleOf(i)) = c[i]
  <2>1. HandleOf(i) \in AnyHandle /\ HandleOf(i)[1] < L /\ IndexOf(HandleOf(i)) = i
    BY <1>1, <1>2, InsideIs DEF L
  <2>2. HandleOf(i) \in SlotsIn(bs)
    BY <1>4, <2>1
  <2>3. InSlot(bs, HandleOf(i)) = IF i < n THEN c[i] ELSE NoObject
    BY <2>1, <2>2 DEF IsBlocks
  <2> QED BY <1>1, <2>2, <2>3
<1>6. ASSUME NEW h \in SlotsIn(bs)
      PROVE  /\ IndexOf(h) \in Nat /\ h = HandleOf(IndexOf(h))
             /\ InSlot(bs, h) # NoObject => IndexOf(h) < n
  <2>1. IndexOf(h) \in Nat /\ h = HandleOf(IndexOf(h))
    BY <1>4, <1>6, IndexIs DEF Sizes
  <2>2. InSlot(bs, h) # NoObject => IndexOf(h) < n
    BY <1>6 DEF IsBlocks
  <2> QED BY <2>1, <2>2
<1> QED BY <1>4, <1>5, <1>6 DEF L

\* A block of one content.
LEMMA BlockIs ==
  ASSUME NEW m \in Nat
  PROVE  /\ Block(m) \in AnyBlock /\ DOMAIN Block(m) = 0 .. m - 1
         /\ \A b \in 0 .. m - 1 : Block(m)[b] = NoObject
         /\ \A f \in AnyBlock : DOMAIN f = 0 .. m - 1 => Domain(f) = m
<1>1. Block(m) \in [0 .. m - 1 -> Contents]
  BY DEF Block, Contents
<1>2. IsFiniteSet(0 .. m - 1) /\ Cardinality(0 .. m - 1) = m
  BY FS_Interval
<1> QED BY <1>1, <1>2 DEF Block, Domain, AnyBlock

\* Storing into a slot.
LEMMA StoreIs ==
  ASSUME NEW bs \in Seq(AnyBlock), NEW h \in SlotsIn(bs), NEW o \in Contents
  PROVE  /\ Store(bs, h, o) \in Seq(AnyBlock) /\ Len(Store(bs, h, o)) = Len(bs)
         /\ \A k \in 1 .. Len(bs) : DOMAIN Store(bs, h, o)[k] = DOMAIN bs[k]
         /\ SlotsIn(Store(bs, h, o)) = SlotsIn(bs)
         /\ InSlot(Store(bs, h, o), h) = o
         /\ \A g \in SlotsIn(bs) : g # h => InSlot(Store(bs, h, o), g) = InSlot(bs, g)
<1> DEFINE cs == Store(bs, h, o)
<1>1. PICK l \in 1 .. Len(bs), b \in Nat : h = <<l - 1, b>> /\ b \in DOMAIN bs[l]
  BY SlotIs
<1>2. /\ Len(bs) \in Nat /\ DOMAIN bs = 1 .. Len(bs)
      /\ \A k \in 1 .. Len(bs) : bs[k] \in AnyBlock
  BY SlotIs, ElementOfSeq
<1>3. l - 1 + 1 = l
  BY <1>2
<1>4. PICK m \in Nat : DOMAIN bs[l] = 0 .. m - 1 /\ bs[l] \in [0 .. m - 1 -> Contents]
  BY SlotIs
<1> DEFINE f == [bs[l] EXCEPT ![b] = o]
<1>5. f \in [0 .. m - 1 -> Contents] /\ DOMAIN f = DOMAIN bs[l] /\ f[b] = o
      /\ \A d \in DOMAIN bs[l] : d # b => f[d] = bs[l][d]
  BY <1>1, <1>4
<1>6. f \in AnyBlock
  BY <1>5 DEF AnyBlock
<1>7. cs = [bs EXCEPT ![l] = f]
  <2>1. h[1] + 1 = l /\ h[2] = b
    BY <1>1, <1>3
  <2> QED BY <2>1 DEF Store
<1> HIDE DEF f, cs
<1>8. cs \in Seq(AnyBlock) /\ Len(cs) = Len(bs)
  BY <1>6, <1>7, ExceptSeq
<1>9. cs[l] = f /\ \A k \in 1 .. Len(bs) : k # l => cs[k] = bs[k]
  BY <1>2, <1>7
<1>10. \A k \in 1 .. Len(bs) : DOMAIN cs[k] = DOMAIN bs[k]
  BY <1>5, <1>9
<1>11. SlotsIn(cs) = SlotsIn(bs)
  <2>1. DOMAIN cs = DOMAIN bs
    BY <1>2, <1>8, SlotIs
  <2> QED BY <1>2, <1>10, <2>1 DEF SlotsIn
<1>12. InSlot(cs, h) = o
  BY <1>1, <1>3, <1>5, <1>9 DEF InSlot
<1>13. ASSUME NEW g \in SlotsIn(bs), g # h PROVE InSlot(cs, g) = InSlot(bs, g)
  <2>1. PICK k \in 1 .. Len(bs), d \in Nat : g = <<k - 1, d>> /\ d \in DOMAIN bs[k]
    BY SlotIs
  <2>2. k - 1 + 1 = k
    BY <1>2
  <2>3. k # l \/ d # b
    BY <1>1, <1>13, <2>1
  <2>4. cs[k][d] = bs[k][d]
    BY <1>5, <1>9, <2>1, <2>3
  <2> QED BY <2>1, <2>2, <2>4 DEF InSlot
<1> QED BY <1>8, <1>10, <1>11, <1>12, <1>13 DEF cs

\* Storing at an index of the array changes its content there.
LEMMA StoreAt ==
  ASSUME NEW n, NEW c, IsContent(n, c), NEW bs, IsBlocks(bs, n, c),
         NEW i \in 0 .. n - 1, NEW o \in Contents
  PROVE  /\ IsContent(n, Put(c, i, o))
         /\ IsBlocks(Store(bs, HandleOf(i), o), n, Put(c, i, o))
<1> DEFINE h == HandleOf(i)
           cs == Store(bs, h, o)
           d == Put(c, i, o)
<1>1. /\ bs \in Seq(AnyBlock) /\ h \in SlotsIn(bs) /\ n \in Nat
      /\ c \in [0 .. n - 1 -> Contents] /\ n \in Sizes
  BY ArraySlots DEF IsBlocks, IsContent, Sizes
<1>2. /\ cs \in Seq(AnyBlock) /\ Len(cs) = Len(bs)
      /\ \A k \in 1 .. Len(bs) : DOMAIN cs[k] = DOMAIN bs[k]
      /\ SlotsIn(cs) = SlotsIn(bs) /\ InSlot(cs, h) = o
      /\ \A g \in SlotsIn(bs) : g # h => InSlot(cs, g) = InSlot(bs, g)
  BY <1>1, StoreIs
<1>3. IndexOf(h) = i
  BY <1>1, InsideIs
<1>4. d \in [0 .. n - 1 -> Contents] /\ d[i] = o /\ \A j \in 0 .. n - 1 : j # i => d[j] = c[j]
  BY <1>1 DEF Put
<1> HIDE DEF h, cs, d
<1>5. ASSUME NEW g \in SlotsIn(bs)
      PROVE  InSlot(cs, g) = IF IndexOf(g) < n THEN d[IndexOf(g)] ELSE NoObject
  <2>1. CASE g = h
    <3>1. i < n
      BY <1>1
    <3> QED BY <1>2, <1>3, <1>4, <2>1, <3>1
  <2>2. CASE g # h
    <3>1. g = HandleOf(IndexOf(g)) /\ IndexOf(g) \in Nat
      BY ArraySlots
    <3>2. IndexOf(g) # i
      BY <2>2, <3>1 DEF h
    <3>3. InSlot(cs, g) = IF IndexOf(g) < n THEN c[IndexOf(g)] ELSE NoObject
      BY <1>2, <2>2 DEF IsBlocks
    <3>4. IndexOf(g) < n => d[IndexOf(g)] = c[IndexOf(g)]
      BY <1>1, <1>4, <3>1, <3>2
    <3> QED BY <3>3, <3>4
  <2> QED BY <2>1, <2>2
<1>6. IsContent(n, d)
  BY <1>1, <1>4 DEF IsContent
<1>7. IsBlocks(cs, n, d)
  BY <1>2, <1>5 DEF IsBlocks
<1> QED BY <1>6, <1>7 DEF h, cs, d

\* Whether blocks are those of an array.
LEMMA BlocksAre ==
  ASSUME NEW n, NEW c, IsContent(n, c), NEW bs \in Seq(AnyBlock), Len(bs) = BlockCount(n),
         Shaped(bs),
         \A k \in 1 .. Len(bs) : \A b \in DOMAIN bs[k] : bs[k][b] = ContentAt(<<k - 1, b>>, n, c)
  PROVE  IsBlocks(bs, n, c)
<1>1. ASSUME NEW h \in SlotsIn(bs)
      PROVE  InSlot(bs, h) = ContentAt(h, n, c)
  <2>1. PICK k \in 1 .. Len(bs), b \in Nat : h = <<k - 1, b>> /\ b \in DOMAIN bs[k]
    BY SlotIs
  <2>2. k - 1 + 1 = k
    BY SlotIs
  <2>3. InSlot(bs, h) = bs[k][b]
    BY <2>1, <2>2 DEF InSlot
  <2> QED BY <2>1, <2>3
<1> QED BY <1>1 DEF IsBlocks, ContentAt, Shaped

\* The highest bit, from one size to the next.
LEMMA ScanNext ==
  ASSUME NEW n \in Sizes, n + 1 \in Sizes
  PROVE  LET a == BitScanReverse(n + 1)
         IN  /\ a \in 0 .. 30 /\ Pow2(a) \in Nat \ {0}
             /\ Pow2(a) <= n + 1 /\ BlockCount(n + 1) = a + 1
             /\ BlockCount(n) = IF n + 1 = Pow2(a) THEN a ELSE a + 1
             /\ HandleOf(n) = <<a, (n + 1) - Pow2(a)>>
<1> DEFINE a == BitScanReverse(n + 1)
<1>1. n \in Nat /\ n + 1 \in 1 .. Limit /\ Limit \in Nat
  BY LimitNat DEF Sizes
<1>2. a \in 0 .. 30 /\ Pow2(a) <= n + 1 /\ n + 1 < Pow2(a + 1)
  BY <1>1, ScanIs
<1>3. HandleOf(n) = <<a, (n + 1) - Pow2(a)>>
  <2>1. HandleOf(n) = <<a, n + 1 - Pow2(a)>>
    BY HandleIs
  <2>2. Pow2(a) \in Nat
    BY <1>2, PowPositive
  <2> HIDE DEF a
  <2>3. n + 1 - Pow2(a) = (n + 1) - Pow2(a)
    BY <1>1, <2>2
  <2> QED BY <2>1, <2>3
<1>4. BlockCount(n + 1) = a + 1
  BY <1>1 DEF BlockCount
<1> HIDE DEF a
<1>5. Pow2(a) \in Nat \ {0} /\ Pow2(a + 1) \in Nat
  BY <1>2, PowPositive
<1>6. CASE n + 1 # Pow2(a)
  <2>1. n \in 1 .. Limit /\ Pow2(a) <= n /\ n < Pow2(a + 1)
    BY <1>1, <1>2, <1>5, <1>6
  <2>2. BitScanReverse(n) = a
    BY <1>2, <2>1, ScanOnly
  <2> QED BY <1>1, <1>2, <1>3, <1>4, <1>5, <1>6, <2>1, <2>2 DEF BlockCount, a
<1>7. CASE n + 1 = Pow2(a)
  <2>1. CASE a = 0
    <3>1. n = 0
      BY <1>1, <1>7, <2>1, PowValues, SMT
    <3> QED BY <1>2, <1>3, <1>4, <1>5, <1>7, <2>1, <3>1 DEF BlockCount, a
  <2>2. CASE a # 0
    <3> DEFINE d == a - 1
    <3>1. d \in 0 .. 30 /\ d + 1 = a
      BY <1>2, <2>2
    <3> HIDE DEF d
    <3>2. Pow2(a) = 2 * Pow2(d) /\ Pow2(d) \in Nat \ {0}
      BY <3>1, PowDoubles, PowPositive
    <3>3. n \in 1 .. Limit /\ Pow2(d) <= n /\ n < Pow2(d + 1)
      BY <1>1, <1>7, <3>1, <3>2
    <3>4. BitScanReverse(n) = d
      BY <3>1, <3>3, ScanOnly
    <3>5. BlockCount(n) = a
      BY <3>1, <3>3, <3>4 DEF BlockCount
    <3> QED BY <1>2, <1>3, <1>4, <1>5, <1>7, <3>5 DEF a
  <2> QED BY <2>1, <2>2
<1> QED BY <1>6, <1>7

\* emplace_back() has room for an element at the end.
LEMMA GrowIs ==
  ASSUME NEW n, NEW c, IsContent(n, c), NEW bs, IsBlocks(bs, n, c), n + 1 \in Sizes
  PROVE  /\ IsContent(n + 1, Longer(c, n))
         /\ IsBlocks(Grown(bs, n), n + 1, Longer(c, n))
         /\ EndSlot(Grown(bs, n), n + 1) = HandleOf(n)
<1> DEFINE cs == Grown(bs, n)
           d == Longer(c, n)
<1> HIDE DEF cs, d
<1>1. /\ n \in Sizes /\ n \in Nat /\ c \in [0 .. n - 1 -> Contents]
      /\ bs \in Seq(AnyBlock) /\ Len(bs) = BlockCount(n)
      /\ \A k \in 1 .. Len(bs) : DOMAIN bs[k] = 0 .. Pow2(k - 1) - 1
  BY DEF IsContent, IsBlocks, Sizes
<1> DEFINE a == BitScanReverse(n + 1)
           m == n + 1
<1>2. /\ a \in 0 .. 30 /\ Pow2(a) \in Nat \ {0} /\ Pow2(a) <= m
      /\ BlockCount(m) = a + 1 /\ BlockCount(n) = (IF m = Pow2(a) THEN a ELSE a + 1)
      /\ HandleOf(n) = <<a, m - Pow2(a)>>
  <2>1. n \in Sizes
    BY <1>1
  <2> QED BY <2>1, ScanNext
<1>3. cs = IF m = Pow2(a) THEN Append(bs, Block(m)) ELSE bs
  BY DEF Pow2, cs, Grown
<1> HIDE DEF a
<1>0. d = [i \in 0 .. n |-> IF i < n THEN c[i] ELSE NoObject]
  BY DEF d, Longer
<1>4. d \in [0 .. m - 1 -> Contents]
  BY <1>0, <1>1 DEF Contents
<1>5. IsContent(m, d)
  BY <1>4 DEF IsContent
<1>6. \A i \in Nat : (IF i < m THEN d[i] ELSE NoObject) = (IF i < n THEN c[i] ELSE NoObject)
  BY <1>0, <1>1
<1>7. ASSUME NEW k \in 1 .. Len(bs), NEW b \in DOMAIN bs[k]
      PROVE  bs[k][b] = ContentAt(<<k - 1, b>>, m, d)
  <2> DEFINE h == <<k - 1, b>>
  <2>1. b \in Nat
    <3>1. PICK q \in Nat : DOMAIN bs[k] = 0 .. q - 1
      BY <1>1, SlotIs
    <3> QED BY <3>1
  <2>2. h \in SlotsIn(bs) /\ h[1] + 1 = k /\ h[2] = b
    BY <1>1, <2>1, SlotIs
  <2> HIDE DEF h
  <2>3. bs[k][b] = IF IndexOf(h) < n THEN c[IndexOf(h)] ELSE NoObject
    BY <2>2 DEF IsBlocks, InSlot
  <2>4. IndexOf(h) \in Nat
    BY <2>2, ArraySlots
  <2> QED BY <1>6, <2>3, <2>4 DEF h, ContentAt
<1> HIDE DEF m
<1>8. m = n + 1
  BY DEF m
<1>9. /\ IsBlocks(cs, m, d) /\ Len(cs) = a + 1 /\ Domain(Last(cs)) = Pow2(a)
  <2>1. CASE m # Pow2(a)
    <3>1. cs = bs /\ Len(cs) = a + 1
      BY <1>1, <1>2, <1>3, <2>1
    <3>2. IsBlocks(cs, m, d)
      BY <1>1, <1>2, <1>5, <1>7, <3>1, BlocksAre DEF Shaped
    <3>3. Last(cs) = cs[a + 1] /\ cs[a + 1] \in AnyBlock /\ DOMAIN cs[a + 1] = 0 .. Pow2(a) - 1
      <4>1. a \in 0 .. 30 /\ Len(bs) = a + 1
        BY <1>2, <3>1
      <4>2. a + 1 \in 1 .. Len(bs) /\ a + 1 - 1 = a
        BY <4>1
      <4>3. bs[a + 1] \in AnyBlock
        BY <1>1, <4>2, ElementOfSeq
      <4>5. DOMAIN bs[a + 1] = 0 .. Pow2(a) - 1
        <5>1. \A k \in 1 .. Len(bs) : DOMAIN bs[k] = 0 .. Pow2(k - 1) - 1
          BY <1>1
        <5> QED BY <4>1, <4>2, <5>1
      <4>4. Last(cs) = cs[a + 1]
        BY <3>1 DEF Last
      <4> QED BY <3>1, <4>2, <4>3, <4>4, <4>5
    <3>4. Domain(Last(cs)) = Pow2(a)
      BY <1>2, <3>3, BlockIs
    <3> QED BY <3>1, <3>2, <3>4
  <2>2. CASE m = Pow2(a)
    <3> DEFINE f == Block(m)
    <3>1. f \in AnyBlock /\ DOMAIN f = 0 .. m - 1 /\ Domain(f) = m /\ m \in Nat
          /\ \A b \in 0 .. m - 1 : f[b] = NoObject
      BY <1>1, <1>8, BlockIs
    <3> HIDE DEF f
    <3>2. Len(bs) = a /\ cs = Append(bs, f)
      BY <1>1, <1>2, <1>3, <2>2 DEF f
    <3>3. cs \in Seq(AnyBlock) /\ Len(cs) = a + 1 /\ cs[a + 1] = f
          /\ \A k \in 1 .. a : cs[k] = bs[k]
      BY <1>1, <3>1, <3>2, AppendProperties
    <3>4. \A k \in 1 .. Len(cs) : DOMAIN cs[k] = 0 .. Pow2(k - 1) - 1
      <4> TAKE k \in 1 .. Len(cs)
      <4>1. CASE k = a + 1
        <5>1. k - 1 = a
          BY <1>2, <4>1
        <5> QED BY <2>2, <3>1, <3>3, <4>1, <5>1
      <4>2. CASE k # a + 1
        <5>1. k \in 1 .. a
          BY <1>2, <3>3, <4>2
        <5> QED BY <1>1, <3>2, <3>3, <5>1
      <4> QED BY <4>1, <4>2
    <3>5. ASSUME NEW k \in 1 .. Len(cs), NEW b \in DOMAIN cs[k]
          PROVE  cs[k][b] = ContentAt(<<k - 1, b>>, m, d)
      <4>1. CASE k = a + 1
        <5> DEFINE h == <<a, b>>
        <5>1. b \in 0 .. m - 1 /\ cs[k][b] = NoObject /\ k - 1 = a
          BY <1>2, <3>1, <3>3, <4>1
        <5>2. h \in AnyHandle /\ h[1] = a /\ h[2] = b
          <6>1. a \in 0 .. 30 /\ b \in Nat /\ b < Pow2(a)
            BY <1>2, <2>2, <3>1, <5>1
          <6> QED BY <6>1 DEF AnyHandle
        <5> HIDE DEF h
        <5>3. IndexOf(h) = n + b
          <6>1. IndexOf(h) = Pow2(a) + b - 1
            BY <5>2, IndexIs
          <6>2. Pow2(a) = n + 1 /\ n \in Nat /\ b \in Nat
            BY <1>1, <1>8, <2>2, <3>1, <5>1
          <6> QED BY <6>1, <6>2
        <5>4. (IF IndexOf(h) < m THEN d[IndexOf(h)] ELSE NoObject) = NoObject
          BY <1>0, <1>1, <1>8, <5>1, <5>3
        <5> QED BY <5>1, <5>4 DEF h, ContentAt
      <4>2. CASE k # a + 1
        <5>1. k \in 1 .. Len(bs) /\ cs[k] = bs[k]
          BY <1>2, <3>2, <3>3, <4>2
        <5> QED BY <1>7, <5>1
      <4> QED BY <4>1, <4>2
    <3>6. IsBlocks(cs, m, d)
      BY <1>2, <1>5, <3>3, <3>4, <3>5, BlocksAre DEF Shaped
    <3>7. Last(cs) = f
      BY <3>3 DEF Last
    <3> QED BY <2>2, <3>1, <3>3, <3>6, <3>7
  <2> QED BY <2>1, <2>2
<1>10. Len(cs) - 1 = a
  <2>1. a \in 0 .. 30
    BY <1>2
  <2>2. Len(cs) = a + 1
    BY <1>9
  <2> QED BY <2>1, <2>2
<1>11. HandleOf(n) = <<Len(cs) - 1, (n + 1) - Domain(Last(cs))>>
  <2>1. HandleOf(n) = <<a, m - Pow2(a)>> /\ Domain(Last(cs)) = Pow2(a)
    BY <1>2, <1>9
  <2>2. m - Pow2(a) = (n + 1) - Domain(Last(cs))
    <3>1. Domain(Last(cs)) = Pow2(a) /\ m = n + 1
      BY <1>8, <1>9
    <3>2. n \in Nat /\ Pow2(a) \in Nat
      BY <1>1, <1>2
    <3> QED BY <3>1, <3>2
  <2> QED BY <1>10, <2>1, <2>2
<1>12. EndSlot(cs, n + 1) = HandleOf(n)
  BY <1>11 DEF EndSlot
<1> QED BY <1>5, <1>8, <1>9, <1>12 DEF cs, d

\* pop_back() gives up the last slot: its block goes with it if it is the first
\* of the block.
LEMMA DropIs ==
  ASSUME NEW n, NEW c, IsContent(n, c), NEW bs, IsBlocks(bs, n, c), n > 0,
         NEW idx, idx = n - Pow2(BitScanReverse(n)), idx # 0 => c[n - 1] = NoObject
  PROVE  IsContent(n - 1, Shorter(c, n)) /\ IsBlocks(Dropped(bs, idx), n - 1, Shorter(c, n))
<1> DEFINE cs == Dropped(bs, idx)
           d == Shorter(c, n)
<1> HIDE DEF cs, d
<1> DEFINE a == BitScanReverse(n)
           m == n - 1
<1>1. /\ n \in Sizes /\ n \in Nat /\ c \in [0 .. n - 1 -> Contents]
      /\ bs \in Seq(AnyBlock) /\ Len(bs) = BlockCount(n)
      /\ \A k \in 1 .. Len(bs) : DOMAIN bs[k] = 0 .. Pow2(k - 1) - 1
  BY DEF IsContent, IsBlocks, Sizes
<1>2. m \in Sizes /\ m \in Nat /\ m + 1 = n
  BY <1>1, LimitNat DEF Sizes
<1> HIDE DEF m
<1>3. /\ a \in 0 .. 30 /\ Pow2(a) \in Nat \ {0}
      /\ BlockCount(n) = a + 1 /\ BlockCount(m) = (IF n = Pow2(a) THEN a ELSE a + 1)
  BY <1>1, <1>2, ScanNext
<1> HIDE DEF a
<1>4. a \in Int /\ Len(bs) = a + 1 /\ Len(bs) \in Nat
  <2>1. a \in Int
    BY <1>3
  <2>2. Len(bs) = a + 1
    BY <1>1, <1>3
  <2> QED BY <1>1, <2>1, <2>2, LenProperties
<1>5. idx = n - Pow2(a)
  BY DEF a
<1>6. idx = 0 <=> n = Pow2(a)
  BY <1>1, <1>3, <1>5
<1>7. d = [i \in 0 .. m - 1 |-> c[i]]
  <2>1. n - 2 = m - 1
    BY <1>1, <1>2
  <2> QED BY <2>1 DEF d, Shorter
<1>8. IsContent(m, d)
  <2>1. d \in [0 .. m - 1 -> Contents]
    BY <1>1, <1>2, <1>7
  <2> QED BY <1>2, <2>1 DEF IsContent
<1>9. cs \in Seq(AnyBlock) /\ Len(cs) = BlockCount(m) /\ \A k \in 1 .. Len(cs) : cs[k] = bs[k]
  <2>1. CASE idx = 0
    <3>1. \A k \in 1 .. a : bs[k] \in AnyBlock
      BY <1>1, <1>4, ElementOfSeq
    <3>2. cs = SubSeq(bs, 1, a)
      <4>1. Len(bs) - 1 = a
        BY <1>4
      <4> QED BY <2>1, <4>1 DEF Front, cs, Dropped
    <3>3. a >= 0 /\ a - 1 + 1 = a
      BY <1>3
    <3>4. /\ cs \in Seq(AnyBlock) /\ Len(cs) = (IF 1 <= a THEN a - 1 + 1 ELSE 0)
          /\ \A i \in 1 .. a - 1 + 1 : cs[i] = bs[1 + i - 1]
      BY <1>4, <3>1, <3>2, SubSeqProperties
    <3>5. Len(cs) = a
      BY <1>4, <3>3, <3>4
    <3>6. ASSUME NEW k \in 1 .. Len(cs) PROVE cs[k] = bs[k]
      <4>1. k \in 1 .. a - 1 + 1 /\ 1 + k - 1 = k
        BY <1>4, <3>5
      <4>2. cs[k] = bs[1 + k - 1]
        BY <3>4, <4>1
      <4>3. 1 + k - 1 = k /\ k \in Int
        BY <4>1
      <4> QED BY <4>2, <4>3
    <3> QED BY <1>3, <1>6, <2>1, <3>4, <3>5, <3>6
  <2>2. CASE idx # 0
    BY <1>1, <1>3, <1>6, <2>2 DEF cs, Dropped
  <2> QED BY <2>1, <2>2
<1>10. \A k \in 1 .. Len(cs) : k \in 1 .. Len(bs)
  <2>1. Len(cs) <= Len(bs)
    BY <1>3, <1>4, <1>9
  <2> QED BY <1>4, <1>9, <2>1, LenProperties
<1>11. \A k \in 1 .. Len(cs) : DOMAIN cs[k] = 0 .. Pow2(k - 1) - 1
  BY <1>1, <1>9, <1>10
<1>12. ASSUME NEW k \in 1 .. Len(cs), NEW b \in DOMAIN cs[k]
       PROVE  cs[k][b] = ContentAt(<<k - 1, b>>, m, d)
  <2> DEFINE h == <<k - 1, b>>
  <2>1. b \in Nat /\ k \in 1 .. Len(bs) /\ b \in DOMAIN bs[k]
    <3>1. k \in 1 .. Len(bs) /\ b \in DOMAIN bs[k]
      BY <1>9, <1>10
    <3>2. PICK q \in Nat : DOMAIN bs[k] = 0 .. q - 1
      BY <1>1, <3>1, SlotIs
    <3> QED BY <3>1, <3>2
  <2>2. h \in SlotsIn(bs) /\ h[1] = k - 1 /\ h[2] = b /\ k - 1 + 1 = k
    BY <1>1, <2>1, SlotIs
  <2> HIDE DEF h
  <2>3. cs[k][b] = InSlot(bs, h)
    <3>1. k \in Int
      BY <2>1
    <3> QED BY <1>9, <2>2, <3>1 DEF InSlot
  <2>4. cs[k][b] = IF IndexOf(h) < n THEN c[IndexOf(h)] ELSE NoObject
    BY <2>2, <2>3 DEF IsBlocks
  <2>5. IndexOf(h) \in Nat /\ h = HandleOf(IndexOf(h))
    BY <2>2, ArraySlots
  <2>6. CASE IndexOf(h) = m
    <3>1. h = <<a, n - Pow2(a)>>
      <4>4. n = m + 1 /\ a = BitScanReverse(n)
        BY <1>2 DEF a
      <4>5. HandleOf(m) = <<a, n - Pow2(a)>>
        BY <1>2, <4>4, LastHandleIs
      <4> QED BY <2>5, <2>6, <4>5
    <3>2. k - 1 = a
      BY <2>2, <3>1
    <3>3. idx # 0
      <4>1. k <= BlockCount(m) /\ k = a + 1
        BY <1>4, <1>9, <2>1, <3>2
      <4> QED BY <1>3, <1>4, <1>6, <4>1
    <3>4. c[m] = NoObject
      BY <1>2, <3>3 DEF m
    <3> QED BY <1>2, <2>4, <2>6, <3>4 DEF h, ContentAt
  <2>7. CASE IndexOf(h) # m
    <3>1. (IF IndexOf(h) < m THEN d[IndexOf(h)] ELSE NoObject)
          = (IF IndexOf(h) < n THEN c[IndexOf(h)] ELSE NoObject)
      BY <1>1, <1>2, <1>7, <2>5, <2>7
    <3> QED BY <2>4, <3>1 DEF h, ContentAt
  <2> QED BY <2>6, <2>7
<1>13. IsBlocks(cs, m, d)
  BY <1>8, <1>9, <1>11, <1>12, BlocksAre DEF Shaped
<1> QED BY <1>8, <1>13 DEF m, cs, d

\* resize() keeps what is below both sizes and adds the rest.
LEMMA ResizeIs ==
  ASSUME NEW s, NEW c, IsContent(s, c), NEW bs, IsBlocks(bs, s, c),
         NEW n \in Sizes, n > 0, NEW new \in [s .. n - 1 -> Contents]
  PROVE  /\ IsContent(n, Joined(c, s, n, new))
         /\ IsBlocks(Resized(Widened(bs, n), s, n, new), n, Joined(c, s, n, new))
<1> DEFINE ws == Widened(bs, n)
           cs == Resized(ws, s, n, new)
           d == Joined(c, s, n, new)
           L == BlockCount(n)
<1>1. /\ s \in Sizes /\ s \in Nat /\ c \in [0 .. s - 1 -> Contents]
      /\ bs \in Seq(AnyBlock) /\ Len(bs) = BlockCount(s) /\ Len(bs) \in Nat
      /\ n \in Nat
  BY LenProperties DEF IsContent, IsBlocks, Sizes
<1>2. \A k \in 1 .. Len(bs) : DOMAIN bs[k] = 0 .. Pow2(k - 1) - 1
  BY DEF IsBlocks
<1>0. L = BitScanReverse(n) + 1
  BY <1>1, BlockCountIs
<1>3. L \in 1 .. 31
  BY <1>1, BlockCountIs
<1>4. ws = [k \in 1 .. L |-> IF k <= Len(bs) THEN bs[k] ELSE Block(Pow2(k - 1))]
  BY <1>0 DEF Pow2, Widened
<1>5. \A i \in 0 .. n - 1 : d[i] = IF i < s THEN c[i] ELSE new[i]
  BY DEF Joined
<1>6. IsContent(n, d)
  <2>1. d \in [0 .. n - 1 -> Contents]
    BY <1>1 DEF Joined
  <2> QED BY <2>1 DEF IsContent
<1>7. DOMAIN cs = DOMAIN ws
      /\ \A k \in DOMAIN ws : cs[k] = [b \in DOMAIN ws[k] |-> SlotAfter(ws, s, n, new, k, b)]
  BY DEF Resized
<1> HIDE DEF ws, cs, d, L
<1>8. DOMAIN ws = 1 .. L /\ DOMAIN cs = 1 .. L
  BY <1>4, <1>7
<1>9. ASSUME NEW k \in 1 .. L
      PROVE  k \in Nat /\ k - 1 \in 0 .. 30 /\ Pow2(k - 1) \in Nat
  <2>1. k \in Nat /\ k - 1 \in 0 .. 30
    BY <1>3
  <2> QED BY <2>1, PowNat, Zenon
<1>10. ASSUME NEW k \in 1 .. L PROVE DOMAIN ws[k] = 0 .. Pow2(k - 1) - 1
  <2>1. CASE k <= Len(bs)
    <3>1. k \in 1 .. Len(bs)
      BY <1>1, <1>9, <2>1
    <3> QED BY <1>2, <1>4, <2>1, <3>1
  <2>2. CASE ~(k <= Len(bs))
    <3>1. ws[k] = Block(Pow2(k - 1))
      BY <1>4, <2>2
    <3> QED BY <1>9, <3>1, BlockIs
  <2> QED BY <2>1, <2>2
<1>11. ASSUME NEW k \in 1 .. L, NEW b \in DOMAIN ws[k]
       PROVE  SlotAfter(ws, s, n, new, k, b) = ContentAt(<<k - 1, b>>, n, d)
  <2> DEFINE h == <<k - 1, b>>
             i == IndexOf(h)
  <2>1. h \in AnyHandle /\ h[1] = k - 1 /\ h[2] = b
    <3>1. k - 1 \in 0 .. 30 /\ Pow2(k - 1) \in Nat
      BY <1>9
    <3>2. b \in Nat /\ b < Pow2(k - 1)
      BY <1>10, <3>1
    <3> QED BY <3>1, <3>2 DEF AnyHandle
  <2>2. i \in Nat /\ h = HandleOf(i)
    BY <2>1, IndexIs DEF Sizes
  <2>3. /\ i \in s .. n - 1 => SlotAfter(ws, s, n, new, k, b) = new[i]
        /\ i \notin s .. n - 1 /\ i >= n => SlotAfter(ws, s, n, new, k, b) = NoObject
        /\ i \notin s .. n - 1 /\ ~(i >= n) => SlotAfter(ws, s, n, new, k, b) = ws[k][b]
    BY DEF SlotAfter
  <2>4. /\ i < n => ContentAt(h, n, d) = d[i]
        /\ ~(i < n) => ContentAt(h, n, d) = NoObject
    BY DEF ContentAt
  <2> DEFINE after == SlotAfter(ws, s, n, new, k, b)
             there == ContentAt(h, n, d)
  <2> HIDE DEF i, after, there
  <2>5. CASE i >= n
    <3>1. i \notin s .. n - 1 /\ ~(i < n)
      BY <1>1, <2>2, <2>5
    <3> QED BY <2>3, <2>4, <2>5, <3>1 DEF h
  <2>6. CASE i < n /\ s <= i
    <3>1. i \in s .. n - 1 /\ i \in 0 .. n - 1 /\ ~(i < s)
      BY <1>1, <2>2, <2>6
    <3>2. d[i] = new[i]
      BY <1>5, <3>1
    <3> QED BY <2>3, <2>4, <2>6, <3>1, <3>2 DEF h
  <2>7. CASE i < n /\ i < s
    <3>1. i \in 0 .. s - 1 /\ i \in 0 .. n - 1 /\ i \notin s .. n - 1 /\ ~(i >= n)
      BY <1>1, <2>2, <2>7
    <3>2. h[1] \in 0 .. BlockCount(s) - 1
      BY <1>1, <2>2, <3>1, InsideIs
    <3>3. k \in 1 .. Len(bs) /\ k <= Len(bs)
      <4>1. k \in Nat /\ BlockCount(s) \in Nat
        BY <1>1, <1>9
      <4>2. k - 1 <= BlockCount(s) - 1 /\ 1 <= k
        BY <2>1, <3>2
      <4>3. k <= BlockCount(s)
        BY <4>1, <4>2
      <4> QED BY <1>1, <4>1, <4>2, <4>3
    <3>4. ws[k][b] = bs[k][b]
      <4>1. ws[k] = bs[k]
        BY <1>4, <3>3
      <4> QED BY <4>1
    <3>5. bs[k][b] = InSlot(bs, h)
      <4>1. h[1] + 1 = k
        BY <1>9, <2>1
      <4> QED BY <2>1, <4>1 DEF InSlot
    <3>6. InSlot(bs, h) = c[i]
      BY <2>2, <3>1, ArraySlots
    <3>7. d[i] = c[i]
      BY <1>5, <2>7, <3>1
    <3>8. SlotAfter(ws, s, n, new, k, b) = d[i]
      BY <2>3, <3>1, <3>4, <3>5, <3>6, <3>7
    <3> QED BY <2>4, <2>7, <3>8 DEF h
  <2>8. i >= n \/ (i < n /\ s <= i) \/ (i < n /\ i < s)
    BY <1>1, <2>2
  <2> QED BY <2>5, <2>6, <2>7, <2>8
<1>12. ASSUME NEW k \in 1 .. L
       PROVE  /\ DOMAIN cs[k] = 0 .. Pow2(k - 1) - 1
              /\ \A b \in DOMAIN cs[k] : cs[k][b] = ContentAt(<<k - 1, b>>, n, d)
              /\ cs[k] \in AnyBlock
  <2>1. cs[k] = [b \in DOMAIN ws[k] |-> SlotAfter(ws, s, n, new, k, b)]
    BY <1>7, <1>8
  <2>2. DOMAIN cs[k] = DOMAIN ws[k]
    BY <2>1
  <2>3. \A b \in DOMAIN ws[k] : cs[k][b] = ContentAt(<<k - 1, b>>, n, d)
    BY <1>11, <2>1
  <2>4. \A b \in DOMAIN ws[k] : ContentAt(<<k - 1, b>>, n, d) \in Contents
    <3> TAKE b \in DOMAIN ws[k]
    <3> DEFINE h == <<k - 1, b>>
    <3>1. IndexOf(h) \in Nat
      <4>1. k - 1 \in 0 .. 30 /\ Pow2(k - 1) \in Nat
        BY <1>9
      <4>2. b \in Nat /\ b < Pow2(k - 1)
        BY <1>10, <4>1
      <4>3. h \in AnyHandle
        BY <4>1, <4>2 DEF AnyHandle
      <4> QED BY <4>3, IndexIs DEF Sizes
    <3> HIDE DEF h
    <3>2. IndexOf(h) < n => d[IndexOf(h)] \in Contents
      <4>1. d \in [0 .. n - 1 -> Contents]
        BY <1>6 DEF IsContent
      <4> QED BY <1>1, <3>1, <4>1
    <3>3. ContentAt(h, n, d) \in Contents
      BY <3>2 DEF ContentAt, Contents
    <3> QED BY <3>3 DEF h
  <2>5. cs[k] \in [DOMAIN ws[k] -> Contents]
    BY <2>1, <2>2, <2>3, <2>4
  <2>6. DOMAIN ws[k] = 0 .. Pow2(k - 1) - 1
    BY <1>10
  <2> DEFINE q == Pow2(k - 1)
  <2>7. q \in Nat
    BY <1>9
  <2> HIDE DEF q
  <2>8. cs[k] \in [0 .. q - 1 -> Contents]
    BY <2>5, <2>6 DEF q
  <2>9. cs[k] \in AnyBlock
    BY <2>7, <2>8 DEF AnyBlock
  <2> QED BY <2>2, <2>3, <2>6, <2>9
<1>13. cs \in Seq(AnyBlock) /\ Len(cs) = L
  <2>1. L \in Nat
    BY <1>3
  <2>2. cs = [k \in 1 .. L |-> cs[k]]
    BY <1>7, <1>8 DEF cs, Resized
  <2>3. cs \in [1 .. L -> AnyBlock]
    BY <1>12, <2>2
  <2>4. cs \in Seq(AnyBlock)
    BY <2>1, <2>3
  <2> QED BY <1>8, <2>1, <2>4, LenProperties
<1>14. IsBlocks(cs, n, d)
  <2>1. Len(cs) = BlockCount(n)
    BY <1>13 DEF L
  <2>2. Shaped(cs)
    BY <1>12, <1>13 DEF Shaped
  <2>3. \A k \in 1 .. Len(cs) : \A b \in DOMAIN cs[k] : cs[k][b] = ContentAt(<<k - 1, b>>, n, d)
    BY <1>12, <1>13
  <2> QED BY <1>6, <1>13, <2>1, <2>2, <2>3, BlocksAre
<1> QED BY <1>6, <1>14 DEF cs, d, ws

----------------------------------------------------------------------------
(* What the slots hold *)

Filled(c) == {i \in DOMAIN c : c[i] # NoObject}
HeldOf(c) == {c[i] : i \in Filled(c)}
OneEach(c) == \A i, j \in Filled(c) : c[i] = c[j] => i = j
HeldIn(bs) == {InSlot(bs, h) : h \in SlotsIn(bs)} \ {NoObject}
ConstructedIn(bs) == {h \in SlotsIn(bs) : InSlot(bs, h) # NoObject}

\* The slots that are filled are among those there are, and finitely many.
LEMMA FilledIs ==
  ASSUME NEW n, NEW c, IsContent(n, c)
  PROVE  /\ n \in Nat /\ DOMAIN c = 0 .. n - 1
         /\ Filled(c) \subseteq 0 .. n - 1 /\ IsFiniteSet(Filled(c))
         /\ Cardinality(Filled(c)) \in Nat
         /\ HeldOf(c) \subseteq Objects
<1>1. n \in Nat /\ c \in [0 .. n - 1 -> Contents]
  BY DEF IsContent, Sizes
<1>2. DOMAIN c = 0 .. n - 1 /\ Filled(c) \subseteq 0 .. n - 1
  BY <1>1 DEF Filled
<1>3. IsFiniteSet(0 .. n - 1)
  BY <1>1, FS_Interval
<1>4. IsFiniteSet(Filled(c)) /\ Cardinality(Filled(c)) \in Nat
  BY <1>2, <1>3, FS_Subset, FS_CardinalityType
<1>5. HeldOf(c) \subseteq Objects
  BY <1>1, <1>2 DEF HeldOf, Filled, Contents
<1> QED BY <1>1, <1>2, <1>4, <1>5

\* The blocks hold what the content has.
LEMMA HeldIs ==
  ASSUME NEW n, NEW c, IsContent(n, c), NEW bs, IsBlocks(bs, n, c)
  PROVE  /\ HeldIn(bs) = HeldOf(c)
         /\ ConstructedIn(bs) = {HandleOf(i) : i \in Filled(c)}
         /\ IsFiniteSet(ConstructedIn(bs))
         /\ Cardinality(ConstructedIn(bs)) = Cardinality(Filled(c))
<1>1. /\ n \in Nat /\ n \in Sizes /\ DOMAIN c = 0 .. n - 1
      /\ \A i \in Filled(c) : i \in 0 .. n - 1 /\ c[i] # NoObject
      /\ \A i \in 0 .. n - 1 : c[i] # NoObject => i \in Filled(c)
  BY FilledIs DEF Filled, IsContent
<1>2. /\ \A i \in 0 .. n - 1 : HandleOf(i) \in SlotsIn(bs) /\ InSlot(bs, HandleOf(i)) = c[i]
      /\ \A i \in 0 .. n - 1 : IndexOf(HandleOf(i)) = i
      /\ \A h \in SlotsIn(bs) : /\ IndexOf(h) \in Nat /\ h = HandleOf(IndexOf(h))
                                /\ InSlot(bs, h) # NoObject => IndexOf(h) < n
  BY <1>1, ArraySlots, InsideIs
<1>3. ASSUME NEW h \in SlotsIn(bs), InSlot(bs, h) # NoObject
      PROVE  IndexOf(h) \in Filled(c) /\ h = HandleOf(IndexOf(h)) /\ InSlot(bs, h) = c[IndexOf(h)]
  <2>1. IndexOf(h) \in 0 .. n - 1 /\ h = HandleOf(IndexOf(h))
    BY <1>1, <1>2, <1>3
  <2>2. InSlot(bs, h) = c[IndexOf(h)]
    BY <1>2, <2>1
  <2> QED BY <1>1, <1>3, <2>1, <2>2
<1>4. ASSUME NEW i \in Filled(c)
      PROVE  HandleOf(i) \in SlotsIn(bs) /\ InSlot(bs, HandleOf(i)) = c[i] /\ c[i] # NoObject
  BY <1>1, <1>2
<1>5. HeldIn(bs) = HeldOf(c)
  BY <1>3, <1>4 DEF HeldIn, HeldOf
<1>6. ConstructedIn(bs) = {HandleOf(i) : i \in Filled(c)}
  BY <1>3, <1>4 DEF ConstructedIn
<1> DEFINE f == [i \in Filled(c) |-> HandleOf(i)]
<1>7. f \in Bijection(Filled(c), ConstructedIn(bs))
  <2>1. f \in [Filled(c) -> ConstructedIn(bs)]
    BY <1>6
  <2>2. \A i, j \in Filled(c) : f[i] = f[j] => i = j
    BY <1>1, <1>2
  <2>3. \A h \in ConstructedIn(bs) : \E i \in Filled(c) : f[i] = h
    BY <1>6
  <2> HIDE DEF f
  <2> QED BY <2>1, <2>2, <2>3, Fun_IsBij
<1>8. IsFiniteSet(ConstructedIn(bs)) /\ Cardinality(ConstructedIn(bs)) = Cardinality(Filled(c))
  <2>1. ExistsBijection(Filled(c), ConstructedIn(bs))
    BY <1>7 DEF ExistsBijection
  <2>2. IsFiniteSet(Filled(c))
    BY FilledIs
  <2> QED BY <2>1, <2>2, FS_Bijection
<1> QED BY <1>5, <1>6, <1>8

\* An object that comes to a hole.
LEMMA PutAt ==
  ASSUME NEW n, NEW c, IsContent(n, c), NEW i \in 0 .. n - 1, c[i] = NoObject,
         NEW o \in Objects \ HeldOf(c)
  PROVE  LET d == Put(c, i, o)
         IN  /\ Filled(d) = Filled(c) \cup {i} /\ HeldOf(d) = HeldOf(c) \cup {o}
             /\ Cardinality(Filled(d)) = Cardinality(Filled(c)) + 1
             /\ OneEach(c) => OneEach(d)
<1> DEFINE d == Put(c, i, o)
<1>1. /\ DOMAIN c = 0 .. n - 1 /\ IsFiniteSet(Filled(c)) /\ o # NoObject
      /\ i \notin Filled(c)
  BY FilledIs, ObjectsAssumption DEF Filled
<1>2. DOMAIN d = DOMAIN c /\ d[i] = o /\ \A j \in DOMAIN c : j # i => d[j] = c[j]
  BY <1>1 DEF Put
<1> HIDE DEF d
<1>3. Filled(d) = Filled(c) \cup {i}
  BY <1>1, <1>2 DEF Filled
<1>4. \A j \in Filled(c) : d[j] = c[j] /\ c[j] # o
  BY <1>1, <1>2 DEF Filled, HeldOf
<1>5. HeldOf(d) = HeldOf(c) \cup {o}
  BY <1>2, <1>3, <1>4 DEF HeldOf
<1>6. Cardinality(Filled(d)) = Cardinality(Filled(c)) + 1
  BY <1>1, <1>3, FS_AddElement
<1>7. OneEach(c) => OneEach(d)
  BY <1>2, <1>3, <1>4 DEF OneEach
<1> QED BY <1>3, <1>5, <1>6, <1>7 DEF d

\* An object that goes.
LEMMA TakeAt ==
  ASSUME NEW n, NEW c, IsContent(n, c), NEW i \in Filled(c)
  PROVE  LET d == Put(c, i, NoObject)
         IN  /\ Filled(d) = Filled(c) \ {i} /\ (OneEach(c) => HeldOf(d) = HeldOf(c) \ {c[i]})
             /\ Cardinality(Filled(d)) = Cardinality(Filled(c)) - 1
             /\ OneEach(c) => OneEach(d)
<1> DEFINE d == Put(c, i, NoObject)
<1>1. /\ DOMAIN c = 0 .. n - 1 /\ IsFiniteSet(Filled(c)) /\ i \in DOMAIN c
  BY FilledIs DEF Filled
<1>2. DOMAIN d = DOMAIN c /\ d[i] = NoObject /\ \A j \in DOMAIN c : j # i => d[j] = c[j]
  BY <1>1 DEF Put
<1> HIDE DEF d
<1>3. Filled(d) = Filled(c) \ {i}
  BY <1>1, <1>2 DEF Filled
<1>4. \A j \in Filled(d) : d[j] = c[j] /\ j \in Filled(c) /\ j # i
  BY <1>2, <1>3 DEF Filled
<1>5. OneEach(c) => HeldOf(d) = HeldOf(c) \ {c[i]}
  BY <1>3, <1>4 DEF HeldOf, OneEach
<1>6. Cardinality(Filled(d)) = Cardinality(Filled(c)) - 1
  BY <1>1, <1>3, FS_RemoveElement
<1>7. OneEach(c) => OneEach(d)
  BY <1>4 DEF OneEach
<1> QED BY <1>3, <1>5, <1>6, <1>7 DEF d

\* A hole at the end, more or less, is no matter.
LEMMA LongerIs ==
  ASSUME NEW n, NEW c, IsContent(n, c)
  PROVE  LET d == Longer(c, n)
         IN  /\ Filled(d) = Filled(c) /\ HeldOf(d) = HeldOf(c) /\ (OneEach(c) => OneEach(d))
             /\ d[n] = NoObject
<1> DEFINE d == Longer(c, n)
<1>1. n \in Nat /\ DOMAIN c = 0 .. n - 1
  BY FilledIs
<1>2. DOMAIN d = 0 .. n /\ d[n] = NoObject /\ \A j \in DOMAIN c : j \in DOMAIN d /\ d[j] = c[j]
  BY <1>1 DEF Longer
<1>3. \A j \in 0 .. n : j = n \/ j \in DOMAIN c
  BY <1>1
<1> HIDE DEF d
<1>4. Filled(d) = Filled(c) /\ \A j \in Filled(c) : d[j] = c[j]
  BY <1>2, <1>3 DEF Filled
<1> QED BY <1>2, <1>4 DEF d, HeldOf, OneEach

\* The content without the last slot.
LEMMA ShorterIs ==
  ASSUME NEW n, NEW c, IsContent(n, c), n > 0
  PROVE  LET d == Shorter(c, n)
         IN  /\ Filled(d) = Filled(c) \ {n - 1} /\ \A i \in 0 .. n - 2 : d[i] = c[i]
             /\ OneEach(c) => OneEach(d)
<1> DEFINE d == Shorter(c, n)
<1>1. n \in Nat /\ DOMAIN c = 0 .. n - 1
  BY FilledIs
<1>2. /\ DOMAIN d = 0 .. n - 2
      /\ \A j \in DOMAIN c : j # n - 1 <=> j \in DOMAIN d
      /\ \A j \in DOMAIN d : j \in DOMAIN c /\ d[j] = c[j]
  BY <1>1 DEF Shorter
<1> HIDE DEF d
<1>3. Filled(d) = Filled(c) \ {n - 1} /\ \A j \in Filled(d) : d[j] = c[j]
  BY <1>2 DEF Filled
<1> QED BY <1>2, <1>3 DEF d, OneEach

\* resize() takes the objects beyond the new size, and adds new ones.
Gone(c, n) == {i \in Filled(c) : i >= n}

\* The objects that come are others than those that are there.
Fresh(s, c, n, new) ==
  /\ \A i, j \in s .. n - 1 : new[i] = new[j] => i = j
  /\ \A i \in s .. n - 1 : new[i] \notin HeldOf(c)

\* The content after resize(): some go, the new ones come.
LEMMA JoinedIs ==
  ASSUME NEW s, NEW c, IsContent(s, c), NEW n \in Nat, NEW new \in [s .. n - 1 -> Objects]
  PROVE  LET d == Joined(c, s, n, new)
             gone == Gone(c, n)
         IN  /\ Filled(d) = (Filled(c) \ gone) \cup (s .. n - 1)
             /\ IsFiniteSet(gone) /\ IsFiniteSet(Filled(d))
             /\ Cardinality(Filled(d))
                = Cardinality(Filled(c)) + Cardinality(s .. n - 1) - Cardinality(gone)
             /\ OneEach(c) /\ Fresh(s, c, n, new) => OneEach(d)
<1> DEFINE d == Joined(c, s, n, new)
           gone == Gone(c, n)
           left == Filled(c) \ gone
           added == s .. n - 1
<1>1. /\ s \in Nat /\ DOMAIN c = 0 .. s - 1 /\ Filled(c) \subseteq 0 .. s - 1
      /\ IsFiniteSet(Filled(c))
  BY FilledIs
<1>2. DOMAIN d = 0 .. n - 1 /\ \A i \in 0 .. n - 1 : d[i] = IF i < s THEN c[i] ELSE new[i]
  BY DEF Joined
<1>3. \A i \in added : new[i] # NoObject
  BY ObjectsAssumption
<1>4. /\ \A i \in left : i \in 0 .. n - 1 /\ i < s /\ c[i] # NoObject
      /\ \A i \in added : i \in 0 .. n - 1 /\ ~(i < s)
      /\ \A i \in 0 .. n - 1 : (i < s /\ c[i] # NoObject => i \in left) /\ (i < s \/ i \in added)
  BY <1>1 DEF Filled, Gone
<1> HIDE DEF d, gone, left, added
<1>5. Filled(d) = left \cup added
  BY <1>2, <1>3, <1>4 DEF Filled
<1>6. /\ IsFiniteSet(gone) /\ IsFiniteSet(left) /\ Cardinality(gone) \in Nat
      /\ Cardinality(left) = Cardinality(Filled(c)) - Cardinality(gone)
  <2>1. gone \subseteq Filled(c) /\ Filled(c) \cap gone = gone
    BY DEF gone, Gone
  <2>2. IsFiniteSet(gone) /\ Cardinality(gone) \in Nat
    BY <1>1, <2>1, FS_Subset, FS_CardinalityType
  <2>3. /\ IsFiniteSet(left)
        /\ Cardinality(left) = Cardinality(Filled(c)) - Cardinality(Filled(c) \cap gone)
    BY <1>1, <2>2, FS_Difference DEF left
  <2> QED BY <2>1, <2>2, <2>3
<1>7. IsFiniteSet(added) /\ Cardinality(added) \in Nat
  BY <1>1, FS_Interval, FS_CardinalityType DEF added
<1>8. /\ IsFiniteSet(left \cup added)
      /\ Cardinality(left \cup added) = Cardinality(left) + Cardinality(added)
  <2>1. left \cap added = {}
    BY <1>4
  <2>2. Cardinality(left \cap added) = 0
    BY <2>1, FS_EmptySet
  <2>3. Cardinality(left) \in Nat
    BY <1>6, FS_CardinalityType
  <2>4. Cardinality(left \cup added)
        = Cardinality(left) + Cardinality(added) - Cardinality(left \cap added)
    BY <1>6, <1>7, FS_Union
  <2> QED BY <1>6, <1>7, <2>2, <2>3, <2>4, FS_Union
<1>9. Cardinality(Filled(d)) = Cardinality(Filled(c)) + Cardinality(added) - Cardinality(gone)
  <2>1. Cardinality(Filled(c)) \in Nat
    BY <1>1, FS_CardinalityType
  <2> QED BY <1>5, <1>6, <1>7, <1>8, <2>1
<1>10. ASSUME OneEach(c), Fresh(s, c, n, new)
       PROVE  OneEach(d)
  <2>0. /\ \A i, j \in added : new[i] = new[j] => i = j
        /\ \A i \in added : new[i] \notin HeldOf(c)
    BY <1>10 DEF Fresh, added
  <2>1. \A i \in left : d[i] = c[i] /\ i \in Filled(c)
    BY <1>2, <1>4 DEF left
  <2>2. \A i \in added : d[i] = new[i]
    BY <1>2, <1>4
  <2>3. \A i \in left : \A j \in added : d[i] # d[j]
    BY <2>0, <2>1, <2>2 DEF HeldOf
  <2> QED BY <1>5, <1>10, <2>0, <2>1, <2>2, <2>3 DEF OneEach
<1> QED BY <1>5, <1>6, <1>8, <1>9, <1>10 DEF d, gone, left, added

----------------------------------------------------------------------------
(* What the operations make of an array *)

\* An array of n slots with content c: its blocks, its count; a dense one is full.
ArrayHas(n, c, bs, count, u) ==
  /\ IsContent(n, c) /\ n <= MaxSize
  /\ IsBlocks(bs, n, c)
  /\ OneEach(c)
  /\ count = Cardinality(Filled(c))
  /\ u = "dense" => Filled(c) = 0 .. n - 1

\* A size within the bound is one of an int.
LEMMA SizeFits == \A n \in Nat : n <= MaxSize => n \in Sizes
<1> TAKE n \in Nat
<1>1. MaxSize \in Sizes /\ Limit \in Nat
  BY SizesInside, LimitNat
<1> QED BY <1>1 DEF Sizes

\* An empty array.
LEMMA EmptyHas ==
  ASSUME NEW u
  PROVE  ArrayHas(0, [i \in 0 .. 0 - 1 |-> NoObject], <<>>, 0, u)
<1> DEFINE c == [i \in 0 .. 0 - 1 |-> NoObject]
<1>1. IsContent(0, c) /\ 0 <= MaxSize
  <2>1. 0 \in Sizes /\ MaxSize \in Nat
    BY LimitNat, BoundsAssumption DEF Sizes
  <2> QED BY <2>1 DEF IsContent, Contents
<1>2. DOMAIN c = {} /\ 0 .. 0 - 1 = {}
  OBVIOUS
<1> HIDE DEF c
<1>3. Filled(c) = {}
  BY <1>2 DEF Filled
<1>4. Cardinality(Filled(c)) = 0
  BY <1>3, FS_EmptySet
<1>5. IsBlocks(<<>>, 0, c)
  <2>1. <<>> \in Seq(AnyBlock) /\ Len(<<>>) = 0 /\ DOMAIN <<>> = {}
    OBVIOUS
  <2>2. SlotsIn(<<>>) = {}
    BY <2>1 DEF SlotsIn
  <2> QED BY <2>1, <2>2 DEF IsBlocks, BlockCount
<1> QED BY <1>1, <1>2, <1>3, <1>4, <1>5 DEF ArrayHas, OneEach, c

\* An object comes to a hole, or goes.
LEMMA PutKeeps ==
  ASSUME NEW n, NEW c, NEW bs, NEW count, NEW u, ArrayHas(n, c, bs, count, u),
         NEW i \in 0 .. n - 1, c[i] = NoObject, NEW o \in Objects \ HeldOf(c)
  PROVE  LET d == Put(c, i, o)
         IN  /\ ArrayHas(n, d, Store(bs, HandleOf(i), o), count + 1, u)
             /\ HeldOf(d) = HeldOf(c) \cup {o}
<1>1. /\ IsContent(n, c) /\ n <= MaxSize /\ IsBlocks(bs, n, c) /\ OneEach(c)
      /\ count = Cardinality(Filled(c)) /\ (u = "dense" => Filled(c) = 0 .. n - 1)
  BY DEF ArrayHas
<1> DEFINE d == Put(c, i, o)
<1>2. IsContent(n, d) /\ IsBlocks(Store(bs, HandleOf(i), o), n, d)
  BY <1>1, StoreAt DEF Contents
<1>3. /\ Filled(d) = Filled(c) \cup {i} /\ HeldOf(d) = HeldOf(c) \cup {o}
      /\ Cardinality(Filled(d)) = Cardinality(Filled(c)) + 1 /\ OneEach(d)
  BY <1>1, PutAt
<1>4. i \notin Filled(c)
  BY DEF Filled
<1> QED BY <1>1, <1>2, <1>3, <1>4 DEF ArrayHas

\* An object goes from its slot.
LEMMA TakeKeeps ==
  ASSUME NEW n, NEW c, NEW bs, NEW count, NEW u, ArrayHas(n, c, bs, count, u), u # "dense",
         NEW i \in Filled(c)
  PROVE  LET d == Put(c, i, NoObject)
         IN  /\ ArrayHas(n, d, Store(bs, HandleOf(i), NoObject), count - 1, u)
             /\ HeldOf(d) = HeldOf(c) \ {c[i]}
<1>1. /\ IsContent(n, c) /\ n <= MaxSize /\ IsBlocks(bs, n, c) /\ OneEach(c)
      /\ count = Cardinality(Filled(c))
  BY DEF ArrayHas
<1> DEFINE d == Put(c, i, NoObject)
<1>2. IsContent(n, d) /\ IsBlocks(Store(bs, HandleOf(i), NoObject), n, d)
  BY <1>1, FilledIs, StoreAt DEF Contents
<1>3. /\ HeldOf(d) = HeldOf(c) \ {c[i]}
      /\ Cardinality(Filled(d)) = Cardinality(Filled(c)) - 1 /\ OneEach(d)
  BY <1>1, TakeAt
<1> QED BY <1>1, <1>2, <1>3 DEF ArrayHas

\* emplace_back()
LEMMA PushKeeps ==
  ASSUME NEW n, NEW c, NEW bs, NEW count, NEW u, ArrayHas(n, c, bs, count, u),
         n + 1 <= MaxSize, NEW o \in Objects \ HeldOf(c)
  PROVE  LET d == Put(Longer(c, n), n, o)
             cs == Grown(bs, n)
         IN  /\ ArrayHas(n + 1, d, Store(cs, EndSlot(cs, n + 1), o), count + 1, u)
             /\ Filled(d) = Filled(c) \cup {n} /\ HeldOf(d) = HeldOf(c) \cup {o}
             /\ d[n] = o /\ \A i \in Filled(c) : d[i] = c[i]
<1>1. /\ IsContent(n, c) /\ n <= MaxSize /\ IsBlocks(bs, n, c) /\ OneEach(c)
      /\ count = Cardinality(Filled(c)) /\ (u = "dense" => Filled(c) = 0 .. n - 1)
  BY DEF ArrayHas
<1> DEFINE e == Longer(c, n)
           d == Put(e, n, o)
           cs == Grown(bs, n)
           h == EndSlot(cs, n + 1)
<1>2. n \in Nat /\ n + 1 \in Nat /\ n + 1 - 1 = n /\ n \in 0 .. n + 1 - 1
      /\ Filled(c) \subseteq 0 .. n - 1 /\ DOMAIN c = 0 .. n - 1
  BY <1>1, FilledIs
<1>3. n + 1 \in Sizes
  BY <1>2, SizeFits
<1>4. IsContent(n + 1, e) /\ IsBlocks(cs, n + 1, e) /\ h = HandleOf(n)
  BY <1>1, <1>3, GrowIs
<1>5. Filled(e) = Filled(c) /\ HeldOf(e) = HeldOf(c) /\ OneEach(e) /\ e[n] = NoObject
      /\ \A i \in 0 .. n - 1 : e[i] = c[i]
  <2>1. \A i \in 0 .. n - 1 : e[i] = c[i]
    BY <1>2 DEF Longer
  <2> QED BY <1>1, <2>1, LongerIs
<1> HIDE DEF e, h, cs
<1>6. IsContent(n + 1, d) /\ IsBlocks(Store(cs, h, o), n + 1, d)
  BY <1>2, <1>4, StoreAt DEF Contents
<1>7. /\ Filled(d) = Filled(e) \cup {n} /\ HeldOf(d) = HeldOf(e) \cup {o}
      /\ Cardinality(Filled(d)) = Cardinality(Filled(e)) + 1 /\ OneEach(d)
  BY <1>2, <1>4, <1>5, PutAt
<1>8. DOMAIN e = 0 .. n
  BY <1>2, <1>4, FilledIs
<1>9. d[n] = o /\ \A i \in Filled(c) : d[i] = c[i]
  <2>1. \A i \in Filled(c) : i # n /\ i \in 0 .. n /\ i \in 0 .. n - 1
    BY <1>2
  <2>2. n \in 0 .. n
    BY <1>2
  <2> QED BY <1>5, <1>8, <2>1, <2>2 DEF Put
<1>10. u = "dense" => Filled(d) = 0 .. n + 1 - 1
  <2>1. 0 .. n + 1 - 1 = (0 .. n - 1) \cup {n}
    BY <1>2
  <2> QED BY <1>1, <1>5, <1>7, <2>1
<1> HIDE DEF d
<1>11. ArrayHas(n + 1, d, Store(cs, h, o), count + 1, u)
  BY <1>1, <1>5, <1>6, <1>7, <1>10 DEF ArrayHas
<1> QED BY <1>5, <1>7, <1>9, <1>11 DEF d, e, h, cs

\* resize()
LEMMA ResizeKeeps ==
  ASSUME NEW s, NEW c, NEW bs, NEW count, NEW u, ArrayHas(s, c, bs, count, u),
         NEW n \in Nat, n > 0, n <= MaxSize, NEW new \in [s .. n - 1 -> Objects],
         Fresh(s, c, n, new)
  PROVE  ArrayHas(n, Joined(c, s, n, new), Resized(Widened(bs, n), s, n, new),
                  count + Cardinality(s .. n - 1)
                  - Cardinality({h \in SlotsIn(bs) : IndexOf(h) >= n /\ InSlot(bs, h) # NoObject}),
                  u)
<1>1. /\ IsContent(s, c) /\ s <= MaxSize /\ IsBlocks(bs, s, c) /\ OneEach(c)
      /\ count = Cardinality(Filled(c)) /\ (u = "dense" => Filled(c) = 0 .. s - 1)
  BY DEF ArrayHas
<1> DEFINE d == Joined(c, s, n, new)
           gone == Gone(c, n)
           over == {h \in SlotsIn(bs) : IndexOf(h) >= n /\ InSlot(bs, h) # NoObject}
<1>2. new \in [s .. n - 1 -> Contents]
  BY DEF Contents
<1>3. n \in Sizes
  BY SizeFits
<1>4. IsContent(n, d) /\ IsBlocks(Resized(Widened(bs, n), s, n, new), n, d)
  BY <1>1, <1>2, <1>3, ResizeIs
<1>5. /\ Filled(d) = (Filled(c) \ gone) \cup (s .. n - 1)
      /\ IsFiniteSet(gone)
      /\ Cardinality(Filled(d))
         = Cardinality(Filled(c)) + Cardinality(s .. n - 1) - Cardinality(gone)
      /\ OneEach(d)
  BY <1>1, <1>2, JoinedIs
<1>6. Cardinality(over) = Cardinality(gone)
  <2>1. \A i \in Filled(c) : i \in 0 .. s - 1 /\ IndexOf(HandleOf(i)) = i
    BY <1>1, FilledIs, InsideIs DEF IsContent
  <2>2. ConstructedIn(bs) = {HandleOf(i) : i \in Filled(c)}
    BY <1>1, HeldIs
  <2>3. over = {h \in ConstructedIn(bs) : IndexOf(h) >= n}
    BY DEF ConstructedIn
  <2> DEFINE f == [i \in gone |-> HandleOf(i)]
  <2>4. f \in [gone -> over]
    <3>1. \A i \in gone : HandleOf(i) \in over
      BY <2>1, <2>2, <2>3 DEF Gone
    <3> HIDE DEF gone, over
    <3> QED BY <3>1
  <2>5. \A i, j \in gone : f[i] = f[j] => i = j
    <3>1. \A i, j \in gone : HandleOf(i) = HandleOf(j) => i = j
      BY <2>1 DEF Gone
    <3> HIDE DEF gone
    <3> QED BY <3>1
  <2>6. \A h \in over : \E i \in gone : f[i] = h
    <3>1. \A h \in over : \E i \in gone : HandleOf(i) = h
      BY <2>1, <2>2, <2>3 DEF Gone
    <3> HIDE DEF gone, over
    <3> QED BY <3>1
  <2>7. f \in Bijection(gone, over)
    <3> HIDE DEF f
    <3> QED BY <2>4, <2>5, <2>6, Fun_IsBij
  <2>8. ExistsBijection(gone, over)
    BY <2>7 DEF ExistsBijection
  <2> HIDE DEF gone, over
  <2> QED BY <1>5, <2>8, FS_Bijection
<1>7. u = "dense" => Filled(d) = 0 .. n - 1
  BY <1>1, <1>5, FilledIs DEF Gone
<1> HIDE DEF d, gone, over
<1>8. ArrayHas(n, d, Resized(Widened(bs, n), s, n, new),
               count + Cardinality(s .. n - 1) - Cardinality(over), u)
  BY <1>1, <1>4, <1>5, <1>6, <1>7 DEF ArrayHas
<1> QED BY <1>8 DEF d, over

----------------------------------------------------------------------------
(* pop_back()'s search for the last element *)

\* Where the last slot is.
LEMMA LastIs ==
  ASSUME NEW n, NEW c, IsContent(n, c), NEW bs, IsBlocks(bs, n, c), n > 0
  PROVE  LET idx == n - Pow2(BitScanReverse(n))
         IN  /\ <<Len(bs) - 1, idx>> = HandleOf(n - 1)
             /\ Last(bs)[idx] = c[n - 1]
             /\ n - Domain(Last(bs)) = idx
             /\ n - 1 \in Sizes /\ n - 1 \in 0 .. n - 1
<1> DEFINE a == BitScanReverse(n)
           m == n - 1
<1>1. n \in Nat /\ n \in Sizes /\ bs \in Seq(AnyBlock) /\ Len(bs) = BlockCount(n) /\ Len(bs) \in Nat
  BY LenProperties DEF IsContent, IsBlocks, Sizes
<1>2. m \in Nat /\ m + 1 = n /\ m \in 0 .. n - 1
  BY <1>1
<1>3. m \in Sizes
  BY <1>1, LimitNat DEF Sizes
<1> HIDE DEF m
<1>4. n \in 1 .. Limit
  BY <1>1, LimitNat DEF Sizes
<1>5. a \in 0 .. 30 /\ Pow2(a) \in Nat
  BY <1>4, ScanIs, PowNat
<1>6. BlockCount(n) = a + 1
  BY <1>4 DEF BlockCount
<1>7. HandleOf(m) = <<a, n - Pow2(a)>>
  <2>1. n = m + 1
    BY <1>2
  <2> QED BY <1>3, <2>1, LastHandleIs
<1> HIDE DEF a
<1>8. Len(bs) = a + 1 /\ a \in Nat /\ Len(bs) - 1 = a
  <2>1. Len(bs) = a + 1
    BY <1>1, <1>6
  <2>2. a \in Nat
    BY <1>5
  <2> QED BY <2>1, <2>2
<1>9. <<Len(bs) - 1, n - Pow2(a)>> = HandleOf(m)
  BY <1>7, <1>8, Zenon
<1>10. Last(bs) = bs[a + 1] /\ a + 1 \in 1 .. Len(bs)
  <2>1. a + 1 \in 1 .. Len(bs)
    BY <1>8
  <2> QED BY <1>8, <2>1 DEF Last
<1>11. Last(bs)[n - Pow2(a)] = c[m]
  <2> DEFINE b == n - Pow2(a)
  <2> HIDE DEF b
  <2>1. InSlot(bs, HandleOf(m)) = c[m]
    BY <1>2, ArraySlots
  <2>2. HandleOf(m) = <<a, b>>
    BY <1>7 DEF b
  <2>3. InSlot(bs, <<a, b>>) = bs[a + 1][b]
    BY DEF InSlot
  <2> QED BY <1>10, <2>1, <2>2, <2>3 DEF b
<1>12. Domain(Last(bs)) = Pow2(a)
  <2>1. DOMAIN bs[a + 1] = 0 .. Pow2(a) - 1
    <3>1. \A k \in 1 .. Len(bs) : DOMAIN bs[k] = 0 .. Pow2(k - 1) - 1
      BY DEF IsBlocks
    <3>2. a + 1 - 1 = a
      BY <1>8
    <3> DEFINE k == a + 1
    <3>3. k \in 1 .. Len(bs) /\ k - 1 = a
      BY <1>8, <1>10, <3>2
    <3> HIDE DEF k
    <3>4. DOMAIN bs[k] = 0 .. Pow2(k - 1) - 1
      BY <3>1, <3>3
    <3> QED BY <3>3, <3>4, Zenon DEF k
  <2>2. bs[a + 1] \in AnyBlock
    BY <1>1, <1>10, ElementOfSeq
  <2> QED BY <1>5, <1>10, <2>1, <2>2, BlockIs
<1> QED BY <1>2, <1>3, <1>9, <1>11, <1>12 DEF a, m

\* The offset of the last slot, from one size to the one below.
LEMMA OffsetBelow ==
  ASSUME NEW n \in Sizes, n > 1
  PROVE  LET idx == n - Pow2(BitScanReverse(n))
             below == n - 1 - Pow2(BitScanReverse(n - 1))
         IN  below = IF idx = 0 THEN n \div 2 - 1 ELSE idx - 1
<1> DEFINE m == n - 1
           a == BitScanReverse(n)
           d == BitScanReverse(m)
<1>1. n \in Nat /\ m \in Nat /\ m + 1 = n /\ m > 0 /\ m \in Sizes
  BY LimitNat DEF Sizes
<1> HIDE DEF m
<1>2. /\ a \in 0 .. 30 /\ Pow2(a) \in Nat \ {0} /\ Pow2(a) <= n
      /\ BlockCount(m) = IF n = Pow2(a) THEN a ELSE a + 1
  BY <1>1, ScanNext
<1>3. BlockCount(m) = d + 1
  BY <1>1 DEF BlockCount
<1>4. d \in 0 .. 30 /\ Pow2(d) \in Nat
  <2>1. m \in 1 .. Limit
    BY <1>1, LimitNat DEF Sizes
  <2> QED BY <2>1, ScanIs, PowNat
<1> HIDE DEF a, d
<1>5. CASE n = Pow2(a)
  <2>1. a = d + 1 /\ d \in 0 .. 30
    BY <1>2, <1>3, <1>4, <1>5
  <2>2. Pow2(a) = 2 * Pow2(d)
    BY <2>1, PowDoubles
  <2> DEFINE p == Pow2(d)
  <2>3. p \in Nat /\ n = 2 * p
    BY <1>4, <1>5, <2>2
  <2> HIDE DEF p
  <2>4. n \div 2 = p
    BY <2>3
  <2>5. m - p = n \div 2 - 1
    BY <1>1, <2>3, <2>4
  <2>6. n - Pow2(a) = 0
    BY <1>1, <1>5
  <2> QED BY <2>5, <2>6 DEF p, m, a, d
<1>6. CASE n # Pow2(a)
  <2>1. a = d
    BY <1>2, <1>3, <1>4, <1>6
  <2>2. n - Pow2(a) # 0
    BY <1>1, <1>2, <1>6
  <2>3. m - Pow2(d) = n - Pow2(a) - 1
    <3>1. m - Pow2(a) = n - Pow2(a) - 1
      BY <1>1, <1>2
    <3> QED BY <2>1, <3>1
  <2> QED BY <2>2, <2>3 DEF m, a, d
<1> QED BY <1>5, <1>6

\* What the search has come to after k turns from an array of size slots with
\* content c.
Searched(r, c, k) ==
  \E d : /\ IsContent(r.size, d) /\ r.size > 0 /\ r.size <= size
         /\ IsBlocks(r.blocks, r.size, d)
         /\ r.idx = r.size - Pow2(BitScanReverse(r.size))
         /\ Filled(d) = Filled(c) /\ \A i \in Filled(c) : d[i] = c[i]
         /\ r.size = size - k \/ d[r.size - 1] # NoObject

\* The turns exist, as many as there are slots.
FirstHole == [blocks |-> blocks, idx |-> size - Domain(Last(blocks)), size |-> size]
IsHoles(g, m) == g = [k \in 0 .. m |-> IF k = 0 THEN FirstHole ELSE SkipHole(g[k - 1])]

\* The turns of pop_back()'s search, one after another.
LEMMA HolesExist ==
  ASSUME size \in Nat
  PROVE  /\ AfterHoles[0] = FirstHole
         /\ \A k \in 0 .. size - 1 : AfterHoles[k + 1] = SkipHole(AfterHoles[k])
<1> DEFINE T == {m \in 0 .. size : \E g : IsHoles(g, m)}
<1>1. 0 \in T
  <2> DEFINE g == [k \in 0 .. 0 |-> FirstHole]
  <2>1. IsHoles(g, 0)
    BY DEF IsHoles
  <2> QED BY <2>1
<1>2. ASSUME NEW m \in 0 .. size - 1, m \in T PROVE m + 1 \in T
  <2>1. PICK g : IsHoles(g, m)
    BY <1>2
  <2> DEFINE h == [k \in 0 .. m + 1 |-> IF k <= m THEN g[k] ELSE SkipHole(g[m])]
  <2>2. ASSUME NEW k \in 0 .. m + 1
        PROVE  h[k] = IF k = 0 THEN FirstHole ELSE SkipHole(h[k - 1])
    <3>1. CASE k = 0
      <4>1. h[k] = g[0] /\ 0 \in 0 .. m
        BY <3>1
      <4>2. g[0] = FirstHole
        BY <2>1, <4>1 DEF IsHoles
      <4> QED BY <3>1, <4>1, <4>2
    <3>2. CASE k # 0 /\ k <= m
      <4>1. h[k] = g[k] /\ h[k - 1] = g[k - 1] /\ k \in 0 .. m
        BY <3>2
      <4>2. g[k] = SkipHole(g[k - 1])
        BY <2>1, <3>2, <4>1 DEF IsHoles
      <4> QED BY <3>2, <4>1, <4>2
    <3>3. CASE k = m + 1
      <4>1. h[k] = SkipHole(g[m]) /\ h[k - 1] = g[m] /\ k # 0
        BY <3>3
      <4> QED BY <4>1
    <3> QED BY <3>1, <3>2, <3>3
  <2>3. h = [k \in 0 .. m + 1 |-> h[k]]
    OBVIOUS
  <2>4. IsHoles(h, m + 1)
    <3> HIDE DEF h
    <3> QED BY <2>2, <2>3 DEF IsHoles
  <2> HIDE DEF h
  <2> QED BY <1>2, <2>4
<1>3. size \in T
  <2> HIDE DEF T
  <2>1. 0 .. size \subseteq T
    BY <1>1, <1>2, UpTo
  <2> QED BY <2>1
<1>4. \E g : IsHoles(g, size)
  BY <1>3
<1>5. IsHoles(AfterHoles, size)
  BY <1>4 DEF AfterHoles, IsHoles, FirstHole
<1>6. \A k \in 0 .. size : AfterHoles[k] = IF k = 0 THEN FirstHole ELSE SkipHole(AfterHoles[k - 1])
  BY <1>5 DEF IsHoles
<1>7. ASSUME NEW k \in 0 .. size - 1 PROVE AfterHoles[k + 1] = SkipHole(AfterHoles[k])
  <2>1. k + 1 \in 0 .. size /\ k + 1 # 0 /\ (k + 1) - 1 = k
    OBVIOUS
  <2> QED BY <1>6, <2>1
<1> QED BY <1>6, <1>7

\* A turn keeps that.
LEMMA HoleKeeps ==
  ASSUME size \in Nat, NEW c, Filled(c) # {}, NEW k \in 0 .. size - 1,
         NEW r, Searched(r, c, k)
  PROVE  Searched(SkipHole(r), c, k + 1)
<1>1. PICK d : /\ IsContent(r.size, d) /\ r.size > 0 /\ r.size <= size
               /\ IsBlocks(r.blocks, r.size, d)
               /\ r.idx = r.size - Pow2(BitScanReverse(r.size))
               /\ Filled(d) = Filled(c) /\ \A i \in Filled(c) : d[i] = c[i]
               /\ r.size = size - k \/ d[r.size - 1] # NoObject
  BY DEF Searched
<1> DEFINE n == r.size
           bs == r.blocks
           idx == r.idx
<1>2. /\ n \in Nat /\ n \in Sizes /\ Last(bs)[idx] = d[n - 1] /\ n - 1 \in 0 .. n - 1
      /\ Filled(d) \subseteq 0 .. n - 1 /\ DOMAIN d = 0 .. n - 1
  BY <1>1, LastIs, FilledIs DEF IsContent
<1>3. CASE d[n - 1] # NoObject
  <2>1. SkipHole(r) = r
    BY <1>2, <1>3 DEF SkipHole
  <2> QED BY <1>1, <1>3, <2>1 DEF Searched
<1>4. CASE d[n - 1] = NoObject
  <2> DEFINE e == Shorter(d, n)
             q == SkipHole(r)
  <2>1. n - 1 \notin Filled(d)
    BY <1>4 DEF Filled
  <2>2. n > 1
    <3>1. PICK i \in Filled(d) : i \in 0 .. n - 1 /\ i # n - 1
      BY <1>1, <1>2, <2>1
    <3> QED BY <1>2, <3>1
  <2>3. q.blocks = Dropped(bs, idx) /\ q.size = n - 1
        /\ q.idx = IF idx = 0 THEN n \div 2 - 1 ELSE idx - 1
    BY <1>2, <1>4 DEF SkipHole, Dropped
  <2> HIDE DEF q
  <2>4. IsContent(n - 1, e) /\ IsBlocks(Dropped(bs, idx), n - 1, e)
    BY <1>1, <1>4, DropIs
  <2>5. q.idx = n - 1 - Pow2(BitScanReverse(n - 1))
    <3>1. idx = n - Pow2(BitScanReverse(n))
      BY <1>1
    <3> QED BY <1>2, <2>2, <2>3, <3>1, OffsetBelow
  <2>6. Filled(e) = Filled(c) /\ \A i \in Filled(c) : e[i] = c[i]
    <3>1. Filled(e) = Filled(d) \ {n - 1} /\ \A i \in 0 .. n - 2 : e[i] = d[i]
      BY <1>1, ShorterIs
    <3>2. \A i \in Filled(d) : i \in 0 .. n - 2
      BY <1>2, <2>1
    <3> QED BY <1>1, <2>1, <3>1, <3>2
  <2>7. n - 1 > 0 /\ n - 1 <= size /\ n - 1 = size - (k + 1)
    BY <1>1, <1>2, <1>4, <2>2
  <2> HIDE DEF e
  <2> QED BY <2>3, <2>4, <2>5, <2>6, <2>7 DEF Searched, q
<1> QED BY <1>3, <1>4

\* The search ends at the last element.
LEMMA HolesAre ==
  ASSUME NEW c, NEW u, ArrayHas(size, c, blocks, num_existing, u), Filled(c) # {}
  PROVE  Searched(AfterHoles[size], c, size)
<1>1. /\ IsContent(size, c) /\ IsBlocks(blocks, size, c) /\ size \in Nat
      /\ Filled(c) \subseteq 0 .. size - 1
  BY FilledIs DEF ArrayHas
<1>2. size > 0
  BY <1>1
<1> DEFINE T == {k \in 0 .. size : Searched(AfterHoles[k], c, k)}
<1>3. 0 \in T
  <2>1. size - Domain(Last(blocks)) = size - Pow2(BitScanReverse(size))
    BY <1>1, <1>2, LastIs
  <2>2. FirstHole.blocks = blocks /\ FirstHole.size = size
        /\ FirstHole.idx = size - Pow2(BitScanReverse(size))
    BY <2>1 DEF FirstHole
  <2>3. size = size - 0 /\ size <= size
    BY <1>1
  <2>4. Searched(FirstHole, c, 0)
    BY <1>1, <1>2, <2>2, <2>3 DEF Searched
  <2> QED BY <1>1, <2>4, HolesExist
<1>4. ASSUME NEW k \in 0 .. size - 1, k \in T PROVE k + 1 \in T
  <2>1. Searched(SkipHole(AfterHoles[k]), c, k + 1)
    BY <1>1, <1>4, HoleKeeps
  <2>2. AfterHoles[k + 1] = SkipHole(AfterHoles[k])
    BY <1>1, HolesExist
  <2> QED BY <1>1, <2>1, <2>2
<1> HIDE DEF T
<1>5. size \in T
  <2>1. 0 .. size \subseteq T
    BY <1>1, <1>3, <1>4, UpTo
  <2> QED BY <1>1, <2>1
<1> QED BY <1>5 DEF T

\* pop_back() takes the last element, and the holes after it.
LEMMA PopKeeps ==
  ASSUME NEW c, NEW u, ArrayHas(size, c, blocks, num_existing, u), Filled(c) # {}, PopBack
  PROVE  \E d : ArrayHas(size', d, blocks', num_existing', u)
<1> DEFINE s == AfterHoles[size]
           n == s.size
           bs == s.blocks
           idx == s.idx
<1>1. /\ blocks' = IF idx = 0 THEN Front(bs) ELSE Store(bs, <<Len(bs) - 1, idx>>, NoObject)
      /\ size' = n - 1 /\ num_existing' = num_existing - 1
  BY DEF PopBack
<1> HIDE DEF s
<1>2. PICK d : /\ IsContent(n, d) /\ n > 0 /\ n <= size
               /\ IsBlocks(bs, n, d)
               /\ idx = n - Pow2(BitScanReverse(n))
               /\ Filled(d) = Filled(c) /\ \A i \in Filled(c) : d[i] = c[i]
               /\ n = size - size \/ d[n - 1] # NoObject
  BY HolesAre DEF Searched, s
<1> HIDE DEF n, bs, idx
<1>3. /\ IsContent(size, c) /\ size \in Nat /\ size <= MaxSize /\ OneEach(c)
      /\ num_existing = Cardinality(Filled(c)) /\ IsFiniteSet(Filled(c))
      /\ u = "dense" => Filled(c) = 0 .. size - 1
  BY FilledIs DEF ArrayHas
<1>4. n \in Nat /\ Filled(d) \subseteq 0 .. n - 1 /\ DOMAIN d = 0 .. n - 1
  BY <1>2, FilledIs
<1>5. d[n - 1] # NoObject /\ n - 1 \in 0 .. n - 1 /\ n - 1 \in Filled(d)
  BY <1>2, <1>3, <1>4 DEF Filled
<1>6. <<Len(bs) - 1, idx>> = HandleOf(n - 1)
  BY <1>2, LastIs
<1> DEFINE e == Shorter(d, n)
<1>7. IsContent(n - 1, e) /\ IsBlocks(blocks', n - 1, e)
  <2>1. CASE idx = 0
    <3>1. blocks' = Dropped(bs, idx)
      BY <1>1, <2>1 DEF Dropped
    <3> QED BY <1>2, <2>1, <3>1, DropIs
  <2>2. CASE idx # 0
    <3> DEFINE f == Put(d, n - 1, NoObject)
               cs == Store(bs, HandleOf(n - 1), NoObject)
    <3>1. IsContent(n, f) /\ IsBlocks(cs, n, f)
      BY <1>2, <1>5, StoreAt DEF Contents
    <3>2. f[n - 1] = NoObject /\ Shorter(f, n) = e
      <4>1. \A i \in 0 .. n - 2 : i # n - 1 /\ i \in DOMAIN d
        BY <1>4
      <4> QED BY <1>4, <1>5, <4>1 DEF Put, Shorter
    <3>3. blocks' = Dropped(cs, idx)
      BY <1>1, <1>6, <2>2 DEF Dropped
    <3> HIDE DEF f, cs, e
    <3> QED BY <1>2, <3>1, <3>2, <3>3, DropIs
  <2> QED BY <2>1, <2>2
<1>8. /\ Filled(e) = Filled(c) \ {n - 1} /\ OneEach(e)
      /\ num_existing' = Cardinality(Filled(e))
  <2>1. OneEach(d)
    BY <1>2, <1>3 DEF OneEach
  <2>2. Filled(e) = Filled(d) \ {n - 1} /\ OneEach(e)
    BY <1>2, <2>1, ShorterIs
  <2>3. Cardinality(Filled(c) \ {n - 1}) = Cardinality(Filled(c)) - 1
    BY <1>2, <1>3, <1>5, FS_RemoveElement
  <2> HIDE DEF e
  <2> QED BY <1>1, <1>2, <1>3, <2>2, <2>3
<1>9. u = "dense" => Filled(e) = 0 .. n - 1 - 1
  <2> SUFFICES ASSUME u = "dense" PROVE Filled(e) = 0 .. n - 1 - 1
    OBVIOUS
  <2>1. Filled(c) = 0 .. n - 1
    <3>1. Filled(c) = 0 .. size - 1 /\ Filled(c) \subseteq 0 .. n - 1
      BY <1>2, <1>3, <1>4
    <3> QED BY <1>2, <1>3, <1>4, <3>1
  <2>2. (0 .. n - 1) \ {n - 1} = 0 .. n - 1 - 1
    BY <1>4
  <2> HIDE DEF e
  <2> QED BY <1>8, <2>1, <2>2
<1>10. n - 1 <= MaxSize
  BY <1>2, <1>3, <1>4, BoundsAssumption
<1> HIDE DEF e
<1>11. ArrayHas(n - 1, e, blocks', num_existing', u)
  BY <1>7, <1>8, <1>9, <1>10 DEF ArrayHas
<1> QED BY <1>1, <1>11

----------------------------------------------------------------------------
(* The handles at which a client finds its objects *)

\* Where has for a handle.
Code(u, h) == IF u = "crude" THEN Small(h) ELSE IndexOf(h)

Pairs(u, bs) == {<<InSlot(bs, h), Code(u, h)>> : h \in ConstructedIn(bs)}

\* No object has two handles, and no handle two objects.
OneToOne(P) ==
  /\ P \subseteq Objects \X Nat
  /\ \A p, q \in P : p[1] = q[1] <=> p[2] = q[2]

\* No two slots have one handle.
CodesDiffer(u, bs) ==
  /\ \A h \in SlotsIn(bs) : Code(u, h) \in Nat
  /\ \A g, h \in SlotsIn(bs) : Code(u, g) = Code(u, h) => g = h

\* A pair is an object in its slot, and that slot's handle.
LEMMA PairsIs ==
  ASSUME NEW u, NEW bs
  PROVE  \A o, k : <<o, k>> \in Pairs(u, bs) <=>
                     \E h \in ConstructedIn(bs) : InSlot(bs, h) = o /\ Code(u, h) = k
<1> TAKE o, k
<1>1. ASSUME NEW h \in ConstructedIn(bs)
      PROVE  <<o, k>> = <<InSlot(bs, h), Code(u, h)>> <=> InSlot(bs, h) = o /\ Code(u, h) = k
  OBVIOUS
<1> QED BY <1>1 DEF Pairs

\* An object comes to a slot that is not constructed.
LEMMA PutSlot ==
  ASSUME NEW u, NEW bs \in Seq(AnyBlock), CodesDiffer(u, bs), OneToOne(Pairs(u, bs)),
         NEW h \in SlotsIn(bs), InSlot(bs, h) = NoObject, NEW o \in Objects \ HeldIn(bs)
  PROVE  LET cs == Store(bs, h, o)
         IN  /\ cs \in Seq(AnyBlock) /\ CodesDiffer(u, cs) /\ OneToOne(Pairs(u, cs))
             /\ ConstructedIn(cs) = ConstructedIn(bs) \cup {h} /\ h \notin ConstructedIn(bs)
             /\ Pairs(u, cs) = Pairs(u, bs) \cup {<<o, Code(u, h)>>}
             /\ HeldIn(cs) = HeldIn(bs) \cup {o}
<1> DEFINE cs == Store(bs, h, o)
           k == Code(u, h)
<1>1. /\ cs \in Seq(AnyBlock) /\ SlotsIn(cs) = SlotsIn(bs) /\ InSlot(cs, h) = o
      /\ \A g \in SlotsIn(bs) : g # h => InSlot(cs, g) = InSlot(bs, g)
  BY StoreIs DEF Contents
<1>2. o # NoObject
  BY ObjectsAssumption
<1> HIDE DEF cs, k
<1>3. CodesDiffer(u, cs)
  BY <1>1 DEF CodesDiffer
<1>4. ConstructedIn(cs) = ConstructedIn(bs) \cup {h} /\ h \notin ConstructedIn(bs)
  BY <1>1, <1>2 DEF ConstructedIn
<1>5. \A g \in ConstructedIn(bs) : InSlot(cs, g) = InSlot(bs, g) /\ g \in SlotsIn(bs)
  BY <1>1, <1>4 DEF ConstructedIn
<1>6. HeldIn(cs) = HeldIn(bs) \cup {o}
  BY <1>1, <1>2 DEF HeldIn
<1>7. Pairs(u, cs) = Pairs(u, bs) \cup {<<o, k>>}
  BY <1>1, <1>4, <1>5 DEF Pairs, k
<1>8. OneToOne(Pairs(u, cs))
  <2>1. k \in Nat /\ \A g \in ConstructedIn(bs) : Code(u, g) # k
    BY <1>4, <1>5 DEF CodesDiffer, k
  <2>2. \A p \in Pairs(u, bs) : p[1] # o /\ p[2] # k
    <3>1. \A g \in ConstructedIn(bs) : InSlot(bs, g) # o
      BY DEF ConstructedIn, HeldIn
    <3> QED BY <2>1, <3>1 DEF Pairs
  <2>3. <<o, k>>[1] = o /\ <<o, k>>[2] = k /\ <<o, k>> \in Objects \X Nat
    BY <2>1
  <2> DEFINE q == <<o, k>>
             P == Pairs(u, bs)
  <2> HIDE DEF q, P
  <2>4. P \subseteq Objects \X Nat /\ \A p, r \in P : p[1] = r[1] <=> p[2] = r[2]
    BY DEF OneToOne, P
  <2>5. q[1] = o /\ q[2] = k /\ q \in Objects \X Nat /\ \A p \in P : p[1] # q[1] /\ p[2] # q[2]
    BY <2>2, <2>3 DEF q, P
  <2>6. OneToOne(P \cup {q})
    BY <2>4, <2>5 DEF OneToOne
  <2> QED BY <1>7, <2>6 DEF q, P
<1> QED BY <1>1, <1>3, <1>4, <1>6, <1>7, <1>8 DEF cs, k

\* An object goes from its slot: its pair does.
LEMMA TakeSlot ==
  ASSUME NEW u, NEW bs \in Seq(AnyBlock), CodesDiffer(u, bs), OneToOne(Pairs(u, bs)),
         NEW h \in ConstructedIn(bs)
  PROVE  LET cs == Store(bs, h, NoObject)
             o == InSlot(bs, h)
         IN  /\ cs \in Seq(AnyBlock) /\ CodesDiffer(u, cs) /\ OneToOne(Pairs(u, cs))
             /\ o \in Objects
             /\ ConstructedIn(cs) = ConstructedIn(bs) \ {h}
             /\ Pairs(u, cs) = Pairs(u, bs) \ {<<o, Code(u, h)>>}
             /\ <<o, Code(u, h)>> \in Pairs(u, bs)
<1> DEFINE cs == Store(bs, h, NoObject)
           o == InSlot(bs, h)
           k == Code(u, h)
<1>1. /\ cs \in Seq(AnyBlock) /\ SlotsIn(cs) = SlotsIn(bs) /\ InSlot(cs, h) = NoObject
      /\ \A g \in SlotsIn(bs) : g # h => InSlot(cs, g) = InSlot(bs, g)
      /\ h \in SlotsIn(bs)
  BY StoreIs DEF Contents, ConstructedIn
<1>2. <<o, k>> \in Pairs(u, bs)
  BY DEF Pairs
<1>3. o \in Objects
  BY <1>2 DEF OneToOne
<1> HIDE DEF cs, k, o
<1>4. CodesDiffer(u, cs)
  BY <1>1 DEF CodesDiffer
<1>5. ConstructedIn(cs) = ConstructedIn(bs) \ {h}
  BY <1>1 DEF ConstructedIn
<1>6. \A g \in ConstructedIn(cs) : InSlot(cs, g) = InSlot(bs, g) /\ g \in SlotsIn(bs) /\ g # h
  BY <1>1, <1>5 DEF ConstructedIn
<1>7. Pairs(u, cs) = Pairs(u, bs) \ {<<o, k>>}
  <2>1. \A g \in ConstructedIn(cs) : Code(u, g) # k
    BY <1>1, <1>6 DEF CodesDiffer, k
  <2>2. \A p : p \in Pairs(u, cs) <=>
                 \E g \in ConstructedIn(bs) : g # h /\ p = <<InSlot(bs, g), Code(u, g)>>
    BY <1>5, <1>6 DEF Pairs
  <2>3. \A p : p \in Pairs(u, bs) <=> \E g \in ConstructedIn(bs) : p = <<InSlot(bs, g), Code(u, g)>>
    BY DEF Pairs
  <2>4. <<o, k>> = <<InSlot(bs, h), Code(u, h)>>
    BY DEF o, k
  <2>5. \A g \in ConstructedIn(bs) : g # h => <<InSlot(bs, g), Code(u, g)>> # <<o, k>>
    BY <1>5, <2>1
  <2> QED BY <2>2, <2>3, <2>4, <2>5
<1>8. OneToOne(Pairs(u, cs))
  BY <1>7 DEF OneToOne
<1> QED BY <1>1, <1>2, <1>3, <1>4, <1>5, <1>7, <1>8 DEF cs, k, o

\* In an array the handle is the index.
LEMMA ArrayPairs ==
  ASSUME NEW n, NEW c, IsContent(n, c), NEW bs, IsBlocks(bs, n, c)
  PROVE  /\ Pairs("random", bs) = {<<c[i], i>> : i \in Filled(c)}
         /\ OneEach(c) => OneToOne(Pairs("random", bs))
<1> DEFINE P == {<<c[i], i>> : i \in Filled(c)}
<1>1. \A i \in Filled(c) : /\ InSlot(bs, HandleOf(i)) = c[i] /\ IndexOf(HandleOf(i)) = i
                           /\ c[i] \in Objects /\ i \in Nat
  <2>1. \A i \in Filled(c) : i \in 0 .. n - 1 /\ i \in Nat
    BY FilledIs
  <2>2. \A i \in Filled(c) : c[i] \in Objects
    BY FilledIs DEF HeldOf
  <2>3. n \in Sizes
    BY DEF IsContent
  <2> QED BY <2>1, <2>2, <2>3, ArraySlots, InsideIs
<1>2. \A h : Code("random", h) = IndexOf(h)
  BY DEF Code
<1>3. Pairs("random", bs) = {<<InSlot(bs, h), IndexOf(h)>> : h \in {HandleOf(i) : i \in Filled(c)}}
  BY <1>2, HeldIs DEF Pairs
<1>4. Pairs("random", bs) = P
  BY <1>1, <1>3
<1>5. ASSUME OneEach(c) PROVE OneToOne(P)
  <2>1. P \subseteq Objects \X Nat
    BY <1>1
  <2>2. ASSUME NEW p \in P, NEW q \in P PROVE p[1] = q[1] <=> p[2] = q[2]
    <3>1. PICK i \in Filled(c) : p = <<c[i], i>>
      OBVIOUS
    <3>2. PICK j \in Filled(c) : q = <<c[j], j>>
      OBVIOUS
    <3>3. p[1] = c[i] /\ p[2] = i /\ q[1] = c[j] /\ q[2] = j
      BY <3>1, <3>2
    <3> QED BY <1>5, <3>3 DEF OneEach
  <2> QED BY <2>1, <2>2 DEF OneToOne
<1> QED BY <1>4, <1>5

----------------------------------------------------------------------------
(* Crude_Allocator's and std::allocator's slots *)

\* Quotient and remainder are those of one number only.
LEMMA OneQuotient ==
  ASSUME NEW P \in Nat, NEW a \in Nat, NEW b \in Nat, NEW d \in Nat, NEW e \in Nat,
         b < P, e < P, a * P + b = d * P + e
  PROVE  a = d /\ b = e
<1>1. ~(a < d)
  <2> SUFFICES ASSUME a < d PROVE FALSE
    OBVIOUS
  <2>1. PICK x \in Nat : d = a + 1 + x
    <3>1. d - a - 1 \in Nat /\ d = a + 1 + (d - a - 1)
      OBVIOUS
    <3> QED BY <3>1
  <2>2. d * P = a * P + P + x * P /\ x * P \in Nat /\ a * P \in Nat
    BY <2>1
  <2> QED BY <2>2
<1>2. ~(d < a)
  <2> SUFFICES ASSUME d < a PROVE FALSE
    OBVIOUS
  <2>1. PICK x \in Nat : a = d + 1 + x
    <3>1. a - d - 1 \in Nat /\ a = d + 1 + (a - d - 1)
      OBVIOUS
    <3> QED BY <3>1
  <2>2. a * P = d * P + P + x * P /\ x * P \in Nat /\ d * P \in Nat
    BY <2>1
  <2> QED BY <2>2
<1>3. a = d
  BY <1>1, <1>2
<1>4. a * P \in Nat
  OBVIOUS
<1> QED BY <1>3, <1>4

CrudeShaped(bs) == \A k \in 1 .. Len(bs) : DOMAIN bs[k] = 0 .. Pow2(k + 1) - 3

\* The blocks of a Crude_Allocator: from f on no slot of the last is used.
CrudeHas(bs, f) ==
  /\ bs \in Seq(AnyBlock) /\ Len(bs) <= MaxCrude
  /\ CrudeShaped(bs)
  /\ OneToOne(Pairs("crude", bs))
  /\ f \in Nat
  /\ \A h \in SlotsIn(bs) : h[1] = Len(bs) - 1 /\ h[2] >= f => InSlot(bs, h) = NoObject

\* The addresses of std::allocator, in one block.
StdHas(bs, count) ==
  /\ bs \in Seq(AnyBlock) /\ Len(bs) = 1
  /\ OneToOne(Pairs("std", bs))
  /\ IsFiniteSet(ConstructedIn(bs)) /\ count = Cardinality(ConstructedIn(bs))

\* The offset of a slot takes no more than Div bits.
LEMMA CrudeCodes ==
  ASSUME NEW bs \in Seq(AnyBlock), Len(bs) <= MaxCrude, CrudeShaped(bs)
  PROVE  CodesDiffer("crude", bs)
<1> DEFINE P == Pow2(Div)
<1>1. P \in Nat
  BY PowPositive, DivAssumption
<1>2. ASSUME NEW h \in SlotsIn(bs)
      PROVE  h = <<h[1], h[2]>> /\ h[1] \in Nat /\ h[2] \in Nat /\ h[2] < P
  <2>1. PICK k \in 1 .. Len(bs), b \in Nat : h = <<k - 1, b>> /\ b \in DOMAIN bs[k]
    BY SlotIs
  <2>2. k \in Nat /\ k - 1 \in Nat /\ k + 1 \in 0 .. 31 /\ k + 1 <= Div /\ Div \in 0 .. 31
    <3>1. Len(bs) \in Nat
      BY LenProperties
    <3>2. Div \in 0 .. 31 /\ MaxCrude \in Nat /\ MaxCrude < Div
      BY DivAssumption
    <3> QED BY <3>1, <3>2
  <2> DEFINE j == k + 1
  <2>3. j \in 0 .. 31 /\ j <= Div
    BY <2>2
  <2>4. b \in 0 .. Pow2(j) - 3
    BY <2>1 DEF CrudeShaped
  <2> HIDE DEF j
  <2>5. Pow2(j) \in Nat /\ Pow2(j) <= P
    <3>1. CASE j = Div
      BY <1>1, <3>1
    <3>2. CASE j # Div
      <4>1. j < Div
        BY <2>2, <2>3, <3>2
      <4>2. 2 * Pow2(j) <= P /\ Pow2(j) \in Nat
        BY <2>2, <2>3, <4>1, PowGrows, PowPositive
      <4> QED BY <1>1, <4>2
    <3> QED BY <3>1, <3>2
  <2> HIDE DEF P
  <2>6. b < P
    BY <1>1, <2>1, <2>4, <2>5
  <2> QED BY <2>1, <2>2, <2>6
<1>3. \A h : Code("crude", h) = h[1] * P + h[2]
  BY DEF Code, Small, Pow2
<1> HIDE DEF P
<1>4. \A h \in SlotsIn(bs) : Code("crude", h) \in Nat
  BY <1>1, <1>2, <1>3
<1>5. ASSUME NEW g \in SlotsIn(bs), NEW h \in SlotsIn(bs), Code("crude", g) = Code("crude", h)
      PROVE  g = h
  <2>1. g[1] = h[1] /\ g[2] = h[2]
    <3>1. g[1] * P + g[2] = h[1] * P + h[2]
      BY <1>3, <1>5
    <3> QED BY <1>1, <1>2, <3>1, OneQuotient
  <2>2. g = <<g[1], g[2]>> /\ h = <<h[1], h[2]>>
    BY <1>2
  <2> QED BY <2>1, <2>2, Zenon
<1> QED BY <1>4, <1>5 DEF CodesDiffer

\* No two addresses are one.
LEMMA StdCodes ==
  ASSUME NEW bs \in Seq(AnyBlock), Len(bs) = 1
  PROVE  CodesDiffer("std", bs)
<1>1. ASSUME NEW h \in SlotsIn(bs)
      PROVE  \E b \in Nat : h = <<0, b>> /\ Code("std", h) = b
  <2>1. PICK k \in 1 .. Len(bs), b \in Nat : h = <<k - 1, b>> /\ b \in DOMAIN bs[k]
    BY SlotIs
  <2>2. k - 1 = 0
    BY <2>1
  <2>3. Code("std", h) = Pow2(h[1]) + h[2] - 1
    BY DEF Code, IndexOf, Pow2
  <2>4. h[1] = 0 /\ h[2] = b /\ h = <<0, b>>
    BY <2>1, <2>2
  <2>5. Pow2(0) = 1
    BY PowValues
  <2> QED BY <2>3, <2>4, <2>5
<1>2. \A g, h \in SlotsIn(bs) : Code("std", g) = Code("std", h) => g = h
  <2> SUFFICES ASSUME NEW g \in SlotsIn(bs), NEW h \in SlotsIn(bs), Code("std", g) = Code("std", h)
               PROVE  g = h
    OBVIOUS
  <2>1. PICK a \in Nat : g = <<0, a>> /\ Code("std", g) = a
    BY <1>1
  <2>2. PICK b \in Nat : h = <<0, b>> /\ Code("std", h) = b
    BY <1>1
  <2> QED BY <2>1, <2>2
<1> QED BY <1>1, <1>2 DEF CodesDiffer

\* A block of holes more changes nothing.
LEMMA AppendSlots ==
  ASSUME NEW bs \in Seq(AnyBlock), NEW m \in Nat, NEW u
  PROVE  LET cs == Append(bs, Block(m))
         IN  /\ cs \in Seq(AnyBlock) /\ Len(cs) = Len(bs) + 1
             /\ DOMAIN cs[Len(cs)] = 0 .. m - 1 /\ \A k \in 1 .. Len(bs) : cs[k] = bs[k]
             /\ \A b \in 0 .. m - 1 : <<Len(bs), b>> \in SlotsIn(cs)
             /\ \A h \in SlotsIn(cs) : h[1] = Len(bs) => InSlot(cs, h) = NoObject
             /\ ConstructedIn(cs) = ConstructedIn(bs) /\ HeldIn(cs) = HeldIn(bs)
             /\ Pairs(u, cs) = Pairs(u, bs)
<1> DEFINE f == Block(m)
           cs == Append(bs, f)
           L == Len(bs)
<1>1. f \in AnyBlock /\ DOMAIN f = 0 .. m - 1 /\ \A b \in 0 .. m - 1 : f[b] = NoObject
  BY BlockIs
<1> HIDE DEF f
<1>2. /\ cs \in Seq(AnyBlock) /\ Len(cs) = L + 1 /\ cs[L + 1] = f /\ L \in Nat
      /\ \A k \in 1 .. L : cs[k] = bs[k]
  BY <1>1, AppendProperties, LenProperties
<1> HIDE DEF cs, L
<1>3. /\ \A h : h \in SlotsIn(bs) <=>
                  \E k \in 1 .. L, b \in Nat : h = <<k - 1, b>> /\ b \in DOMAIN bs[k]
      /\ \A h : h \in SlotsIn(cs) <=>
                  \E k \in 1 .. L + 1, b \in Nat : h = <<k - 1, b>> /\ b \in DOMAIN cs[k]
  BY <1>2, SlotIs DEF L
<1>4. ASSUME NEW h \in SlotsIn(bs) PROVE h \in SlotsIn(cs) /\ InSlot(cs, h) = InSlot(bs, h)
  <2>1. PICK k \in 1 .. L, b \in Nat : h = <<k - 1, b>> /\ b \in DOMAIN bs[k]
    BY <1>3
  <2>2. k \in 1 .. L + 1 /\ cs[k] = bs[k] /\ k - 1 + 1 = k
    BY <1>2
  <2>3. h \in SlotsIn(cs)
    BY <1>3, <2>1, <2>2
  <2> QED BY <2>1, <2>2, <2>3 DEF InSlot
<1>5. ASSUME NEW b \in 0 .. m - 1
      PROVE  <<L, b>> \in SlotsIn(cs) /\ InSlot(cs, <<L, b>>) = NoObject
  <2> DEFINE k == L + 1
  <2>1. k \in 1 .. L + 1 /\ k - 1 = L /\ cs[k] = f /\ b \in Nat
    BY <1>2
  <2> HIDE DEF k
  <2>2. <<L, b>> = <<k - 1, b>> /\ b \in DOMAIN cs[k]
    BY <1>1, <2>1
  <2>3. <<L, b>> \in SlotsIn(cs)
    BY <1>3, <2>1, <2>2
  <2>4. InSlot(cs, <<L, b>>) = cs[L + 1][b]
    BY DEF InSlot
  <2> QED BY <1>1, <1>2, <2>3, <2>4
<1>6. ASSUME NEW h \in SlotsIn(cs)
      PROVE  (h \in SlotsIn(bs) /\ h[1] # L) \/ \E b \in 0 .. m - 1 : h = <<L, b>>
  <2>1. PICK k \in 1 .. L + 1, b \in Nat : h = <<k - 1, b>> /\ b \in DOMAIN cs[k]
    BY <1>3
  <2>2. CASE k = L + 1
    <3>1. k - 1 = L /\ b \in 0 .. m - 1
      BY <1>1, <1>2, <2>1, <2>2
    <3> QED BY <2>1, <3>1
  <2>3. CASE k # L + 1
    <3>1. k \in 1 .. L /\ k - 1 # L
      BY <1>2, <2>3
    <3>2. b \in DOMAIN bs[k] /\ h[1] = k - 1
      BY <1>2, <2>1, <3>1
    <3> QED BY <1>3, <2>1, <3>1, <3>2
  <2> QED BY <2>2, <2>3
<1>7. \A h \in SlotsIn(cs) : h \in SlotsIn(bs) \/ InSlot(cs, h) = NoObject
  BY <1>5, <1>6
<1>8. \A h \in SlotsIn(cs) : h[1] = L => InSlot(cs, h) = NoObject
  BY <1>5, <1>6
<1>9. ConstructedIn(cs) = ConstructedIn(bs)
  BY <1>4, <1>7 DEF ConstructedIn
<1>10. \A h \in ConstructedIn(bs) : InSlot(cs, h) = InSlot(bs, h)
  BY <1>4 DEF ConstructedIn
<1>11. HeldIn(cs) = HeldIn(bs)
  BY <1>4, <1>7 DEF HeldIn
<1>12. Pairs(u, cs) = Pairs(u, bs)
  BY <1>9, <1>10 DEF Pairs
<1>13. DOMAIN cs[Len(cs)] = 0 .. m - 1
  BY <1>1, <1>2
<1> QED BY <1>2, <1>5, <1>8, <1>9, <1>11, <1>12, <1>13 DEF cs, L, f

\* Crude_Allocator::construct().
LEMMA CrudePut ==
  ASSUME CrudeHas(blocks, filled), NEW o \in Objects, CrudeConstruct(o)
  PROVE  /\ CrudeHas(blocks', filled')
         /\ o \notin HeldIn(blocks)
         /\ \E k \in Nat : Pairs("crude", blocks') = Pairs("crude", blocks) \cup {<<o, k>>}
<1> DEFINE L == Len(blocks)
           full == filled >= MaxFilled
           m == (MaxFilled + 1) * 2
           cs == IF full THEN Append(blocks, Block(m)) ELSE blocks
           b == IF full THEN 0 ELSE filled
           h == <<Len(cs) - 1, b>>
<1>1. /\ blocks \in Seq(AnyBlock) /\ L <= MaxCrude /\ L \in Nat /\ CrudeShaped(blocks)
      /\ OneToOne(Pairs("crude", blocks)) /\ filled \in Nat
      /\ \A g \in SlotsIn(blocks) :
           g[1] = L - 1 /\ g[2] >= filled => InSlot(blocks, g) = NoObject
  BY LenProperties DEF CrudeHas
<1>2. /\ o \in Objects \ HeldIn(blocks) /\ Len(cs) <= MaxCrude
      /\ blocks' = Store(cs, h, o) /\ filled' = b + 1
  BY DEF CrudeConstruct, Free, Held, HeldIn, Handles, SlotsIn, At, InSlot
<1>3. MaxFilled \in Nat /\ MaxFilled = (IF L = 0 THEN 0 ELSE Pow2(L + 1) - 2)
      /\ (L # 0 => DOMAIN blocks[L] = 0 .. MaxFilled - 1)
  <2>1. CASE L = 0
    <3>1. blocks = <<>>
      BY <1>1, <2>1, EmptySeq
    <3> QED BY <2>1, <3>1 DEF MaxFilled
  <2>2. CASE L # 0
    <3>1. blocks # <<>> /\ L \in 1 .. L /\ Last(blocks) = blocks[L]
      BY <1>1, <2>2 DEF Last
    <3>2. L + 1 \in 1 .. 31
      <4>1. MaxCrude \in Nat /\ MaxCrude < Div /\ Div \in 0 .. 31
        BY DivAssumption
      <4>2. L \in Nat /\ L <= MaxCrude
        BY <1>1
      <4> HIDE DEF L
      <4> QED BY <4>1, <4>2
    <3> DEFINE q == L + 1
    <3>3. q \in 0 .. 31 /\ q > 0 /\ 0 \in 0 .. 31
      BY <3>2
    <3> HIDE DEF q
    <3>4. Pow2(q) \in Nat /\ Pow2(q) >= 2
      <4>1. 2 * Pow2(0) <= Pow2(q)
        BY <3>3, PowGrows
      <4>2. Pow2(0) = 1
        BY PowValues
      <4>3. Pow2(q) \in Nat
        BY <3>3, PowPositive
      <4> QED BY <4>1, <4>2, <4>3
    <3>5. DOMAIN blocks[L] = 0 .. Pow2(q) - 3
      BY <1>1, <3>1 DEF CrudeShaped, q
    <3>6. Pow2(q) - 2 \in Nat /\ Pow2(q) - 3 = Pow2(q) - 2 - 1
      BY <3>4
    <3>7. blocks[L] \in AnyBlock
      BY <1>1, <3>1, ElementOfSeq
    <3>8. Domain(blocks[L]) = Pow2(q) - 2
      BY <3>5, <3>6, <3>7, BlockIs
    <3>9. MaxFilled = Pow2(q) - 2
      BY <3>1, <3>8 DEF MaxFilled
    <3> QED BY <2>2, <3>5, <3>6, <3>9 DEF q
  <2> QED BY <2>1, <2>2
<1> HIDE DEF L
<1>4. full \in BOOLEAN
  BY DEF full
<1>5. /\ cs \in Seq(AnyBlock) /\ Len(cs) <= MaxCrude /\ CrudeShaped(cs)
      /\ h \in SlotsIn(cs) /\ InSlot(cs, h) = NoObject /\ h[1] = Len(cs) - 1 /\ h[2] = b
      /\ b \in Nat
      /\ \A g \in SlotsIn(cs) : g[1] = Len(cs) - 1 /\ g[2] >= b => InSlot(cs, g) = NoObject
      /\ Pairs("crude", cs) = Pairs("crude", blocks) /\ HeldIn(cs) = HeldIn(blocks)
  <2>1. CASE full
    <3>1. cs = Append(blocks, Block(m)) /\ b = 0 /\ m \in Nat
      BY <1>3, <2>1
    <3> HIDE DEF cs, m, full
    <3>2. /\ cs \in Seq(AnyBlock) /\ Len(cs) = L + 1
          /\ DOMAIN cs[Len(cs)] = 0 .. m - 1 /\ \A k \in 1 .. L : cs[k] = blocks[k]
          /\ \A d \in 0 .. m - 1 : <<L, d>> \in SlotsIn(cs)
          /\ \A g \in SlotsIn(cs) : g[1] = L => InSlot(cs, g) = NoObject
          /\ HeldIn(cs) = HeldIn(blocks)
          /\ Pairs("crude", cs) = Pairs("crude", blocks)
      BY <1>1, <3>1, AppendSlots DEF L
    <3>3. Len(cs) - 1 = L
      BY <1>1, <3>2
    <3>4. h = <<L, 0>> /\ 0 \in 0 .. m - 1
      <4>1. m > 0
        BY <1>3 DEF m
      <4> QED BY <3>1, <3>3, <4>1
    <3>5. h \in SlotsIn(cs) /\ h[1] = L /\ h[2] = 0
      BY <3>2, <3>4
    <3>6. m - 1 = Pow2(L + 2) - 3
      <4>1. CASE L = 0
        <5>1. m = 2 /\ L + 2 = 2
          BY <1>3, <4>1 DEF m
        <5> QED BY <5>1, PowValues
      <4>2. CASE L # 0
        <5>1. L + 1 \in 0 .. 30
          <6>1. MaxCrude \in Nat /\ MaxCrude < Div /\ Div \in 0 .. 31
            BY DivAssumption
          <6> QED BY <1>1, <1>2, <3>2, <6>1
        <5> DEFINE q == L + 1
        <5>2. q \in 0 .. 30 /\ q + 1 = L + 2
          BY <1>1, <5>1
        <5>3. MaxFilled = Pow2(q) - 2
          BY <1>3, <4>2
        <5> HIDE DEF q
        <5>4. Pow2(q + 1) = 2 * Pow2(q) /\ Pow2(q) \in Nat
          BY <5>2, PowDoubles, PowNat
        <5>5. m - 1 = Pow2(q + 1) - 3
          BY <5>3, <5>4 DEF m
        <5> QED BY <5>2, <5>5, Zenon
      <4> QED BY <4>1, <4>2
    <3>7. CrudeShaped(cs)
      <4> SUFFICES ASSUME NEW k \in 1 .. Len(cs) PROVE DOMAIN cs[k] = 0 .. Pow2(k + 1) - 3
        BY DEF CrudeShaped
      <4>1. CASE k = L + 1
        <5>1. k + 1 = L + 2
          BY <1>1, <4>1
        <5>2. DOMAIN cs[k] = 0 .. m - 1
          BY <3>2, <4>1
        <5> QED BY <3>6, <5>1, <5>2, Zenon
      <4>2. CASE k # L + 1
        <5>1. k \in 1 .. L
          BY <1>1, <3>2, <4>2
        <5> QED BY <1>1, <3>2, <5>1 DEF CrudeShaped, L
      <4> QED BY <4>1, <4>2
    <3> QED BY <1>2, <3>1, <3>2, <3>3, <3>5, <3>7
  <2>2. CASE ~full
    <3>1. cs = blocks /\ b = filled /\ filled < MaxFilled
      BY <1>1, <1>3, <2>2
    <3> HIDE DEF cs, full
    <3>2. L # 0 /\ L \in 1 .. L
      BY <1>1, <1>3, <3>1
    <3>3. filled \in DOMAIN blocks[L]
      BY <1>1, <1>3, <3>1, <3>2
    <3>4. h = <<L - 1, filled>>
      BY <3>1 DEF L
    <3>5. h \in SlotsIn(blocks)
      BY <1>1, <3>2, <3>3, <3>4, SlotIs DEF L
    <3>6. h[1] = L - 1 /\ h[2] = filled
      BY <3>4
    <3>7. InSlot(blocks, h) = NoObject
      BY <1>1, <3>5, <3>6
    <3> QED BY <1>1, <3>1, <3>5, <3>6, <3>7 DEF L
  <2> QED BY <2>1, <2>2
<1> HIDE DEF cs, b, h, full, m
<1> DEFINE bs == Store(cs, h, o)
<1>6. CodesDiffer("crude", cs)
  BY <1>5, CrudeCodes
<1>7. /\ bs \in Seq(AnyBlock) /\ OneToOne(Pairs("crude", bs))
      /\ Pairs("crude", bs) = Pairs("crude", cs) \cup {<<o, Code("crude", h)>>}
  BY <1>1, <1>2, <1>5, <1>6, PutSlot
<1>8. /\ Len(bs) = Len(cs) /\ SlotsIn(bs) = SlotsIn(cs)
      /\ \A k \in 1 .. Len(cs) : DOMAIN bs[k] = DOMAIN cs[k]
      /\ \A g \in SlotsIn(cs) : g # h => InSlot(bs, g) = InSlot(cs, g)
  BY <1>5, StoreIs DEF Contents
<1> HIDE DEF bs
<1>9. CrudeShaped(bs)
  BY <1>5, <1>8 DEF CrudeShaped
<1>10. \A g \in SlotsIn(bs) : g[1] = Len(bs) - 1 /\ g[2] >= b + 1 => InSlot(bs, g) = NoObject
  <2> SUFFICES ASSUME NEW g \in SlotsIn(bs), g[1] = Len(bs) - 1, g[2] >= b + 1
               PROVE  InSlot(bs, g) = NoObject
    OBVIOUS
  <2>1. g \in SlotsIn(cs) /\ g[2] \in Nat
    BY <1>5, <1>8, SlotIs
  <2>2. g[2] >= b /\ g[2] # b
    BY <1>5, <2>1
  <2>3. g # h
    BY <1>5, <2>2
  <2> QED BY <1>5, <1>8, <2>1, <2>2, <2>3
<1>11. Code("crude", h) \in Nat
  BY <1>5, <1>6 DEF CodesDiffer
<1>12. CrudeHas(bs, b + 1)
  BY <1>5, <1>7, <1>8, <1>9, <1>10 DEF CrudeHas
<1> QED BY <1>2, <1>5, <1>7, <1>11, <1>12 DEF bs

\* Crude_Allocator::destruct().
LEMMA CrudeTake ==
  ASSUME CrudeHas(blocks, filled), NEW h \in ConstructedIn(blocks), CrudeDestruct(h)
  PROVE  /\ CrudeHas(blocks', filled')
         /\ InSlot(blocks, h) \in Objects
         /\ \E k \in Nat :
              /\ <<InSlot(blocks, h), k>> \in Pairs("crude", blocks)
              /\ Pairs("crude", blocks') = Pairs("crude", blocks) \ {<<InSlot(blocks, h), k>>}
<1> DEFINE bs == Store(blocks, h, NoObject)
<1>1. /\ blocks \in Seq(AnyBlock) /\ Len(blocks) <= MaxCrude /\ CrudeShaped(blocks)
      /\ OneToOne(Pairs("crude", blocks)) /\ filled \in Nat
      /\ \A g \in SlotsIn(blocks) :
           g[1] = Len(blocks) - 1 /\ g[2] >= filled => InSlot(blocks, g) = NoObject
      /\ h \in SlotsIn(blocks)
  BY DEF CrudeHas, ConstructedIn
<1>2. blocks' = bs /\ filled' = filled
  BY DEF CrudeDestruct
<1>3. CodesDiffer("crude", blocks)
  BY <1>1, CrudeCodes
<1>4. /\ bs \in Seq(AnyBlock) /\ OneToOne(Pairs("crude", bs))
      /\ InSlot(blocks, h) \in Objects
      /\ Pairs("crude", bs) = Pairs("crude", blocks) \ {<<InSlot(blocks, h), Code("crude", h)>>}
      /\ <<InSlot(blocks, h), Code("crude", h)>> \in Pairs("crude", blocks)
  BY <1>1, <1>3, TakeSlot
<1>5. /\ Len(bs) = Len(blocks) /\ SlotsIn(bs) = SlotsIn(blocks) /\ InSlot(bs, h) = NoObject
      /\ \A k \in 1 .. Len(blocks) : DOMAIN bs[k] = DOMAIN blocks[k]
      /\ \A g \in SlotsIn(blocks) : g # h => InSlot(bs, g) = InSlot(blocks, g)
  BY <1>1, StoreIs DEF Contents
<1>6. Code("crude", h) \in Nat
  BY <1>1, <1>3 DEF CodesDiffer
<1> HIDE DEF bs
<1>7. CrudeShaped(bs)
  BY <1>1, <1>5 DEF CrudeShaped
<1>8. CrudeHas(bs, filled)
  BY <1>1, <1>4, <1>5, <1>7 DEF CrudeHas
<1> QED BY <1>2, <1>4, <1>6, <1>8

\* construct() of an adapted std::allocator.
LEMMA StdPut ==
  ASSUME StdHas(blocks, num_existing), NEW h \in SlotsIn(blocks), NEW o \in Objects,
         StdConstruct(h, o)
  PROVE  /\ StdHas(blocks', num_existing')
         /\ o \notin HeldIn(blocks)
         /\ \E k \in Nat : Pairs("std", blocks') = Pairs("std", blocks) \cup {<<o, k>>}
<1> DEFINE bs == Store(blocks, h, o)
<1>1. /\ blocks \in Seq(AnyBlock) /\ Len(blocks) = 1 /\ OneToOne(Pairs("std", blocks))
      /\ IsFiniteSet(ConstructedIn(blocks)) /\ num_existing = Cardinality(ConstructedIn(blocks))
  BY DEF StdHas
<1>2. /\ InSlot(blocks, h) = NoObject /\ o \in Objects \ HeldIn(blocks)
      /\ blocks' = bs /\ num_existing' = num_existing + 1
  BY DEF StdConstruct, Constructed, Free, Held, HeldIn, Handles, SlotsIn, At, InSlot
<1>3. CodesDiffer("std", blocks)
  BY <1>1, StdCodes
<1>4. /\ bs \in Seq(AnyBlock) /\ OneToOne(Pairs("std", bs))
      /\ ConstructedIn(bs) = ConstructedIn(blocks) \cup {h} /\ h \notin ConstructedIn(blocks)
      /\ Pairs("std", bs) = Pairs("std", blocks) \cup {<<o, Code("std", h)>>}
  BY <1>1, <1>2, <1>3, PutSlot
<1>5. Len(bs) = 1
  BY <1>1, <1>2, StoreIs DEF Contents
<1>6. Code("std", h) \in Nat
  BY <1>3 DEF CodesDiffer
<1> HIDE DEF bs
<1>7. /\ IsFiniteSet(ConstructedIn(bs))
      /\ Cardinality(ConstructedIn(bs)) = Cardinality(ConstructedIn(blocks)) + 1
  BY <1>1, <1>4, FS_AddElement
<1>8. StdHas(bs, num_existing + 1)
  BY <1>1, <1>4, <1>5, <1>7 DEF StdHas
<1> QED BY <1>2, <1>4, <1>6, <1>8

\* destruct() of an adapted std::allocator.
LEMMA StdTake ==
  ASSUME StdHas(blocks, num_existing), NEW h \in ConstructedIn(blocks), StdDestruct(h)
  PROVE  /\ StdHas(blocks', num_existing')
         /\ InSlot(blocks, h) \in Objects
         /\ \E k \in Nat :
              /\ <<InSlot(blocks, h), k>> \in Pairs("std", blocks)
              /\ Pairs("std", blocks') = Pairs("std", blocks) \ {<<InSlot(blocks, h), k>>}
<1> DEFINE bs == Store(blocks, h, NoObject)
<1>1. /\ blocks \in Seq(AnyBlock) /\ Len(blocks) = 1 /\ OneToOne(Pairs("std", blocks))
      /\ IsFiniteSet(ConstructedIn(blocks)) /\ num_existing = Cardinality(ConstructedIn(blocks))
      /\ h \in SlotsIn(blocks)
  BY DEF StdHas, ConstructedIn
<1>2. blocks' = bs /\ num_existing' = num_existing - 1
  BY DEF StdDestruct
<1>3. CodesDiffer("std", blocks)
  BY <1>1, StdCodes
<1>4. /\ bs \in Seq(AnyBlock) /\ OneToOne(Pairs("std", bs))
      /\ InSlot(blocks, h) \in Objects
      /\ ConstructedIn(bs) = ConstructedIn(blocks) \ {h}
      /\ Pairs("std", bs) = Pairs("std", blocks) \ {<<InSlot(blocks, h), Code("std", h)>>}
      /\ <<InSlot(blocks, h), Code("std", h)>> \in Pairs("std", blocks)
  BY <1>1, <1>3, TakeSlot
<1>5. Len(bs) = 1
  BY <1>1, StoreIs DEF Contents
<1>6. Code("std", h) \in Nat
  BY <1>1, <1>3 DEF CodesDiffer
<1> HIDE DEF bs
<1>7. /\ IsFiniteSet(ConstructedIn(bs))
      /\ Cardinality(ConstructedIn(bs)) = Cardinality(ConstructedIn(blocks)) - 1
  BY <1>1, <1>4, FS_RemoveElement
<1>8. StdHas(bs, num_existing - 1)
  BY <1>1, <1>4, <1>5, <1>7 DEF StdHas
<1> QED BY <1>2, <1>4, <1>6, <1>8

\* An allocator of std::allocator has its addresses from the beginning on.
LEMMA StdBegins == StdHas(<<Block(Addresses)>>, 0)
<1> DEFINE f == Block(Addresses)
           bs == <<f>>
<1>1. f \in AnyBlock /\ DOMAIN f = 0 .. Addresses - 1 /\ \A b \in DOMAIN f : f[b] = NoObject
  BY AddressesAssumption, BlockIs
<1> HIDE DEF f
<1>2. bs \in Seq(AnyBlock) /\ Len(bs) = 1 /\ bs[1] = f
  BY <1>1
<1> HIDE DEF bs
<1>3. ConstructedIn(bs) = {}
  <2> SUFFICES ASSUME NEW h \in SlotsIn(bs) PROVE InSlot(bs, h) = NoObject
    BY DEF ConstructedIn
  <2>1. PICK k \in 1 .. Len(bs), b \in Nat : h = <<k - 1, b>> /\ b \in DOMAIN bs[k]
    BY <1>2, SlotIs
  <2>2. k = 1 /\ k - 1 + 1 = 1
    BY <1>2
  <2>3. InSlot(bs, h) = bs[1][b] /\ b \in DOMAIN f
    BY <1>2, <2>1, <2>2 DEF InSlot
  <2> QED BY <1>1, <1>2, <2>3
<1>4. OneToOne(Pairs("std", bs))
  <2>1. Pairs("std", bs) = {}
    BY <1>3 DEF Pairs
  <2> QED BY <2>1 DEF OneToOne
<1>5. StdHas(bs, 0)
  BY <1>2, <1>3, <1>4, FS_EmptySet DEF StdHas
<1> QED BY <1>5 DEF bs, f

----------------------------------------------------------------------------
(* The inductive invariant *)

Users == {"dense", "sparse", "random", "crude", "std"}

\* Each user's blocks are as its operations leave them, and the object that
\* Random_Allocator looks for a hole for is not in the array yet.
BInv ==
  /\ user \in Users
  /\ user \in {"dense", "sparse", "random"} =>
       \E c : ArrayHas(size, c, blocks, num_existing, user)
  /\ user = "crude" => CrudeHas(blocks, filled)
  /\ user = "std" => StdHas(blocks, num_existing)
  /\ constructing # NoObject =>
       user = "random" /\ constructing \in Objects \ HeldIn(blocks)

\* The operators of the model, in terms of the blocks.
LEMMA ArrayNames ==
  /\ Handles = SlotsIn(blocks) /\ Held = HeldIn(blocks)
  /\ \A h : At(h) = InSlot(blocks, h) /\ (Constructed(h) <=> InSlot(blocks, h) # NoObject)
  /\ \A o : o \in Free => o \in Objects \ HeldIn(blocks)
  /\ {h \in Handles : Constructed(h)} = ConstructedIn(blocks)
BY DEF Handles, SlotsIn, Held, HeldIn, At, InSlot, Constructed, Free, ConstructedIn

\* The constructors establish the invariant.
LEMMA InitInvariant == BlocksInit => BInv
<1> SUFFICES ASSUME BlocksInit PROVE BInv
  OBVIOUS
<1>1. constructing = NoObject /\ filled = 0 /\ size = 0 /\ num_existing = 0
  BY DEF BlocksInit, Init, AllocatorInit
<1>2. CASE user = "std"
  <2>1. blocks = <<Block(Addresses)>>
    BY <1>2 DEF BlocksInit, Init, AllocatorInit
  <2> QED BY <1>1, <1>2, <2>1, StdBegins DEF BInv, Users
<1>3. CASE user # "std"
  <2>1. blocks = <<>> /\ user \in Users
    BY <1>3 DEF BlocksInit, Init, AllocatorInit, Users
  <2>2. \E c : ArrayHas(size, c, blocks, num_existing, user)
    BY <1>1, <2>1, EmptyHas
  <2>3. CrudeHas(<<>>, 0)
    <3>1. <<>> \in Seq(AnyBlock) /\ Len(<<>>) = 0 /\ DOMAIN <<>> = {}
      OBVIOUS
    <3>2. SlotsIn(<<>>) = {}
      BY <3>1 DEF SlotsIn
    <3>3. OneToOne(Pairs("crude", <<>>))
      <4>1. Pairs("crude", <<>>) = {}
        BY <3>2 DEF Pairs, ConstructedIn
      <4> QED BY <4>1 DEF OneToOne
    <3>4. 0 <= MaxCrude
      BY DivAssumption
    <3> QED BY <3>1, <3>2, <3>3, <3>4 DEF CrudeHas, CrudeShaped
  <2> QED BY <1>1, <1>3, <2>1, <2>2, <2>3 DEF BInv
<1> QED BY <1>2, <1>3

\* emplace_back()
LEMMA EmplacedKeeps ==
  ASSUME NEW c, NEW u, ArrayHas(size, c, blocks, num_existing, u),
         NEW o \in Objects \ HeldOf(c), EmplacedBack(o)
  PROVE  LET d == Put(Longer(c, size), size, o)
         IN  /\ ArrayHas(size', d, blocks', num_existing', u)
             /\ size \in Nat /\ size' = size + 1
             /\ Filled(d) = Filled(c) \cup {size} /\ HeldOf(d) = HeldOf(c) \cup {o}
             /\ d[size] = o /\ \A i \in Filled(c) : d[i] = c[i]
<1> DEFINE cs == Grown(blocks, size)
<1>1. /\ size + 1 <= MaxSize /\ size' = size + 1 /\ num_existing' = num_existing + 1
      /\ blocks' = Store(cs, EndSlot(cs, size + 1), o)
  <2> DEFINE n == size + 1
             bs == IF n = 2 ^ BitScanReverse(n) THEN Append(blocks, Block(n)) ELSE blocks
  <2>1. blocks' = Store(bs, <<Len(bs) - 1, n - Domain(Last(bs))>>, o)
    BY DEF EmplacedBack
  <2>2. n <= MaxSize /\ size' = n /\ num_existing' = num_existing + 1
    BY DEF EmplacedBack
  <2>3. bs = cs
    BY DEF Grown
  <2> HIDE DEF bs, cs
  <2>4. blocks' = Store(bs, EndSlot(bs, n), o)
    BY <2>1 DEF EndSlot
  <2>5. n = size + 1
    OBVIOUS
  <2> HIDE DEF n
  <2> QED BY <2>2, <2>3, <2>4, <2>5
<1>2. size \in Nat
  BY DEF ArrayHas, IsContent, Sizes
<1> QED BY <1>1, <1>2, PushKeeps

\* The slot of a handle that is not beyond the size.
LEMMA HandleInside ==
  ASSUME NEW c, NEW u, ArrayHas(size, c, blocks, num_existing, u), NEW h \in SlotsIn(blocks)
  PROVE  /\ h = HandleOf(IndexOf(h)) /\ IndexOf(h) \in Nat
         /\ IndexOf(h) < size => /\ IndexOf(h) \in 0 .. size - 1
                                 /\ InSlot(blocks, h) = c[IndexOf(h)]
         /\ InSlot(blocks, h) # NoObject => IndexOf(h) < size /\ IndexOf(h) \in Filled(c)
<1>1. IsContent(size, c) /\ IsBlocks(blocks, size, c) /\ size \in Nat /\ DOMAIN c = 0 .. size - 1
  BY FilledIs DEF ArrayHas
<1>2. /\ h = HandleOf(IndexOf(h)) /\ IndexOf(h) \in Nat
      /\ InSlot(blocks, h) # NoObject => IndexOf(h) < size
  BY <1>1, ArraySlots
<1>3. IndexOf(h) < size => IndexOf(h) \in 0 .. size - 1
  BY <1>1, <1>2
<1>4. IndexOf(h) < size => InSlot(blocks, h) = c[IndexOf(h)]
  <2>1. ASSUME NEW i \in 0 .. size - 1 PROVE InSlot(blocks, HandleOf(i)) = c[i]
    <3>1. IsContent(size, c) /\ IsBlocks(blocks, size, c)
      BY <1>1
    <3> QED BY <3>1, ArraySlots
  <2> QED BY <1>2, <1>3, <2>1
<1> QED BY <1>1, <1>2, <1>3, <1>4 DEF Filled

\* An object comes to a hole, by a step.
LEMMA PutIntoHole ==
  ASSUME NEW c, NEW u, ArrayHas(size, c, blocks, num_existing, u),
         NEW i \in 0 .. size - 1, c[i] = NoObject, NEW o \in Objects \ HeldOf(c),
         blocks' = Store(blocks, HandleOf(i), o), num_existing' = num_existing + 1, size' = size
  PROVE  ArrayHas(size', Put(c, i, o), blocks', num_existing', u)
BY PutKeeps

\* Accessor::destruct(), of an array that may have holes.
LEMMA DestructKeeps ==
  ASSUME NEW c, NEW u, ArrayHas(size, c, blocks, num_existing, u), u # "dense",
         NEW h \in SlotsIn(blocks), Destruct(h)
  PROVE  LET i == IndexOf(h)
             d == Put(c, i, NoObject)
         IN  /\ i \in Filled(c) /\ InSlot(blocks, h) = c[i]
             /\ ArrayHas(size', d, blocks', num_existing', u)
             /\ HeldOf(d) = HeldOf(c) \ {c[i]}
<1>1. InSlot(blocks, h) # NoObject /\ blocks' = Store(blocks, h, NoObject)
      /\ num_existing' = num_existing - 1 /\ size' = size
  BY ArrayNames DEF Destruct
<1>2. /\ IndexOf(h) \in Filled(c) /\ InSlot(blocks, h) = c[IndexOf(h)]
      /\ h = HandleOf(IndexOf(h))
  BY <1>1, HandleInside
<1> QED BY <1>1, <1>2, TakeKeeps

\* A step of a Chunked_Array.
LEMMA ArrayStep ==
  ASSUME NEW c, ArrayHas(size, c, blocks, num_existing, user), Next
  PROVE  \E d : ArrayHas(size', d, blocks', num_existing', user)
<1>0. /\ IsContent(size, c) /\ IsBlocks(blocks, size, c) /\ size \in Nat
      /\ HeldIn(blocks) = HeldOf(c) /\ DOMAIN c = 0 .. size - 1
  BY HeldIs, FilledIs DEF ArrayHas
<1>1. ASSUME NEW o \in Objects, EmplaceBack(o)
      PROVE  \E d : ArrayHas(size', d, blocks', num_existing', user)
  <2>1. o \in Objects \ HeldOf(c) /\ EmplacedBack(o)
    BY <1>0, <1>1, ArrayNames DEF EmplaceBack
  <2> QED BY <2>1, EmplacedKeeps
<1>2. ASSUME Held # {}, PopBack
      PROVE  \E d : ArrayHas(size', d, blocks', num_existing', user)
  <2>1. Filled(c) # {}
    BY <1>0, <1>2, ArrayNames DEF HeldOf
  <2> QED BY <1>2, <2>1, PopKeeps
<1>3. ASSUME Clear
      PROVE  \E d : ArrayHas(size', d, blocks', num_existing', user)
  BY <1>3, EmptyHas DEF Clear
<1>4. ASSUME NEW n \in 0 .. MaxSize, Resize(n)
      PROVE  \E d : ArrayHas(size', d, blocks', num_existing', user)
  <2>1. n \in Nat /\ n > 0 /\ n <= MaxSize /\ size' = n
    BY <1>4, BoundsAssumption DEF Resize
  <2> DEFINE bs == Widened(blocks, n)
             over == {h \in SlotsIn(blocks) : IndexOf(h) >= n /\ InSlot(blocks, h) # NoObject}
  <2>2. WithBlocks(BitScanReverse(n) + 1) = bs
    BY DEF WithBlocks, Widened
  <2>3. {h \in Handles : IndexOf(h) >= n /\ Constructed(h)} = over
    BY ArrayNames
  <2>4. num_existing' = num_existing + Cardinality(size .. n - 1) - Cardinality(over)
    BY <1>4, <2>3 DEF Resize
  <2> HIDE DEF over
  <2>5. PICK new \in [size .. n - 1 -> Free] :
          /\ \A i, j \in size .. n - 1 : new[i] = new[j] => i = j
          /\ blocks' = Resized(bs, size, n, new)
    <3> DEFINE W == WithBlocks(BitScanReverse(n) + 1)
    <3> HIDE DEF bs
    <3>1. PICK new \in [size .. n - 1 -> Free] :
            /\ \A i, j \in size .. n - 1 : new[i] = new[j] => i = j
            /\ blocks' = Resized(W, size, n, new)
      BY <1>4, Zenon DEF Resize, Resized, SlotAfter
    <3>2. blocks' = Resized(bs, size, n, new)
      BY <2>2, <3>1
    <3> QED BY <3>1, <3>2
  <2>6. new \in [size .. n - 1 -> Objects] /\ Fresh(size, c, n, new)
    <3>1. \A i \in size .. n - 1 : new[i] \in Free
      BY <2>5
    <3>2. \A i \in size .. n - 1 : new[i] \in Objects /\ new[i] \notin HeldOf(c)
      BY <1>0, <3>1, ArrayNames
    <3> QED BY <2>5, <3>2 DEF Fresh
  <2> QED BY <2>1, <2>4, <2>5, <2>6, ResizeKeeps DEF over
<1>5. ASSUME user = "sparse", NEW h \in Handles, Destruct(h)
      PROVE  \E d : ArrayHas(size', d, blocks', num_existing', user)
  <2>1. h \in SlotsIn(blocks) /\ user # "dense"
    BY <1>5, ArrayNames
  <2> QED BY <1>5, <2>1, DestructKeeps
<1>6. ASSUME NEW h \in Handles, NEW o \in Objects, Construct(h, o)
      PROVE  \E d : ArrayHas(size', d, blocks', num_existing', user)
  <2>1. /\ h \in SlotsIn(blocks) /\ IndexOf(h) < size /\ InSlot(blocks, h) = NoObject
        /\ o \in Objects \ HeldOf(c) /\ blocks' = Store(blocks, h, o)
        /\ num_existing' = num_existing + 1 /\ size' = size
    BY <1>0, <1>6, ArrayNames DEF Construct
  <2>2. h = HandleOf(IndexOf(h)) /\ IndexOf(h) \in 0 .. size - 1 /\ c[IndexOf(h)] = NoObject
    BY <2>1, HandleInside
  <2> QED BY <2>1, <2>2, PutIntoHole
<1>7. ASSUME UNCHANGED array
      PROVE  \E d : ArrayHas(size', d, blocks', num_existing', user)
  BY <1>7 DEF array
<1>8. CASE LoopBegin \/ LoopStep \/ BackwardBegin \/ BackwardStep
  BY <1>7, <1>8 DEF LoopBegin, LoopStep, BackwardBegin, BackwardStep, MovedTo
<1> QED BY <1>1, <1>2, <1>3, <1>4, <1>5, <1>6, <1>8 DEF Next

\* Random_Allocator's steps: an object comes, or goes.
LEMMA RandomStep ==
  ASSUME BInv, user = "random", RandomNext
  PROVE  /\ BInv'
         /\ OneToOne(Pairs("random", blocks)) /\ OneToOne(Pairs("random", blocks'))
         /\ \/ blocks' = blocks
            \/ \E o \in Objects \ HeldIn(blocks), k \in Nat :
                 Pairs("random", blocks') = Pairs("random", blocks) \cup {<<o, k>>}
            \/ \E o \in Objects, k \in Nat :
                 /\ <<o, k>> \in Pairs("random", blocks)
                 /\ Pairs("random", blocks') = Pairs("random", blocks) \ {<<o, k>>}
<1>1. PICK c : ArrayHas(size, c, blocks, num_existing, user)
  BY DEF BInv
<1>2. /\ IsContent(size, c) /\ IsBlocks(blocks, size, c) /\ size \in Nat /\ OneEach(c)
      /\ HeldIn(blocks) = HeldOf(c) /\ DOMAIN c = 0 .. size - 1
      /\ Pairs("random", blocks) = {<<c[i], i>> : i \in Filled(c)}
      /\ OneToOne(Pairs("random", blocks))
      /\ Filled(c) \subseteq 0 .. size - 1 /\ HeldOf(c) \subseteq Objects
  BY <1>1, HeldIs, FilledIs, ArrayPairs DEF ArrayHas
<1>3. ASSUME NEW d, ArrayHas(size', d, blocks', num_existing', user), user' = user
      PROVE  /\ Pairs("random", blocks') = {<<d[i], i>> : i \in Filled(d)}
             /\ OneToOne(Pairs("random", blocks')) /\ HeldIn(blocks') = HeldOf(d)
             /\ (constructing' # NoObject => constructing' \in Objects \ HeldOf(d)) => BInv'
  <2>1. IsContent(size', d) /\ IsBlocks(blocks', size', d) /\ OneEach(d)
    BY <1>3 DEF ArrayHas
  <2>2. /\ Pairs("random", blocks') = {<<d[i], i>> : i \in Filled(d)}
        /\ OneToOne(Pairs("random", blocks')) /\ HeldIn(blocks') = HeldOf(d)
    BY <2>1, ArrayPairs, HeldIs
  <2>3. ASSUME constructing' # NoObject => constructing' \in Objects \ HeldOf(d) PROVE BInv'
    <3>1. \E e : ArrayHas(size', e, blocks', num_existing', user')
      BY <1>3
    <3> QED BY <1>3, <2>2, <2>3, <3>1 DEF BInv, Users
  <2> QED BY <2>2, <2>3
<1>4. ASSUME NEW o \in Objects, RandomConstruct(o), Appends
      PROVE  /\ BInv' /\ OneToOne(Pairs("random", blocks'))
             /\ o \in Objects \ HeldIn(blocks)
             /\ Pairs("random", blocks') = Pairs("random", blocks) \cup {<<o, size>>}
  <2>1. /\ o \in Objects \ HeldOf(c) /\ EmplacedBack(o) /\ user' = user
        /\ constructing' = NoObject
    BY <1>2, <1>4, ArrayNames DEF RandomConstruct
  <2> DEFINE d == Put(Longer(c, size), size, o)
  <2>2. /\ ArrayHas(size', d, blocks', num_existing', user)
        /\ Filled(d) = Filled(c) \cup {size} /\ d[size] = o
        /\ \A i \in Filled(c) : d[i] = c[i]
    BY <1>1, <2>1, EmplacedKeeps
  <2> HIDE DEF d
  <2>3. /\ Pairs("random", blocks') = {<<d[i], i>> : i \in Filled(d)}
        /\ OneToOne(Pairs("random", blocks')) /\ BInv'
    BY <1>3, <2>1, <2>2
  <2>4. Pairs("random", blocks') = Pairs("random", blocks) \cup {<<o, size>>}
    BY <1>2, <2>2, <2>3
  <2> QED BY <1>2, <2>1, <2>3, <2>4
<1>5. ASSUME NEW o \in Objects, RandomConstruct(o), ~Appends
      PROVE  BInv' /\ blocks' = blocks
  <2>1. o \in Objects \ HeldOf(c) /\ constructing' = o /\ UNCHANGED vars
    BY <1>2, <1>5, ArrayNames DEF RandomConstruct
  <2>2. user' = user /\ blocks' = blocks /\ size' = size /\ num_existing' = num_existing
    BY <2>1 DEF vars, array
  <2>3. ArrayHas(size', c, blocks', num_existing', user)
    BY <1>1, <2>2
  <2> QED BY <1>3, <2>1, <2>2, <2>3
<1>6. ASSUME NEW idx \in 0 .. size, Draw(idx)
      PROVE  /\ BInv' /\ OneToOne(Pairs("random", blocks'))
             /\ \E o \in Objects \ HeldIn(blocks), k \in Nat :
                  Pairs("random", blocks') = Pairs("random", blocks) \cup {<<o, k>>}
  <2> DEFINE i == Min(Seen(idx))
             o == constructing
  <2>1. i \in Seen(idx)
    <3>1. Seen(idx) \subseteq Nat /\ Seen(idx) # {}
      BY <1>6, ProbesAssumption DEF Draw, Seen
    <3>2. PICK n \in Seen(idx) : \A m \in Seen(idx) : n <= m
      BY <3>1, Least
    <3>3. \E x \in Seen(idx) : \A y \in Seen(idx) : x <= y
      BY <3>2
    <3> QED BY <3>3 DEF Min
  <2>2. i \in 0 .. size - 1 /\ InSlot(blocks, HandleOf(i)) = NoObject
    BY <1>2, <2>1, ProbesAssumption, ArrayNames DEF Seen
  <2>3. /\ o # NoObject /\ blocks' = Store(blocks, HandleOf(i), o)
        /\ num_existing' = num_existing + 1 /\ constructing' = NoObject
        /\ user' = user /\ size' = size
    BY <1>6 DEF Draw
  <2> HIDE DEF i
  <2>4. o \in Objects \ HeldOf(c)
    BY <1>2, <2>3 DEF BInv
  <2>5. c[i] = NoObject
    BY <1>2, <2>2, ArraySlots
  <2> HIDE DEF o
  <2> DEFINE d == Put(c, i, o)
  <2>6. ArrayHas(size', d, blocks', num_existing', user)
    BY <1>1, <2>2, <2>3, <2>4, <2>5, PutIntoHole
  <2>7. Filled(d) = Filled(c) \cup {i} /\ d[i] = o /\ \A j \in Filled(c) : d[j] = c[j]
    <3>1. Filled(d) = Filled(c) \cup {i}
      BY <1>2, <2>2, <2>4, <2>5, PutAt
    <3>2. i \in DOMAIN c /\ i \notin Filled(c) /\ Filled(c) \subseteq DOMAIN c
      BY <1>2, <2>2, <2>5 DEF Filled
    <3> QED BY <3>1, <3>2 DEF Put
  <2> HIDE DEF d
  <2>8. /\ Pairs("random", blocks') = {<<d[j], j>> : j \in Filled(d)}
        /\ OneToOne(Pairs("random", blocks')) /\ BInv'
    BY <1>3, <2>3, <2>6
  <2>9. Pairs("random", blocks') = Pairs("random", blocks) \cup {<<o, i>>}
    BY <1>2, <2>7, <2>8
  <2>10. i \in Nat
    BY <1>2, <2>2
  <2> QED BY <1>2, <2>4, <2>8, <2>9, <2>10
<1>7. ASSUME NEW h \in Handles, RandomDestruct(h)
      PROVE  /\ BInv' /\ OneToOne(Pairs("random", blocks'))
             /\ \E o \in Objects, k \in Nat :
                  /\ <<o, k>> \in Pairs("random", blocks)
                  /\ Pairs("random", blocks') = Pairs("random", blocks) \ {<<o, k>>}
  <2> DEFINE i == IndexOf(h)
             d == Put(c, i, NoObject)
  <2>1. h \in SlotsIn(blocks) /\ Destruct(h) /\ constructing' = NoObject /\ user' = user
    BY <1>7, ArrayNames DEF RandomDestruct, Destruct
  <2>2. i \in Filled(c) /\ ArrayHas(size', d, blocks', num_existing', user)
    BY <1>1, <2>1, DestructKeeps
  <2> HIDE DEF i
  <2>3. Filled(d) = Filled(c) \ {i} /\ \A j \in Filled(c) \ {i} : d[j] = c[j]
    <3>1. Filled(d) = Filled(c) \ {i}
      BY <1>2, <2>2, TakeAt
    <3>2. Filled(c) \subseteq DOMAIN c
      BY DEF Filled
    <3> QED BY <3>1, <3>2 DEF Put
  <2> HIDE DEF d
  <2>4. /\ Pairs("random", blocks') = {<<d[j], j>> : j \in Filled(d)}
        /\ OneToOne(Pairs("random", blocks')) /\ BInv'
    BY <1>3, <2>1, <2>2
  <2>5. i \in Nat /\ c[i] \in Objects /\ <<c[i], i>> \in Pairs("random", blocks)
    BY <1>2, <2>2 DEF HeldOf
  <2>6. Pairs("random", blocks') = {<<c[j], j>> : j \in Filled(c) \ {i}}
    BY <2>3, <2>4
  <2>7. Pairs("random", blocks') = Pairs("random", blocks) \ {<<c[i], i>>}
    BY <1>2, <2>2, <2>6
  <2> QED BY <2>4, <2>5, <2>7
<1> QED BY <1>2, <1>4, <1>5, <1>6, <1>7 DEF RandomNext, SomeDraw

\* What a step does to the handles of the client's objects.
PairsMove(u, bs, cs) ==
  \/ Pairs(u, cs) = Pairs(u, bs)
  \/ \E o \in Objects \ HeldIn(bs), k \in Nat : Pairs(u, cs) = Pairs(u, bs) \cup {<<o, k>>}
  \/ \E o \in Objects, k \in Nat : /\ <<o, k>> \in Pairs(u, bs)
                                   /\ Pairs(u, cs) = Pairs(u, bs) \ {<<o, k>>}

\* Every step keeps the invariant, and puts one object into its place, takes one
\* out or leaves all of them where they are.
LEMMA ClientStep ==
  ASSUME BInv, [BlocksNext]_allVars
  PROVE  /\ BInv' /\ user' = user
         /\ user \in {"random", "crude", "std"} => PairsMove(user, blocks, blocks')
<1>1. CASE UNCHANGED allVars
  <2>1. /\ user' = user /\ blocks' = blocks /\ size' = size /\ num_existing' = num_existing
        /\ constructing' = constructing /\ filled' = filled
    BY <1>1 DEF allVars, vars, array
  <2> QED BY <2>1 DEF BInv, PairsMove
<1>2. CASE Next /\ UNCHANGED <<constructing, filled>>
  <2>1. user \in {"dense", "sparse"} /\ user' = user
    BY <1>2 DEF Next, EmplaceBack, PopBack, Clear, Resize, Construct, Destruct, MovedTo, LoopBegin,
                LoopStep, BackwardBegin, BackwardStep
  <2>2. PICK c : ArrayHas(size, c, blocks, num_existing, user)
    BY <2>1 DEF BInv
  <2>3. \E d : ArrayHas(size', d, blocks', num_existing', user)
    BY <1>2, <2>2, ArrayStep
  <2>4. constructing' = NoObject
    BY <1>2, <2>1 DEF BInv
  <2> QED BY <2>1, <2>3, <2>4 DEF BInv, Users
<1>3. CASE user = "random" /\ RandomNext
  <2>1. user' = user
    BY <1>3 DEF RandomNext, RandomConstruct, SomeDraw, Draw, RandomDestruct, Destruct, vars
  <2> QED BY <1>3, <2>1, RandomStep DEF PairsMove
<1>4. CASE user = "crude" /\ CrudeNext
  <2>1. CrudeHas(blocks, filled) /\ constructing = NoObject
    BY <1>4 DEF BInv
  <2>2. user' = user /\ constructing' = constructing
    BY <1>4 DEF CrudeNext, CrudeConstruct, CrudeDestruct
  <2>3. CrudeHas(blocks', filled') /\ PairsMove("crude", blocks, blocks')
    <3>1. ASSUME NEW o \in Objects, CrudeConstruct(o)
          PROVE  CrudeHas(blocks', filled') /\ PairsMove("crude", blocks, blocks')
      BY <2>1, <3>1, CrudePut DEF PairsMove
    <3>2. ASSUME NEW h \in Handles, CrudeDestruct(h)
          PROVE  CrudeHas(blocks', filled') /\ PairsMove("crude", blocks, blocks')
      <4>1. h \in ConstructedIn(blocks)
        BY <3>2, ArrayNames DEF CrudeDestruct
      <4> QED BY <2>1, <3>2, <4>1, CrudeTake DEF PairsMove
    <3> QED BY <1>4, <3>1, <3>2 DEF CrudeNext
  <2> QED BY <1>4, <2>1, <2>2, <2>3 DEF BInv, Users
<1>5. CASE user = "std" /\ StdNext
  <2>1. StdHas(blocks, num_existing) /\ constructing = NoObject
    BY <1>5 DEF BInv
  <2>2. user' = user /\ constructing' = constructing
    BY <1>5 DEF StdNext, StdConstruct, StdDestruct
  <2>3. StdHas(blocks', num_existing') /\ PairsMove("std", blocks, blocks')
    <3>1. ASSUME NEW h \in Handles, NEW o \in Objects, StdConstruct(h, o)
          PROVE  StdHas(blocks', num_existing') /\ PairsMove("std", blocks, blocks')
      <4>1. h \in SlotsIn(blocks)
        BY ArrayNames
      <4> QED BY <2>1, <3>1, <4>1, StdPut DEF PairsMove
    <3>2. ASSUME NEW h \in Handles, StdDestruct(h)
          PROVE  StdHas(blocks', num_existing') /\ PairsMove("std", blocks, blocks')
      <4>1. h \in ConstructedIn(blocks)
        BY <3>2, ArrayNames DEF StdDestruct
      <4> QED BY <2>1, <3>2, <4>1, StdTake DEF PairsMove
    <3> QED BY <1>5, <3>1, <3>2 DEF StdNext
  <2> QED BY <1>5, <2>1, <2>2, <2>3 DEF BInv, Users
<1> QED BY <1>1, <1>2, <1>3, <1>4, <1>5 DEF BlocksNext

\* The invariant holds in every state.
THEOREM Invariance == BlocksSpec => []BInv
<1>1. BInv /\ [BlocksNext]_allVars => BInv'
  BY ClientStep
<1> QED BY <1>1, InitInvariant, PTL DEF BlocksSpec

\* BInv says of the array what BlocksMatchSize does.
LEMMA InvariantMatches == BInv => BlocksMatchSize
<1> SUFFICES ASSUME BInv PROVE BlocksMatchSize
  OBVIOUS
<1>1. CASE user \in {"dense", "sparse", "random"}
  <2>1. PICK c : ArrayHas(size, c, blocks, num_existing, user)
    BY <1>1 DEF BInv
  <2>2. /\ IsContent(size, c) /\ IsBlocks(blocks, size, c)
        /\ num_existing = Cardinality(Filled(c)) /\ (user = "dense" => Filled(c) = 0 .. size - 1)
    BY <2>1 DEF ArrayHas
  <2>3. num_existing = Cardinality({h \in Handles : Constructed(h)})
    <3>1. num_existing = Cardinality(ConstructedIn(blocks))
      BY <2>2, HeldIs
    <3> QED BY <3>1, ArrayNames
  <2>4. \A k \in DOMAIN blocks : DOMAIN blocks[k] = 0 .. 2 ^ (k - 1) - 1
    <3>1. DOMAIN blocks = 1 .. Len(blocks)
      BY <2>2, SlotIs DEF IsBlocks
    <3>2. \A k \in 1 .. Len(blocks) : DOMAIN blocks[k] = 0 .. Pow2(k - 1) - 1
      BY <2>2 DEF IsBlocks
    <3> QED BY <3>1, <3>2 DEF Pow2
  <2>5. Len(blocks) = IF size = 0 THEN 0 ELSE BitScanReverse(size) + 1
    BY <2>2 DEF IsBlocks, BlockCount
  <2>6. \A h \in Handles : Constructed(h) => IndexOf(h) < size
    BY <2>1, HandleInside, ArrayNames
  <2>7. user = "dense" => num_existing = size
    <3>1. size \in Nat
      BY <2>2, FilledIs
    <3>2. Cardinality(0 .. size - 1) = size
      <4>1. Cardinality(0 .. size - 1) = IF 0 > size - 1 THEN 0 ELSE size - 1 - 0 + 1
        BY <3>1, FS_Interval
      <4> QED BY <3>1, <4>1
    <3> QED BY <2>2, <3>2
  <2> QED BY <2>3, <2>4, <2>5, <2>6, <2>7 DEF BlocksMatchSize
<1>2. CASE user = "crude"
  BY <1>2 DEF BlocksMatchSize
<1>3. CASE user = "std"
  BY <1>3, ArrayNames DEF BInv, StdHas, BlocksMatchSize
<1> QED BY <1>1, <1>2, <1>3 DEF BInv, Users

\* Every block has its slots, there are as many as the size needs, and the count
\* is that of the elements, whatever is added, taken, resized or searched for.
THEOREM BlocksMatch == BlocksSpec => []BlocksMatchSize
BY Invariance, InvariantMatches, PTL

----------------------------------------------------------------------------
(* The refinement *)

Clients == {"random", "crude", "std"}

\* Where, of the user u and its blocks.
WhereOf(u, bs) ==
  [o \in Objects |->
     IF u \notin Clients \/ o \notin HeldIn(bs) THEN NoHandle
     ELSE Code(u, CHOOSE g \in SlotsIn(bs) : InSlot(bs, g) = o)]

\* The handles f are those of the pairs P.
IsWhere(f, P) ==
  /\ f \in [Objects -> Nat \cup {NoHandle}]
  /\ \A o \in Objects, k \in Nat : <<o, k>> \in P <=> f[o] = k

\* Where has of each object the handle of the one slot that holds it.
LEMMA WhereIs ==
  ASSUME NEW u \in Clients, NEW bs, OneToOne(Pairs(u, bs))
  PROVE  IsWhere(WhereOf(u, bs), Pairs(u, bs))
<1> DEFINE f == WhereOf(u, bs)
           P == Pairs(u, bs)
<1>1. \A p, q \in P : p[1] = q[1] <=> p[2] = q[2]
  BY DEF OneToOne
<1>2. \A o, k : <<o, k>> \in P => o \in Objects /\ k \in Nat
  BY DEF OneToOne
<1>3. ASSUME NEW o \in Objects, o \in HeldIn(bs)
      PROVE  <<o, f[o]>> \in P
  <2> DEFINE g == CHOOSE g \in SlotsIn(bs) : InSlot(bs, g) = o
  <2>1. g \in SlotsIn(bs) /\ InSlot(bs, g) = o /\ o # NoObject
    BY <1>3 DEF HeldIn
  <2>2. f[o] = Code(u, g)
    BY <1>3 DEF WhereOf
  <2> HIDE DEF f, g
  <2>3. g \in ConstructedIn(bs)
    BY <2>1 DEF ConstructedIn
  <2> QED BY <2>1, <2>2, <2>3, PairsIs
<1>4. ASSUME NEW o \in Objects, o \notin HeldIn(bs)
      PROVE  f[o] = NoHandle /\ \A k : <<o, k>> \notin P
  <2>1. f[o] = NoHandle
    BY <1>4 DEF WhereOf
  <2>2. \A h \in ConstructedIn(bs) : InSlot(bs, h) # o
    BY <1>4 DEF ConstructedIn, HeldIn
  <2> HIDE DEF f
  <2> QED BY <2>1, <2>2, PairsIs
<1>5. \A o \in Objects : f[o] \in Nat \cup {NoHandle}
  BY <1>2, <1>3, <1>4
<1>6. f = [o \in Objects |-> f[o]]
  BY DEF WhereOf
<1> HIDE DEF f, P
<1>7. ASSUME NEW o \in Objects, NEW k \in Nat, <<o, k>> \in P PROVE f[o] = k
  <2>1. <<o, f[o]>> \in P
    BY <1>3, <1>4, <1>7
  <2>2. <<o, f[o]>>[1] = <<o, k>>[1] <=> <<o, f[o]>>[2] = <<o, k>>[2]
    BY <1>1, <1>7, <2>1
  <2> QED BY <2>2
<1>8. ASSUME NEW o \in Objects, NEW k \in Nat, f[o] = k PROVE <<o, k>> \in P
  <2>1. k # NoHandle
    BY DEF NoHandle
  <2> QED BY <1>3, <1>4, <1>8, <2>1
<1>9. f \in [Objects -> Nat \cup {NoHandle}]
  BY <1>5, <1>6
<1> QED BY <1>7, <1>8, <1>9 DEF IsWhere, f, P

\* No two live objects share a handle.
LEMMA WhereInjective ==
  ASSUME NEW f, NEW P, IsWhere(f, P), OneToOne(P)
  PROVE  \A o, p \in Objects : f[o] # NoHandle /\ f[o] = f[p] => o = p
<1> SUFFICES ASSUME NEW o \in Objects, NEW p \in Objects, f[o] # NoHandle, f[o] = f[p]
             PROVE  o = p
  OBVIOUS
<1> DEFINE k == f[o]
<1>1. k \in Nat /\ f[p] = k
  BY DEF IsWhere
<1>2. <<o, k>> \in P /\ <<p, k>> \in P
  BY <1>1 DEF IsWhere
<1> HIDE DEF k
<1>3. <<o, k>>[1] = <<p, k>>[1] <=> <<o, k>>[2] = <<p, k>>[2]
  BY <1>2 DEF OneToOne
<1> QED BY <1>3

\* A pair that comes gives one object a handle.
LEMMA PairComes ==
  ASSUME NEW f, NEW g, NEW P, IsWhere(f, P), NEW o \in Objects, NEW k \in Nat,
         \A j : <<o, j>> \notin P, IsWhere(g, P \cup {<<o, k>>})
  PROVE  f[o] = NoHandle /\ g[o] = k /\ \A p \in Objects \ {o} : g[p] = f[p]
<1>1. f[o] = NoHandle
  BY DEF IsWhere
<1>2. g[o] = k
  BY DEF IsWhere
<1>3. ASSUME NEW p \in Objects \ {o} PROVE g[p] = f[p]
  <2>1. \A j : <<p, j>> # <<o, k>>
    BY <1>3
  <2>2. \A j \in Nat : g[p] = j <=> f[p] = j
    BY <2>1 DEF IsWhere
  <2>3. f[p] \in Nat \cup {NoHandle} /\ g[p] \in Nat \cup {NoHandle}
    BY DEF IsWhere
  <2> QED BY <2>2, <2>3
<1> QED BY <1>1, <1>2, <1>3

\* A pair that goes takes the handle of one object.
LEMMA PairGoes ==
  ASSUME NEW f, NEW g, NEW P, IsWhere(f, P), OneToOne(P), NEW o \in Objects, NEW k \in Nat,
         <<o, k>> \in P, IsWhere(g, P \ {<<o, k>>})
  PROVE  f[o] = k /\ g = [f EXCEPT ![o] = NoHandle]
<1>1. f[o] = k
  BY DEF IsWhere
<1>2. g[o] = NoHandle
  <2>1. \A j \in Nat : <<o, j>> \in P => j = k
    BY <1>1 DEF IsWhere
  <2>2. \A j \in Nat : g[o] # j
    BY <2>1 DEF IsWhere
  <2> QED BY <2>2 DEF IsWhere
<1>3. ASSUME NEW p \in Objects \ {o} PROVE g[p] = f[p]
  <2>1. \A j : <<p, j>> # <<o, k>>
    BY <1>3
  <2>2. \A j \in Nat : g[p] = j <=> f[p] = j
    BY <2>1 DEF IsWhere
  <2>3. f[p] \in Nat \cup {NoHandle} /\ g[p] \in Nat \cup {NoHandle}
    BY DEF IsWhere
  <2> QED BY <2>2, <2>3
<1>4. f \in [Objects -> Nat \cup {NoHandle}] /\ g \in [Objects -> Nat \cup {NoHandle}]
  BY DEF IsWhere
<1> QED BY <1>1, <1>2, <1>3, <1>4

\* Where the handles are, now and after a step.
LEMMA WhereNames == Where = WhereOf(user, blocks) /\ Where' = WhereOf(user', blocks')
BY DEF Where, WhereOf, Clients, Code, Handles, SlotsIn, Held, HeldIn, At, InSlot

\* In each of the three, no object has two handles.
LEMMA InvariantOneToOne ==
  /\ BInv /\ user \in Clients => OneToOne(Pairs(user, blocks))
  /\ BInv' /\ user' \in Clients => OneToOne(Pairs(user', blocks'))
<1>1. ASSUME NEW n, NEW c, NEW bs, NEW count, NEW u, ArrayHas(n, c, bs, count, u)
      PROVE  OneToOne(Pairs("random", bs))
  BY <1>1, ArrayPairs DEF ArrayHas
<1> QED BY <1>1 DEF BInv, CrudeHas, StdHas, Clients

\* Another user's blocks have no handles.
LEMMA OthersHaveNone ==
  ASSUME NEW u, u \notin Clients, NEW bs
  PROVE  WhereOf(u, bs) = [o \in Objects |-> NoHandle]
BY DEF WhereOf

\* The constructors' states are initial states of the abstract allocator.
LEMMA InitRefines == BInv => Abstract!Init
<1> SUFFICES ASSUME BInv PROVE Abstract!Init
  OBVIOUS
<1> DEFINE f == WhereOf(user, blocks)
<1>1. /\ f \in [Objects -> Nat \cup {-1}]
      /\ \A o, p \in Objects : f[o] # -1 /\ f[o] = f[p] => o = p
  <2>1. CASE user \in Clients
    <3>1. IsWhere(f, Pairs(user, blocks)) /\ OneToOne(Pairs(user, blocks))
      BY <2>1, InvariantOneToOne, WhereIs
    <3> HIDE DEF f
    <3> QED BY <3>1, WhereInjective DEF IsWhere, NoHandle
  <2>2. CASE user \notin Clients
    <3>1. f = [o \in Objects |-> NoHandle]
      BY <2>2, OthersHaveNone
    <3> HIDE DEF f
    <3> QED BY <3>1 DEF NoHandle
  <2> QED BY <2>1, <2>2
<1>2. Where = f
  BY WhereNames
<1> HIDE DEF f
<1> QED BY <1>1, <1>2 DEF Abstract!Init, Abstract!Typed, Abstract!Injective, Abstract!Live,
                          Abstract!NoHandle

\* Each step is a step of the abstract allocator, or none.
LEMMA NextRefines ==
  ASSUME BInv, BInv', [BlocksNext]_allVars
  PROVE  [Abstract!Next]_Where
<1> DEFINE f == WhereOf(user, blocks)
           g == WhereOf(user', blocks')
<1>1. Where = f /\ Where' = g
  BY WhereNames
<1>2. user' = user
  BY ClientStep
<1>3. CASE user \notin Clients
  BY <1>1, <1>2, <1>3, OthersHaveNone
<1>4. CASE user \in Clients
  <2> DEFINE P == Pairs(user, blocks)
             Q == Pairs(user, blocks')
  <2>1. OneToOne(P) /\ OneToOne(Q)
    BY <1>2, <1>4, InvariantOneToOne
  <2>2. IsWhere(f, P) /\ IsWhere(g, Q)
    BY <1>2, <1>4, <2>1, WhereIs
  <2>3. PairsMove(user, blocks, blocks')
    BY <1>4, ClientStep DEF Clients
  <2>4. \A o \in Objects \ HeldIn(blocks) : \A k : <<o, k>> \notin P
    <3>1. \A h \in ConstructedIn(blocks) : InSlot(blocks, h) \in HeldIn(blocks)
      BY DEF ConstructedIn, HeldIn
    <3>2. \A o, k : <<o, k>> \in P => o \in HeldIn(blocks)
      BY <3>1, PairsIs
    <3> HIDE DEF P
    <3> QED BY <3>2
  <2>5. /\ f \in [Objects -> Nat \cup {-1}] /\ g \in [Objects -> Nat \cup {-1}]
        /\ \A o, p \in Objects : g[o] # -1 /\ g[o] = g[p] => o = p
    <3> HIDE DEF f, g, P, Q
    <3> QED BY <2>1, <2>2, WhereInjective DEF IsWhere, NoHandle
  <2> HIDE DEF f, g
  <2>6. CASE Q = P
    <3> HIDE DEF P, Q
    <3>1. \A o \in Objects : g[o] = f[o]
      <4> TAKE o \in Objects
      <4>1. \A k \in Nat : g[o] = k <=> f[o] = k
        BY <2>2, <2>6 DEF IsWhere
      <4> QED BY <2>5, <4>1
    <3> QED BY <1>1, <2>5, <3>1
  <2>7. ASSUME NEW o \in Objects \ HeldIn(blocks), NEW k \in Nat, Q = P \cup {<<o, k>>}
        PROVE  Abstract!Next
    <3>1. \A j : <<o, j>> \notin P
      BY <2>4
    <3> HIDE DEF P, Q
    <3>2. f[o] = -1 /\ g[o] = k /\ \A p \in Objects \ {o} : g[p] = f[p]
      BY <2>2, <2>7, <3>1, PairComes DEF NoHandle
    <3>3. Abstract!Construct(o)
      BY <1>1, <2>5, <3>2
      DEF Abstract!Construct, Abstract!Typed, Abstract!Injective, Abstract!Live,
          Abstract!NoHandle, Abstract!KeepsOthers
    <3> QED BY <3>3 DEF Abstract!Next
  <2>8. ASSUME NEW o \in Objects, NEW k \in Nat, <<o, k>> \in P, Q = P \ {<<o, k>>}
        PROVE  Abstract!Next
    <3> HIDE DEF P, Q
    <3>1. f[o] = k /\ g = [f EXCEPT ![o] = NoHandle]
      BY <2>1, <2>2, <2>8, PairGoes
    <3>2. Abstract!Destruct(o)
      BY <1>1, <3>1 DEF Abstract!Destruct, Abstract!Live, Abstract!NoHandle, NoHandle
    <3> QED BY <3>2 DEF Abstract!Next
  <2> QED BY <2>3, <2>6, <2>7, <2>8 DEF PairsMove
<1> QED BY <1>3, <1>4

\* The three allocators implement the abstract one, for any client: a live object
\* keeps its handle and shares it with no other, and a step that gives a handle
\* gives it to one object that had none.
THEOREM Refinement == BlocksSpec => Refines
<1>1. BlocksInit => Abstract!Init
  BY InitInvariant, InitRefines
<1>2. BInv /\ BInv' /\ [BlocksNext]_allVars => [Abstract!Next]_Where
  BY NextRefines
<1> QED BY <1>1, <1>2, Invariance, PTL DEF BlocksSpec, Refines, Abstract!Spec

----------------------------------------------------------------------------
(* The iterator *)

\* The first index from i on that is in S, or n; the last one down from i.
FirstAt(n, S, i) == CHOOSE j \in i .. n : (j = n \/ j \in S) /\ \A m \in i .. j - 1 : m \notin S
LastAt(S, i) == CHOOSE j \in S : j <= i /\ \A m \in S : m <= i => m <= j

\* Induction down from n.
LEMMA DownFrom ==
  ASSUME NEW n \in Nat, NEW T, n \in T, \A i \in 0 .. n - 1 : i + 1 \in T => i \in T
  PROVE  0 .. n \subseteq T
<1> DEFINE U == {k \in 0 .. n : n - k \in T}
<1>1. 0 \in U
  OBVIOUS
<1>2. ASSUME NEW k \in 0 .. n - 1, k \in U PROVE k + 1 \in U
  <2> DEFINE i == n - (k + 1)
  <2>1. i \in 0 .. n - 1 /\ i + 1 = n - k
    OBVIOUS
  <2>2. i \in T
    <3> HIDE DEF i
    <3> QED BY <1>2, <2>1
  <2> QED BY <2>2
<1>3. 0 .. n \subseteq U
  <2> HIDE DEF U
  <2> QED BY <1>1, <1>2, UpTo
<1>4. ASSUME NEW i \in 0 .. n PROVE i \in T
  <2> DEFINE k == n - i
  <2>1. k \in 0 .. n /\ n - k = i
    OBVIOUS
  <2> HIDE DEF k
  <2> QED BY <1>3, <2>1
<1> QED BY <1>4

\* The same upward.
LEMMA UpFrom ==
  ASSUME NEW f \in Nat, NEW n \in Nat, f <= n, NEW T, f \in T,
         \A i \in f .. n - 1 : i \in T => i + 1 \in T
  PROVE  f .. n \subseteq T
<1> DEFINE U == {k \in 0 .. n - f : f + k \in T}
<1>1. 0 \in U
  OBVIOUS
<1>2. ASSUME NEW k \in 0 .. n - f - 1, k \in U PROVE k + 1 \in U
  <2> DEFINE i == f + k
  <2>1. i \in f .. n - 1 /\ i + 1 = f + (k + 1) /\ i \in T
    BY <1>2
  <2>2. i + 1 \in T
    <3> HIDE DEF i
    <3> QED BY <2>1
  <2> QED BY <2>1, <2>2
<1>3. 0 .. n - f \subseteq U
  <2> DEFINE d == n - f
  <2>1. d \in Nat /\ \A k \in 0 .. d - 1 : k \in U => k + 1 \in U
    BY <1>2
  <2> HIDE DEF U, d
  <2>2. 0 .. d \subseteq U
    BY <1>1, <2>1, UpTo
  <2> QED BY <2>2 DEF d
<1>4. ASSUME NEW i \in f .. n PROVE i \in T
  <2> DEFINE k == i - f
  <2>1. k \in 0 .. n - f /\ f + k = i
    OBVIOUS
  <2> HIDE DEF k
  <2> QED BY <1>3, <2>1
<1> QED BY <1>4

\* The first index is found a step at a time.
LEMMA FirstAtIs ==
  ASSUME NEW n \in Nat, NEW S, S \subseteq 0 .. n - 1, NEW i \in 0 .. n
  PROVE  /\ FirstAt(n, S, i) \in i .. n
         /\ FirstAt(n, S, i) = n \/ FirstAt(n, S, i) \in S
         /\ \A m \in S : m >= i => m >= FirstAt(n, S, i)
         /\ i = n \/ i \in S => FirstAt(n, S, i) = i
         /\ i # n /\ i \notin S => FirstAt(n, S, i) = FirstAt(n, S, i + 1)
<1> DEFINE Good(k, j) == j \in k .. n /\ (j = n \/ j \in S) /\ \A m \in k .. j - 1 : m \notin S
<1>1. ASSUME NEW k \in 0 .. n PROVE \E j : Good(k, j)
  <2> DEFINE T == {j \in k .. n : j = n \/ j \in S}
  <2>1. T \subseteq Nat /\ n \in T
    OBVIOUS
  <2>2. PICK j \in T : \A m \in T : j <= m
    <3> HIDE DEF T
    <3> QED BY <2>1, Least
  <2>3. \A m \in k .. j - 1 : m \notin S
    BY <2>2
  <2> QED BY <2>2, <2>3
<1>2. ASSUME NEW k \in 0 .. n PROVE Good(k, FirstAt(n, S, k))
  <2>1. \E j \in k .. n : (j = n \/ j \in S) /\ \A m \in k .. j - 1 : m \notin S
    BY <1>1
  <2> QED BY <2>1 DEF FirstAt
<1>3. ASSUME NEW k \in 0 .. n, NEW j, NEW l, Good(k, j), Good(k, l) PROVE j = l
  <2>1. j \in k .. n /\ l \in k .. n
    BY <1>3
  <2>2. ~(j < l)
    BY <1>3, <2>1
  <2>3. ~(l < j)
    BY <1>3, <2>1
  <2> QED BY <2>1, <2>2, <2>3
<1>4. i = n \/ i \in S => Good(i, i)
  OBVIOUS
<1>5. ASSUME i # n, i \notin S PROVE Good(i, FirstAt(n, S, i + 1))
  <2> DEFINE j == FirstAt(n, S, i + 1)
  <2>1. i + 1 \in 0 .. n
    BY <1>5
  <2>2. Good(i + 1, j)
    BY <1>2, <2>1
  <2> HIDE DEF j
  <2>3. Good(i, j)
    BY <1>5, <2>2
  <2> QED BY <2>3 DEF j
<1>6. Good(i, FirstAt(n, S, i))
  BY <1>2
<1> DEFINE a == FirstAt(n, S, i)
           b == FirstAt(n, S, i + 1)
<1>7. (i = n \/ i \in S => Good(i, i)) /\ (i # n /\ i \notin S => Good(i, b)) /\ Good(i, a)
  BY <1>4, <1>5, <1>6
<1> HIDE DEF a, b
<1>8. (i = n \/ i \in S => a = i) /\ (i # n /\ i \notin S => a = b)
  <2> HIDE DEF Good
  <2> QED BY <1>3, <1>7
<1>9. \A m \in S : m >= i => m >= a
  BY <1>7
<1> QED BY <1>7, <1>8, <1>9 DEF a, b

\* And so is the last one.
LEMMA LastAtIs ==
  ASSUME NEW n \in Nat, NEW S, S \subseteq 0 .. n - 1, NEW f \in S, NEW i \in f .. n - 1
  PROVE  /\ LastAt(S, i) \in S /\ LastAt(S, i) <= i /\ f <= LastAt(S, i)
         /\ \A m \in S : m <= i => m <= LastAt(S, i)
         /\ i \in S => LastAt(S, i) = i
<1> DEFINE Good(k, j) == j \in S /\ j <= k /\ \A m \in S : m <= k => m <= j
<1>1. ASSUME NEW k \in f .. n - 1 PROVE \E j : Good(k, j)
  <2> DEFINE T == {x \in Nat : \E j \in S : j <= k /\ x = k - j}
  <2>1. T \subseteq Nat /\ k - f \in T
    OBVIOUS
  <2>2. PICK x \in T : \A y \in T : x <= y
    <3> HIDE DEF T
    <3> QED BY <2>1, Least
  <2>3. PICK j \in S : j <= k /\ x = k - j
    BY <2>2
  <2>4. ASSUME NEW m \in S, m <= k PROVE m <= j
    <3>1. k - m \in T
      BY <2>4
    <3>2. k - j <= k - m
      BY <2>2, <2>3, <3>1
    <3> HIDE DEF T
    <3> QED BY <2>3, <3>2
  <2> QED BY <2>3, <2>4
<1>2. ASSUME NEW k \in f .. n - 1 PROVE Good(k, LastAt(S, k))
  <2>1. \E j \in S : j <= k /\ \A m \in S : m <= k => m <= j
    BY <1>1
  <2> QED BY <2>1 DEF LastAt
<1>3. ASSUME NEW k \in Nat, NEW j, NEW l, Good(k, j), Good(k, l) PROVE j = l
  <2>1. j \in Nat /\ l \in Nat /\ j <= l /\ l <= j
    BY <1>3
  <2> QED BY <2>1
<1>4. i \in S => Good(i, i)
  OBVIOUS
<1>5. Good(i, LastAt(S, i))
  BY <1>2
<1> DEFINE a == LastAt(S, i)
<1>6. (i \in S => Good(i, i)) /\ Good(i, a) /\ i \in Nat
  BY <1>4, <1>5
<1> HIDE DEF a
<1>7. i \in S => a = i
  <2> HIDE DEF Good
  <2> QED BY <1>3, <1>6
<1>8. f <= a
  BY <1>6
<1> QED BY <1>6, <1>7, <1>8 DEF a

\* The search goes back a step at a time.
LEMMA LastAtBefore ==
  ASSUME NEW n \in Nat, NEW S, S \subseteq 0 .. n - 1, NEW f \in S, NEW i \in f .. n - 1,
         i \notin S
  PROVE  i # f /\ LastAt(S, i) = LastAt(S, i - 1)
<1> DEFINE a == LastAt(S, i)
           b == LastAt(S, i - 1)
<1>1. i # f /\ i - 1 \in f .. n - 1
  OBVIOUS
<1>2. a \in S /\ a <= i /\ \A m \in S : m <= i => m <= a
  BY LastAtIs
<1>3. b \in S /\ b <= i - 1 /\ \A m \in S : m <= i - 1 => m <= b
  BY <1>1, LastAtIs
<1> HIDE DEF a, b
<1>4. a \in Nat /\ b \in Nat /\ i \in Nat /\ a # i
  BY <1>2, <1>3
<1>5. a <= b /\ b <= a
  BY <1>2, <1>3, <1>4
<1>6. a = b
  BY <1>4, <1>5
<1> QED BY <1>1, <1>6 DEF a, b

\* What the iterator sees of the array.
LEMMA PositionIs ==
  ASSUME NEW c, ArrayHas(size, c, blocks, num_existing, user)
  PROVE  /\ size \in Nat /\ Filled(c) \subseteq 0 .. size - 1 /\ OneEach(c) /\ Held = HeldOf(c)
         /\ \A i \in 0 .. size : IndexOf(HandleOf(i)) = i
         /\ \A i \in 0 .. size - 1 : /\ NextHandle(HandleOf(i)) = HandleOf(i + 1)
                                     /\ Constructed(HandleOf(i)) <=> i \in Filled(c)
                                     /\ At(HandleOf(i)) = c[i]
         /\ \A i \in 1 .. size : PrevHandle(HandleOf(i)) = HandleOf(i - 1)
<1>1. /\ IsContent(size, c) /\ IsBlocks(blocks, size, c) /\ OneEach(c) /\ size <= MaxSize
      /\ size \in Nat /\ DOMAIN c = 0 .. size - 1 /\ Filled(c) \subseteq 0 .. size - 1
      /\ size \in Sizes /\ HeldIn(blocks) = HeldOf(c)
  BY FilledIs, HeldIs DEF ArrayHas, IsContent
<1>2. ASSUME NEW i \in 0 .. size PROVE i \in Nat /\ i \in Sizes
  <2>1. i \in Nat /\ i <= MaxSize
    BY <1>1, BoundsAssumption
  <2> QED BY <2>1, SizeFits
<1>3. \A i \in 0 .. size : IndexOf(HandleOf(i)) = i
  BY <1>2, HandleIs
<1>4. ASSUME NEW i \in 0 .. size - 1
      PROVE  /\ NextHandle(HandleOf(i)) = HandleOf(i + 1)
             /\ Constructed(HandleOf(i)) <=> i \in Filled(c)
             /\ At(HandleOf(i)) = c[i]
  <2>1. i \in 0 .. size /\ i + 1 \in 0 .. size
    BY <1>1
  <2>2. NextHandle(HandleOf(i)) = HandleOf(i + 1)
    BY <1>2, <2>1, NextHandleIs
  <2>3. InSlot(blocks, HandleOf(i)) = c[i]
    BY <1>1, ArraySlots
  <2> QED BY <1>1, <2>2, <2>3, ArrayNames DEF Filled
<1>5. ASSUME NEW i \in 1 .. size PROVE PrevHandle(HandleOf(i)) = HandleOf(i - 1)
  <2>1. i \in Sizes /\ i > 0
    BY <1>1, <1>2
  <2> QED BY <2>1, PrevHandleIs
<1> QED BY <1>1, <1>3, <1>4, <1>5, ArrayNames

IsForward(f) ==
  f = [h \in {HandleOf(i) : i \in 0 .. size} |->
         IF h = End \/ Constructed(h) THEN h ELSE f[NextHandle(h)]]

\* operator++ goes on to the next element, or to the end.
LEMMA ForwardIs ==
  ASSUME NEW c, ArrayHas(size, c, blocks, num_existing, user)
  PROVE  \A i \in 0 .. size : SkipForward[HandleOf(i)] = HandleOf(FirstAt(size, Filled(c), i))
<1> DEFINE D == {HandleOf(i) : i \in 0 .. size}
           S == Filled(c)
           w == [h \in D |-> HandleOf(FirstAt(size, S, IndexOf(h)))]
           Value(f, h) == IF h = End \/ Constructed(h) THEN h ELSE f[NextHandle(h)]
<1>1. /\ size \in Nat /\ S \subseteq 0 .. size - 1
      /\ \A i \in 0 .. size : IndexOf(HandleOf(i)) = i
      /\ \A i \in 0 .. size - 1 : /\ NextHandle(HandleOf(i)) = HandleOf(i + 1)
                                  /\ Constructed(HandleOf(i)) <=> i \in S
  BY PositionIs
<1>2. \A i \in 0 .. size : HandleOf(i) = End <=> i = size
  BY <1>1 DEF End
<1>3. \A i \in 0 .. size : w[HandleOf(i)] = HandleOf(FirstAt(size, S, i))
  BY <1>1
<1> HIDE DEF S
<1>4. /\ \A i \in 0 .. size : i = size \/ i \in S => FirstAt(size, S, i) = i
      /\ \A i \in 0 .. size :
           i # size /\ i \notin S => FirstAt(size, S, i) = FirstAt(size, S, i + 1)
  BY <1>1, FirstAtIs
<1>5. ASSUME NEW i \in 0 .. size PROVE w[HandleOf(i)] = Value(w, HandleOf(i))
  <2> HIDE DEF w, D
  <2>1. CASE i = size \/ i \in S
    <3>1. HandleOf(i) = End \/ Constructed(HandleOf(i))
      BY <1>1, <1>2, <2>1
    <3>2. w[HandleOf(i)] = HandleOf(i)
      BY <1>3, <1>4, <2>1
    <3> QED BY <3>1, <3>2
  <2>2. CASE ~(i = size \/ i \in S)
    <3>1. i \in 0 .. size - 1 /\ i + 1 \in 0 .. size
      BY <1>1, <2>2
    <3>2. /\ ~(HandleOf(i) = End \/ Constructed(HandleOf(i)))
          /\ NextHandle(HandleOf(i)) = HandleOf(i + 1)
      BY <1>1, <1>2, <2>2, <3>1
    <3>3. FirstAt(size, S, i) = FirstAt(size, S, i + 1)
      BY <1>4, <2>2
    <3>4. w[HandleOf(i)] = w[HandleOf(i + 1)]
      BY <1>3, <3>1, <3>3
    <3> QED BY <3>2, <3>4
  <2> QED BY <2>1, <2>2
<1>6. IsForward(w)
  <2>1. \A h \in D : w[h] = Value(w, h)
    BY <1>5
  <2>2. w = [h \in D |-> w[h]]
    OBVIOUS
  <2> HIDE DEF w
  <2>3. w = [h \in D |-> Value(w, h)]
    BY <2>1, <2>2
  <2> QED BY <2>3 DEF IsForward
<1>7. IsForward(SkipForward)
  <2>1. \E f : IsForward(f)
    <3> HIDE DEF w
    <3> QED BY <1>6
  <2> QED BY <2>1 DEF SkipForward, IsForward
<1>8. \A i \in 0 .. size : SkipForward[HandleOf(i)] = Value(SkipForward, HandleOf(i))
  BY <1>7 DEF IsForward
<1> DEFINE T == {i \in 0 .. size : SkipForward[HandleOf(i)] = HandleOf(FirstAt(size, S, i))}
<1> HIDE DEF w, D
<1>9. ASSUME NEW i \in 0 .. size, i = size \/ i \in S
      PROVE  SkipForward[HandleOf(i)] = HandleOf(FirstAt(size, S, i))
  <2>1. HandleOf(i) = End \/ Constructed(HandleOf(i))
    BY <1>1, <1>2, <1>9
  <2>2. FirstAt(size, S, i) = i
    BY <1>4, <1>9
  <2> QED BY <1>8, <2>1, <2>2
<1>10. ASSUME NEW i \in 0 .. size - 1, i + 1 \in T PROVE i \in T
  <2>1. i \in 0 .. size /\ i # size /\ i + 1 \in 0 .. size
    BY <1>1
  <2>2. CASE i \in S
    BY <1>9, <2>1, <2>2
  <2>3. CASE i \notin S
    <3>1. /\ ~(HandleOf(i) = End \/ Constructed(HandleOf(i)))
          /\ NextHandle(HandleOf(i)) = HandleOf(i + 1)
      BY <1>1, <1>2, <2>1, <2>3
    <3>2. SkipForward[HandleOf(i)] = SkipForward[HandleOf(i + 1)]
      BY <1>8, <2>1, <3>1
    <3>3. FirstAt(size, S, i) = FirstAt(size, S, i + 1)
      BY <1>4, <2>1, <2>3
    <3>4. SkipForward[HandleOf(i + 1)] = HandleOf(FirstAt(size, S, i + 1))
      BY <1>10
    <3> QED BY <2>1, <3>2, <3>3, <3>4
  <2> QED BY <2>2, <2>3
<1>11. size \in T
  BY <1>1, <1>9
<1>12. 0 .. size \subseteq T
  <2> HIDE DEF T
  <2> QED BY <1>1, <1>10, <1>11, DownFrom
<1> QED BY <1>12 DEF S

IsBack(f, first) ==
  f = [h \in {HandleOf(i) : i \in first .. size - 1} |->
         IF Constructed(h) THEN h ELSE f[PrevHandle(h)]]

\* begin() is the first element, and operator-- goes back to the one before.
LEMMA BackIs ==
  ASSUME NEW c, ArrayHas(size, c, blocks, num_existing, user), Filled(c) # {}
  PROVE  LET first == FirstAt(size, Filled(c), 0)
         IN  /\ first \in Filled(c) /\ Begin = HandleOf(first)
             /\ \A i \in first .. size - 1 :
                  SkipBack[HandleOf(i)] = HandleOf(LastAt(Filled(c), i))
<1> DEFINE S == Filled(c)
           first == FirstAt(size, S, 0)
           D == {HandleOf(i) : i \in first .. size - 1}
           w == [h \in D |-> HandleOf(LastAt(S, IndexOf(h)))]
           Value(f, h) == IF Constructed(h) THEN h ELSE f[PrevHandle(h)]
<1>1. /\ size \in Nat /\ S \subseteq 0 .. size - 1 /\ S # {}
      /\ \A i \in 0 .. size : IndexOf(HandleOf(i)) = i
      /\ \A i \in 0 .. size - 1 : Constructed(HandleOf(i)) <=> i \in S
      /\ \A i \in 1 .. size : PrevHandle(HandleOf(i)) = HandleOf(i - 1)
  BY PositionIs
<1>2. Begin = HandleOf(first)
  BY <1>1, ForwardIs DEF Begin
<1> HIDE DEF S, first
<1>3. first \in S /\ first \in 0 .. size - 1
  <2>1. 0 \in 0 .. size
    BY <1>1
  <2>2. ASSUME NEW i \in 0 .. size
        PROVE  /\ FirstAt(size, S, i) \in i .. size
               /\ FirstAt(size, S, i) = size \/ FirstAt(size, S, i) \in S
               /\ \A m \in S : m >= i => m >= FirstAt(size, S, i)
    BY <1>1, FirstAtIs
  <2>3. /\ first \in 0 .. size /\ (first = size \/ first \in S)
        /\ \A m \in S : m >= 0 => m >= first
    BY <2>1, <2>2 DEF first
  <2>4. PICK m \in S : m \in 0 .. size - 1
    BY <1>1
  <2>5. first # size
    BY <1>1, <2>3, <2>4
  <2> QED BY <1>1, <2>3, <2>5
<1>4. \A i \in first .. size - 1 : i \in 0 .. size - 1 /\ i \in 0 .. size
  BY <1>1, <1>3
<1>5. /\ \A i \in first .. size - 1 : i \in S => LastAt(S, i) = i
      /\ \A i \in first .. size - 1 : i \notin S => i # first /\ LastAt(S, i) = LastAt(S, i - 1)
  <2> SUFFICES ASSUME NEW i \in first .. size - 1
               PROVE  /\ i \in S => LastAt(S, i) = i
                      /\ i \notin S => i # first /\ LastAt(S, i) = LastAt(S, i - 1)
    OBVIOUS
  <2> HIDE DEF D, w
  <2>1. size \in Nat /\ S \subseteq 0 .. size - 1 /\ first \in S
    BY <1>1, <1>3
  <2>2. i \in S => LastAt(S, i) = i
    BY <2>1, LastAtIs
  <2>3. i \notin S => i # first /\ LastAt(S, i) = LastAt(S, i - 1)
    BY <2>1, LastAtBefore
  <2> QED BY <2>2, <2>3
<1>6. \A i \in first .. size - 1 : w[HandleOf(i)] = HandleOf(LastAt(S, i))
  BY <1>1, <1>4
<1>7. ASSUME NEW i \in first .. size - 1 PROVE w[HandleOf(i)] = Value(w, HandleOf(i))
  <2> HIDE DEF w, D
  <2>1. CASE i \in S
    BY <1>1, <1>4, <1>5, <1>6, <2>1
  <2>2. CASE i \notin S
    <3>1. i - 1 \in first .. size - 1 /\ i \in 1 .. size
      BY <1>1, <1>3, <1>5, <2>2
    <3>2. ~Constructed(HandleOf(i)) /\ PrevHandle(HandleOf(i)) = HandleOf(i - 1)
      BY <1>1, <1>4, <2>2, <3>1
    <3>3. LastAt(S, i) = LastAt(S, i - 1)
      BY <1>5, <2>2
    <3>4. w[HandleOf(i)] = w[HandleOf(i - 1)]
      BY <1>6, <3>1, <3>3
    <3> QED BY <3>2, <3>4
  <2> QED BY <2>1, <2>2
<1>8. IsBack(w, first)
  <2>1. \A h \in D : w[h] = Value(w, h)
    BY <1>7
  <2>2. w = [h \in D |-> w[h]]
    OBVIOUS
  <2> HIDE DEF w
  <2>3. w = [h \in D |-> Value(w, h)]
    BY <2>1, <2>2
  <2> QED BY <2>3 DEF IsBack
<1>9. IsBack(SkipBack, first)
  <2>1. \E f : IsBack(f, first)
    <3> HIDE DEF w
    <3> QED BY <1>8
  <2>2. IndexOf(Begin) = first
    BY <1>1, <1>2, <1>3, <1>4
  <2>3. SkipBack = CHOOSE f : IsBack(f, IndexOf(Begin))
    BY DEF SkipBack, IsBack
  <2> QED BY <2>1, <2>2, <2>3
<1>10. \A i \in first .. size - 1 : SkipBack[HandleOf(i)] = Value(SkipBack, HandleOf(i))
  BY <1>9 DEF IsBack
<1> DEFINE T == {i \in first .. size - 1 : SkipBack[HandleOf(i)] = HandleOf(LastAt(S, i))}
<1> HIDE DEF w, D
<1>11. ASSUME NEW i \in first .. size - 1, i \in S PROVE i \in T
  BY <1>1, <1>4, <1>5, <1>10, <1>11
<1>12. ASSUME NEW j \in first .. size - 1 - 1, j \in T PROVE j + 1 \in T
  <2> DEFINE i == j + 1
  <2>1. i \in first .. size - 1 /\ i - 1 = j /\ i \in 1 .. size
    BY <1>1, <1>3
  <2> HIDE DEF i
  <2>2. CASE i \notin S
    <3>1. ~Constructed(HandleOf(i)) /\ PrevHandle(HandleOf(i)) = HandleOf(j)
      BY <1>1, <1>4, <2>1, <2>2
    <3>2. LastAt(S, i) = LastAt(S, j)
      BY <1>5, <2>1, <2>2
    <3>3. SkipBack[HandleOf(i)] = SkipBack[HandleOf(j)]
      BY <1>10, <2>1, <3>1
    <3> QED BY <1>12, <2>1, <3>2, <3>3
  <2>3. i \in T
    BY <1>11, <2>1, <2>2
  <2> QED BY <2>3 DEF i
<1>13. first .. size - 1 \subseteq T
  <2> DEFINE n == size - 1
  <2>1. n \in Nat /\ first \in Nat /\ first <= n /\ first \in T
    BY <1>1, <1>3, <1>11
  <2>2. \A i \in first .. n - 1 : i \in T => i + 1 \in T
    BY <1>12
  <2> HIDE DEF T, n
  <2>3. first .. n \subseteq T
    BY <2>1, <2>2, UpFrom
  <2> QED BY <2>3 DEF n
<1> QED BY <1>2, <1>3, <1>13 DEF S, first

----------------------------------------------------------------------------
(* The loops *)

\* The loop at index i has j behind it.
Behind(back, i, j) == IF back THEN j >= i ELSE j <= i

\* What it has met, V, is there and behind it; what it has to meet, K, is there,
\* and is met if it is behind.
Met(c, i, back, V, K) ==
  /\ \A o \in V : \E j \in Filled(c) : c[j] = o /\ Behind(back, i, j)
  /\ \A o \in K : \E j \in Filled(c) : c[j] = o /\ (Behind(back, i, j) => o \in V)

\* The iterator of a loop backward is at an element.
LoopsOn(c, i) ==
  /\ i \in 0 .. size - 1 /\ cursor = HandleOf(i)
  /\ backward => i \in Filled(c)
  /\ Met(c, i, backward, visited, kept)

LInv ==
  cursor # NoCursor =>
    /\ user \in {"dense", "sparse"}
    /\ \E c, i : ArrayHas(size, c, blocks, num_existing, user) /\ LoopsOn(c, i)

\* Elements that come change nothing of that.
LEMMA ComesMet ==
  ASSUME NEW c, NEW d, NEW i, NEW back, NEW V, NEW K, Met(c, i, back, V, K),
         Filled(c) \subseteq Filled(d), \A j \in Filled(c) : d[j] = c[j]
  PROVE  Met(d, i, back, V, K)
BY DEF Met

\* One that comes ahead of the loop may be one to meet.
LEMMA AheadMet ==
  ASSUME NEW c, NEW i, NEW back, NEW V, NEW K, Met(c, i, back, V, K),
         NEW j \in Filled(c), ~Behind(back, i, j)
  PROVE  Met(c, i, back, V, K \cup {c[j]})
BY DEF Met

\* One that goes goes from both sets.
LEMMA GoesMet ==
  ASSUME NEW c, NEW d, NEW i, NEW back, NEW V, NEW K, Met(c, i, back, V, K), NEW k \in Filled(c),
         Filled(d) = Filled(c) \ {k}, \A j \in Filled(c) \ {k} : d[j] = c[j]
  PROVE  Met(d, i, back, V \ {c[k]}, K \ {c[k]})
<1>1. ASSUME NEW o \in V \ {c[k]} PROVE \E j \in Filled(d) : d[j] = o /\ Behind(back, i, j)
  <2>1. PICK j \in Filled(c) : c[j] = o /\ Behind(back, i, j)
    BY DEF Met
  <2> QED BY <2>1
<1>2. ASSUME NEW o \in K \ {c[k]}
      PROVE  \E j \in Filled(d) : d[j] = o /\ (Behind(back, i, j) => o \in V \ {c[k]})
  <2>1. PICK j \in Filled(c) : c[j] = o /\ (Behind(back, i, j) => o \in V)
    BY DEF Met
  <2> QED BY <2>1
<1> QED BY <1>1, <1>2 DEF Met

\* The loop goes on to the next element, at k.
LEMMA MovesMet ==
  ASSUME NEW c, NEW n \in Nat, Filled(c) \subseteq 0 .. n - 1, NEW i \in Nat, NEW back,
         NEW V, NEW K, Met(c, i, back, V, K), NEW k \in Filled(c), ~Behind(back, i, k),
         \A j \in Filled(c) : Behind(back, i, j) \/ j = k \/ ~Behind(back, k, j)
  PROVE  Met(c, k, back, V \cup {c[k]}, K)
<1>1. \A j \in Filled(c) : j \in Nat
  OBVIOUS
<1>2. \A j \in Filled(c) : Behind(back, i, j) => Behind(back, k, j)
  BY <1>1 DEF Behind
<1>3. Behind(back, k, k)
  BY <1>1 DEF Behind
<1>4. ASSUME NEW o \in V \cup {c[k]} PROVE \E j \in Filled(c) : c[j] = o /\ Behind(back, k, j)
  BY <1>2, <1>3 DEF Met
<1>5. ASSUME NEW o \in K
      PROVE  \E j \in Filled(c) : c[j] = o /\ (Behind(back, k, j) => o \in V \cup {c[k]})
  <2>1. PICK j \in Filled(c) : c[j] = o /\ (Behind(back, i, j) => o \in V)
    BY DEF Met
  <2> QED BY <2>1
<1> QED BY <1>4, <1>5 DEF Met

\* The loop begins, at k.
LEMMA BeginsMet ==
  ASSUME NEW c, NEW n \in Nat, Filled(c) \subseteq 0 .. n - 1, NEW back, NEW k \in Filled(c),
         \A j \in Filled(c) : j = k \/ ~Behind(back, k, j)
  PROVE  Met(c, k, back, {c[k]}, HeldOf(c))
<1>1. k \in Nat
  OBVIOUS
<1>2. Behind(back, k, k)
  BY <1>1 DEF Behind
<1>3. \A o \in HeldOf(c) : \E j \in Filled(c) : c[j] = o
  BY DEF HeldOf
<1> QED BY <1>2, <1>3 DEF Met

\* In the state after a step, the content d and the index i are as LInv says.
LEMMA LoopsOnAfter ==
  ASSUME NEW d, NEW i, user' \in {"dense", "sparse"},
         ArrayHas(size', d, blocks', num_existing', user'),
         i \in 0 .. size' - 1, cursor' = HandleOf(i), backward' => i \in Filled(d),
         Met(d, i, backward', visited', kept')
  PROVE  LInv'
<1>1. \E c, k : /\ ArrayHas(size', c, blocks', num_existing', user')
                /\ /\ k \in 0 .. size' - 1 /\ cursor' = HandleOf(k)
                   /\ backward' => k \in Filled(c)
                   /\ Met(c, k, backward', visited', kept')
  BY Zenon
<1> QED BY <1>1, Zenon DEF LInv, LoopsOn

\* emplace_back() under a loop.
LEMMA EmplaceKeepsLoop ==
  ASSUME LInv, user \in {"dense", "sparse"}, NEW o \in Objects, EmplaceBack(o)
  PROVE  LInv'
<1>1. CASE cursor = NoCursor
  BY <1>1 DEF EmplaceBack, LInv
<1>2. CASE cursor # NoCursor
  <2>1. PICK c, i : ArrayHas(size, c, blocks, num_existing, user) /\ LoopsOn(c, i)
    BY <1>2 DEF LInv
  <2>2. /\ EmplacedBack(o) /\ o \in Free /\ user' = user /\ cursor' = cursor
        /\ backward' = backward /\ visited' = visited
        /\ kept' = IF ~backward THEN kept \cup {o} ELSE kept
    BY <1>2 DEF EmplaceBack
  <2>3. o \in Objects \ HeldOf(c)
    BY <2>1, <2>2, ArrayNames, PositionIs
  <2> DEFINE d == Put(Longer(c, size), size, o)
  <2>4. /\ ArrayHas(size', d, blocks', num_existing', user)
        /\ size \in Nat /\ size' = size + 1
        /\ Filled(d) = Filled(c) \cup {size} /\ d[size] = o /\ \A j \in Filled(c) : d[j] = c[j]
    BY <2>1, <2>2, <2>3, EmplacedKeeps
  <2> HIDE DEF d
  <2>5. i \in 0 .. size - 1 /\ cursor = HandleOf(i) /\ (backward => i \in Filled(c))
        /\ Met(c, i, backward, visited, kept)
    BY <2>1 DEF LoopsOn
  <2>6. Met(d, i, backward, visited, kept)
    BY <2>4, <2>5, ComesMet
  <2>7. ~backward => Met(d, i, backward, visited, kept \cup {o})
    <3> SUFFICES ASSUME ~backward PROVE Met(d, i, backward, visited, kept \cup {o})
      OBVIOUS
    <3>1. size \in Filled(d) /\ d[size] = o
      BY <2>4
    <3>2. ~Behind(backward, i, size)
      BY <2>4, <2>5 DEF Behind
    <3> QED BY <2>6, <3>1, <3>2, AheadMet
  <2>8. Met(d, i, backward', visited', kept')
    BY <2>2, <2>6, <2>7
  <2>9. i \in 0 .. size' - 1 /\ (backward' => i \in Filled(d)) /\ cursor' = HandleOf(i)
    BY <2>2, <2>4, <2>5
  <2> QED BY <2>2, <2>4, <2>8, <2>9, LoopsOnAfter
<1> QED BY <1>1, <1>2

\* Accessor::construct() under a loop.
LEMMA ConstructKeepsLoop ==
  ASSUME LInv, user \in {"dense", "sparse"}, NEW h \in Handles, NEW o \in Objects, Construct(h, o)
  PROVE  LInv'
<1>1. /\ IndexOf(h) < size /\ ~Constructed(h) /\ o \in Free /\ blocks' = Store(blocks, h, o)
      /\ num_existing' = num_existing + 1 /\ user' = user /\ size' = size
      /\ cursor' = cursor /\ backward' = backward /\ visited' = visited /\ kept' = kept
  BY DEF Construct, loop
<1>2. CASE cursor = NoCursor
  BY <1>1, <1>2 DEF LInv
<1>3. CASE cursor # NoCursor
  <2>1. PICK c, i : ArrayHas(size, c, blocks, num_existing, user) /\ LoopsOn(c, i)
    BY <1>3 DEF LInv
  <2>2. o \in Objects \ HeldOf(c) /\ h \in SlotsIn(blocks)
    BY <1>1, <2>1, ArrayNames, PositionIs
  <2>3. InSlot(blocks, h) = NoObject
    BY <1>1, ArrayNames
  <2> DEFINE k == IndexOf(h)
  <2>4. h = HandleOf(k) /\ k \in 0 .. size - 1 /\ c[k] = NoObject
    BY <1>1, <2>1, <2>2, <2>3, HandleInside
  <2> HIDE DEF k
  <2> DEFINE d == Put(c, k, o)
  <2>5. ArrayHas(size', d, blocks', num_existing', user')
    BY <1>1, <2>1, <2>2, <2>4, PutIntoHole
  <2>6. Filled(c) \subseteq Filled(d) /\ \A j \in Filled(c) : d[j] = c[j]
    <3>1. Filled(d) = Filled(c) \cup {k}
      BY <2>1, <2>2, <2>4, PutAt DEF ArrayHas
    <3>2. k \notin Filled(c) /\ Filled(c) \subseteq DOMAIN c
      BY <2>4 DEF Filled
    <3> QED BY <3>1, <3>2 DEF Put
  <2> HIDE DEF d
  <2>7. i \in 0 .. size - 1 /\ cursor = HandleOf(i) /\ (backward => i \in Filled(c))
        /\ Met(c, i, backward, visited, kept)
    BY <2>1 DEF LoopsOn
  <2>8. Met(d, i, backward, visited, kept)
    BY <2>6, <2>7, ComesMet
  <2> QED BY <1>1, <2>5, <2>6, <2>7, <2>8, LoopsOnAfter
<1> QED BY <1>2, <1>3

\* Accessor::destruct() under a loop.
LEMMA DestructKeepsLoop ==
  ASSUME LInv, user = "sparse", NEW h \in Handles, Destruct(h)
  PROVE  LInv'
<1>1. /\ Constructed(h) /\ ~backward /\ visited' = visited \ {At(h)} /\ kept' = kept \ {At(h)}
      /\ user' = user /\ size' = size /\ cursor' = cursor /\ backward' = backward
  BY DEF Destruct
<1>2. CASE cursor = NoCursor
  BY <1>1, <1>2 DEF LInv
<1>3. CASE cursor # NoCursor
  <2>1. PICK c, i : ArrayHas(size, c, blocks, num_existing, user) /\ LoopsOn(c, i)
    BY <1>3 DEF LInv
  <2>2. h \in SlotsIn(blocks) /\ At(h) = InSlot(blocks, h) /\ user # "dense"
    BY ArrayNames
  <2> DEFINE k == IndexOf(h)
             d == Put(c, k, NoObject)
  <2>3. k \in Filled(c) /\ At(h) = c[k] /\ ArrayHas(size', d, blocks', num_existing', user')
    BY <1>1, <2>1, <2>2, DestructKeeps
  <2> HIDE DEF k
  <2>4. Filled(d) = Filled(c) \ {k} /\ \A j \in Filled(c) \ {k} : d[j] = c[j]
    <3>1. Filled(d) = Filled(c) \ {k}
      BY <2>1, <2>3, TakeAt DEF ArrayHas
    <3>2. Filled(c) \subseteq DOMAIN c
      BY DEF Filled
    <3> QED BY <3>1, <3>2 DEF Put
  <2> HIDE DEF d
  <2>5. i \in 0 .. size - 1 /\ cursor = HandleOf(i) /\ Met(c, i, backward, visited, kept)
    BY <2>1 DEF LoopsOn
  <2>6. Met(d, i, backward, visited \ {c[k]}, kept \ {c[k]})
    BY <2>3, <2>4, <2>5, GoesMet
  <2>7. Met(d, i, backward', visited', kept')
    BY <1>1, <2>3, <2>6
  <2>8. user' \in {"dense", "sparse"} /\ i \in 0 .. size' - 1 /\ cursor' = HandleOf(i)
    BY <1>1, <2>5
  <2>9. backward' => i \in Filled(d)
    BY <1>1
  <2> QED BY <2>3, <2>7, <2>8, <2>9, LoopsOnAfter
<1> QED BY <1>2, <1>3

\* The iterator goes to the element at k, of the same array.
LEMMA IteratorAt ==
  ASSUME user \in {"dense", "sparse"}, NEW c, ArrayHas(size, c, blocks, num_existing, user),
         NEW k \in Filled(c), MovedTo(HandleOf(k), FALSE),
         Met(c, k, backward', visited \cup {c[k]}, kept')
  PROVE  LInv'
<1>1. /\ cursor' = HandleOf(k) /\ visited' = visited \cup {At(HandleOf(k))}
      /\ user' = user /\ size' = size /\ blocks' = blocks /\ num_existing' = num_existing
  BY DEF MovedTo, array
<1>2. k \in 0 .. size - 1 /\ At(HandleOf(k)) = c[k]
  BY PositionIs
<1>3. Met(c, k, backward', visited', kept')
  BY <1>1, <1>2
<1>4. ArrayHas(size', c, blocks', num_existing', user')
  BY <1>1
<1> QED BY <1>1, <1>2, <1>3, <1>4, LoopsOnAfter

\* The loop forward.
LEMMA LoopBeginKeeps ==
  ASSUME user \in {"dense", "sparse"}, NEW c, ArrayHas(size, c, blocks, num_existing, user),
         LoopBegin
  PROVE  LInv'
<1> DEFINE S == Filled(c)
           k == FirstAt(size, S, 0)
<1>1. /\ size \in Nat /\ S \subseteq 0 .. size - 1 /\ Held = HeldOf(c) /\ 0 \in 0 .. size
  BY PositionIs
<1>2. Begin = HandleOf(k)
  BY <1>1, ForwardIs DEF Begin
<1>3. NoLoop /\ Begin # End /\ MovedTo(Begin, FALSE) /\ backward' = FALSE
  BY DEF LoopBegin
<1> HIDE DEF S
<1>4. /\ k = size \/ k \in S
      /\ \A j \in S : j >= 0 => j >= k
  <2>1. \A i \in 0 .. size : /\ FirstAt(size, S, i) = size \/ FirstAt(size, S, i) \in S
                             /\ \A j \in S : j >= i => j >= FirstAt(size, S, i)
    BY <1>1, FirstAtIs
  <2> QED BY <1>1, <2>1
<1> HIDE DEF k
<1>5. k \in S
  BY <1>2, <1>3, <1>4 DEF End
<1>6. \A j \in S : j = k \/ ~Behind(FALSE, k, j)
  BY <1>1, <1>4, <1>5 DEF Behind
<1>7. Met(c, k, FALSE, {c[k]}, HeldOf(c))
  BY <1>1, <1>5, <1>6, BeginsMet DEF S
<1>8. visited \cup {c[k]} = {c[k]} /\ kept' = HeldOf(c)
  BY <1>1, <1>3 DEF NoLoop, MovedTo
<1>9. Met(c, k, backward', visited \cup {c[k]}, kept')
  BY <1>3, <1>7, <1>8
<1> QED BY <1>2, <1>3, <1>5, <1>9, IteratorAt DEF S

\* operator++ of the loop's iterator.
LEMMA LoopStepKeeps ==
  ASSUME LInv, LoopStep
  PROVE  LInv'
<1>1. cursor # NoCursor /\ ~backward /\ backward' = backward
  BY DEF LoopStep
<1>2. user \in {"dense", "sparse"}
  BY <1>1 DEF LInv
<1>3. PICK c, i : ArrayHas(size, c, blocks, num_existing, user) /\ LoopsOn(c, i)
  BY <1>1 DEF LInv
<1> DEFINE S == Filled(c)
           m == i + 1
           k == FirstAt(size, S, m)
<1>4. /\ size \in Nat /\ S \subseteq 0 .. size - 1
      /\ \A j \in 0 .. size - 1 : NextHandle(HandleOf(j)) = HandleOf(j + 1)
  BY <1>3, PositionIs
<1>5. /\ i \in 0 .. size - 1 /\ cursor = HandleOf(i) /\ Met(c, i, FALSE, visited, kept)
  <2>1. i \in 0 .. size - 1 /\ cursor = HandleOf(i) /\ Met(c, i, backward, visited, kept)
    BY <1>3 DEF LoopsOn
  <2> QED BY <1>1, <2>1 DEF Met, Behind
<1>6. m \in 0 .. size /\ i \in Nat
  BY <1>4, <1>5
<1>7. SkipForward[NextHandle(cursor)] = HandleOf(k)
  <2>1. NextHandle(cursor) = HandleOf(m)
    BY <1>4, <1>5
  <2> HIDE DEF m
  <2> QED BY <1>3, <1>6, <2>1, ForwardIs
<1>8. MovedTo(HandleOf(k), HandleOf(k) = End)
  BY <1>7 DEF LoopStep
<1>9. k \in m .. size /\ (k = size \/ k \in S) /\ \A j \in S : j >= m => j >= k
  <2> HIDE DEF S, m
  <2> QED BY <1>4, <1>6, FirstAtIs
<1> HIDE DEF k, S
<1>10. CASE HandleOf(k) = End
  BY <1>8, <1>10 DEF MovedTo, LInv
<1>11. CASE HandleOf(k) # End
  <2>1. k \in S
    BY <1>9, <1>11 DEF End
  <2>2. ~Behind(FALSE, i, k) /\ \A j \in S : Behind(FALSE, i, j) \/ j = k \/ ~Behind(FALSE, k, j)
    BY <1>4, <1>6, <1>9, <2>1 DEF Behind
  <2>3. Met(c, k, FALSE, visited \cup {c[k]}, kept)
    BY <1>4, <1>5, <1>6, <2>1, <2>2, MovesMet DEF S
  <2>4. MovedTo(HandleOf(k), FALSE) /\ kept' = kept
    BY <1>1, <1>8, <1>11 DEF MovedTo, NoLoop
  <2>5. Met(c, k, backward', visited \cup {c[k]}, kept')
    <3>1. backward' = backward /\ (backward <=> FALSE)
      BY <1>1
    <3> QED BY <2>3, <2>4, <3>1 DEF Met, Behind
  <2> QED BY <1>2, <1>3, <2>1, <2>4, <2>5, IteratorAt DEF S
<1> QED BY <1>10, <1>11

\* The loop backward.
LEMMA BackwardBeginKeeps ==
  ASSUME user \in {"dense", "sparse"}, NEW c, ArrayHas(size, c, blocks, num_existing, user),
         BackwardBegin
  PROVE  LInv'
<1> DEFINE S == Filled(c)
           first == FirstAt(size, S, 0)
           m == size - 1
           k == LastAt(S, m)
<1>1. /\ size \in Nat /\ S \subseteq 0 .. size - 1 /\ Held = HeldOf(c) /\ 0 \in 0 .. size
      /\ \A j \in 1 .. size : PrevHandle(HandleOf(j)) = HandleOf(j - 1)
  BY PositionIs
<1>2. /\ NoLoop /\ size > 0 /\ Begin # End /\ MovedTo(SkipBack[PrevHandle(End)], FALSE)
      /\ backward' = TRUE
  BY DEF BackwardBegin
<1>3. S # {}
  <2> SUFFICES ASSUME S = {} PROVE FALSE
    OBVIOUS
  <2>1. first = size \/ first \in S
    <3> HIDE DEF S
    <3>1. \A i \in 0 .. size : FirstAt(size, S, i) = size \/ FirstAt(size, S, i) \in S
      BY <1>1, FirstAtIs
    <3> QED BY <1>1, <3>1
  <2>2. Begin = HandleOf(first)
    BY <1>1, ForwardIs DEF Begin
  <2> QED BY <1>2, <2>1, <2>2 DEF End
<1>4. /\ first \in S
      /\ \A i \in first .. size - 1 : SkipBack[HandleOf(i)] = HandleOf(LastAt(S, i))
  BY <1>3, BackIs
<1> HIDE DEF S, first
<1>5. m \in first .. size - 1 /\ m \in Nat /\ PrevHandle(End) = HandleOf(m)
  BY <1>1, <1>2, <1>4 DEF End
<1> HIDE DEF m
<1>6. MovedTo(HandleOf(k), FALSE)
  BY <1>2, <1>4, <1>5
<1>7. k \in S /\ \A j \in S : j <= m => j <= k
  BY <1>1, <1>4, <1>5, LastAtIs
<1> HIDE DEF k
<1>8. \A j \in S : j = k \/ ~Behind(TRUE, k, j)
  <2>1. \A j \in S : j \in Nat /\ j <= m
    BY <1>1 DEF m
  <2> QED BY <1>7, <2>1 DEF Behind
<1>9. Met(c, k, TRUE, {c[k]}, HeldOf(c))
  BY <1>1, <1>7, <1>8, BeginsMet DEF S
<1>10. visited \cup {c[k]} = {c[k]} /\ kept' = HeldOf(c)
  BY <1>1, <1>2, <1>6 DEF NoLoop, MovedTo
<1>11. Met(c, k, backward', visited \cup {c[k]}, kept')
  BY <1>2, <1>9, <1>10
<1> QED BY <1>6, <1>7, <1>11, IteratorAt DEF S

\* operator-- of the loop's iterator, until it is at begin().
LEMMA BackwardStepKeeps ==
  ASSUME LInv, BackwardStep
  PROVE  LInv'
<1>1. cursor # NoCursor /\ backward
  BY DEF BackwardStep
<1>2. user \in {"dense", "sparse"}
  BY <1>1 DEF LInv
<1>3. PICK c, i : ArrayHas(size, c, blocks, num_existing, user) /\ LoopsOn(c, i)
  BY <1>1 DEF LInv
<1>4. CASE cursor = Begin
  BY <1>4 DEF BackwardStep, MovedTo, LInv
<1>5. CASE cursor # Begin
  <2> DEFINE S == Filled(c)
             first == FirstAt(size, S, 0)
             m == i - 1
             k == LastAt(S, m)
  <2>1. /\ size \in Nat /\ S \subseteq 0 .. size - 1
        /\ \A j \in 1 .. size : PrevHandle(HandleOf(j)) = HandleOf(j - 1)
    BY <1>3, PositionIs
  <2>2. /\ i \in 0 .. size - 1 /\ cursor = HandleOf(i) /\ i \in S
        /\ Met(c, i, backward, visited, kept)
    BY <1>1, <1>3 DEF LoopsOn
  <2>3. /\ first \in S /\ Begin = HandleOf(first)
        /\ \A j \in first .. size - 1 : SkipBack[HandleOf(j)] = HandleOf(LastAt(S, j))
    BY <1>3, <2>2, BackIs
  <2>4. \A j \in S : j >= first
    <3> HIDE DEF S
    <3>1. \A n \in 0 .. size : \A j \in S : j >= n => j >= FirstAt(size, S, n)
      BY <2>1, FirstAtIs
    <3>2. 0 \in 0 .. size /\ \A j \in S : j >= 0
      BY <2>1
    <3> QED BY <3>1, <3>2
  <2> HIDE DEF S, first
  <2>5. m \in first .. size - 1 /\ m \in Nat /\ PrevHandle(cursor) = HandleOf(m)
    <3>1. i # first /\ i \in Nat /\ first \in Nat /\ i >= first
      BY <1>5, <2>1, <2>2, <2>3, <2>4
    <3> QED BY <2>1, <2>2, <3>1
  <2>6. MovedTo(HandleOf(k), FALSE) /\ backward' = backward
    <3>1. SkipBack[PrevHandle(cursor)] = HandleOf(k)
      <4> HIDE DEF m
      <4> QED BY <2>3, <2>5
    <3> QED BY <1>5, <3>1 DEF BackwardStep
  <2>7. k \in S /\ k <= m /\ \A j \in S : j <= m => j <= k
    <3> HIDE DEF m
    <3> QED BY <2>1, <2>3, <2>5, LastAtIs
  <2> HIDE DEF k
  <2>8. Met(c, i, TRUE, visited, kept)
    BY <1>1, <2>2 DEF Met, Behind
  <2>9. ~Behind(TRUE, i, k) /\ \A j \in S : Behind(TRUE, i, j) \/ j = k \/ ~Behind(TRUE, k, j)
    <3>1. k \in Nat /\ i \in Nat /\ \A j \in S : j \in Nat
      BY <2>1, <2>2, <2>7
    <3> QED BY <2>7, <3>1 DEF Behind
  <2>10. Met(c, k, TRUE, visited \cup {c[k]}, kept)
    <3>1. i \in Nat
      BY <2>2
    <3> QED BY <2>1, <2>7, <2>8, <2>9, <3>1, MovesMet DEF S
  <2>11. kept' = kept
    BY <1>1, <2>6 DEF MovedTo, NoLoop
  <2>12. Met(c, k, backward', visited \cup {c[k]}, kept')
    <3>1. backward' = backward /\ (backward <=> TRUE)
      BY <1>1, <2>6
    <3> QED BY <2>10, <2>11, <3>1 DEF Met, Behind
  <2> QED BY <1>2, <1>3, <2>6, <2>7, <2>12, IteratorAt DEF S
<1> QED BY <1>4, <1>5

\* Every step keeps the loop's invariant.
LEMMA LoopInvariantStep ==
  ASSUME BInv, LInv, [BlocksNext]_allVars
  PROVE  LInv'
<1>1. CASE cursor = NoCursor /\ cursor' = NoCursor
  BY <1>1 DEF LInv
<1>2. CASE UNCHANGED allVars
  BY <1>2 DEF allVars, vars, array, loop, LInv, LoopsOn
<1>3. CASE Next
  <2>1. user \in {"dense", "sparse"}
    BY <1>3 DEF Next
  <2>2. PICK c : ArrayHas(size, c, blocks, num_existing, user)
    BY <2>1 DEF BInv
  <2>3. ASSUME PopBack \/ Clear \/ \E n \in 0 .. MaxSize : Resize(n) PROVE LInv'
    <3>1. cursor = NoCursor /\ cursor' = cursor
      BY <2>3 DEF PopBack, Clear, Resize, NoLoop, loop
    <3> QED BY <3>1 DEF LInv
  <2>4. ASSUME NEW o \in Objects, EmplaceBack(o) PROVE LInv'
    BY <2>1, <2>4, EmplaceKeepsLoop
  <2>5. ASSUME user = "sparse", NEW h \in Handles, Destruct(h) PROVE LInv'
    BY <2>5, DestructKeepsLoop
  <2>6. ASSUME NEW h \in Handles, NEW o \in Objects, Construct(h, o) PROVE LInv'
    BY <2>1, <2>6, ConstructKeepsLoop
  <2>7. CASE LoopBegin
    BY <2>1, <2>2, <2>7, LoopBeginKeeps
  <2>8. CASE LoopStep
    BY <2>8, LoopStepKeeps
  <2>9. CASE BackwardBegin
    BY <2>1, <2>2, <2>9, BackwardBeginKeeps
  <2>10. CASE BackwardStep
    BY <2>10, BackwardStepKeeps
  <2> QED BY <1>3, <2>3, <2>4, <2>5, <2>6, <2>7, <2>8, <2>9, <2>10 DEF Next
<1>4. CASE user \in Clients /\ (RandomNext \/ CrudeNext \/ StdNext)
  <2>1. cursor = NoCursor
    BY <1>4 DEF LInv, Clients
  <2>2. cursor' = cursor
    BY <1>4 DEF RandomNext, RandomConstruct, SomeDraw, Draw, RandomDestruct, Destruct, CrudeNext,
                CrudeConstruct, CrudeDestruct, StdNext, StdConstruct, StdDestruct, vars, loop
  <2> QED BY <2>1, <2>2 DEF LInv
<1> QED BY <1>2, <1>3, <1>4 DEF BlocksNext, Clients

\* LInv says of the loop what LoopMeetsEachOnce does.
LEMMA LoopInvariantMeets == LInv => LoopMeetsEachOnce
<1> SUFFICES ASSUME LInv, cursor # NoCursor PROVE LoopMeetsEachOnce
  BY DEF LoopMeetsEachOnce
<1> DEFINE Far(g) == IF backward THEN IndexOf(g) < IndexOf(cursor) ELSE IndexOf(g) > IndexOf(cursor)
           ahead == {At(h) : h \in {g \in Handles : Far(g)}}
<1>1. PICK c, i : ArrayHas(size, c, blocks, num_existing, user) /\ LoopsOn(c, i)
  BY DEF LInv
<1>2. /\ size \in Nat /\ Filled(c) \subseteq 0 .. size - 1 /\ OneEach(c)
      /\ \A j \in 0 .. size : IndexOf(HandleOf(j)) = j
      /\ \A j \in 0 .. size - 1 : At(HandleOf(j)) = c[j]
  BY <1>1, PositionIs
<1>3. /\ i \in 0 .. size - 1 /\ cursor = HandleOf(i) /\ i \in Nat
      /\ Met(c, i, backward, visited, kept)
  BY <1>1 DEF LoopsOn
<1>4. IndexOf(cursor) = i
  BY <1>2, <1>3
<1>5. \A g \in Handles : /\ IndexOf(g) \in Nat
                         /\ At(g) # NoObject => IndexOf(g) \in Filled(c) /\ At(g) = c[IndexOf(g)]
  <2> TAKE g \in Handles
  <2>1. g \in SlotsIn(blocks) /\ At(g) = InSlot(blocks, g)
    BY ArrayNames
  <2> QED BY <1>1, <2>1, HandleInside
<1>6. \A j \in Filled(c) :
        HandleOf(j) \in Handles /\ c[j] # NoObject /\ j \in Nat /\ j \in 0 .. size
  <2> TAKE j \in Filled(c)
  <2>1. j \in 0 .. size - 1 /\ j \in 0 .. size /\ c[j] # NoObject
    BY <1>2 DEF Filled
  <2>2. IsContent(size, c) /\ IsBlocks(blocks, size, c)
    BY <1>1 DEF ArrayHas
  <2>3. HandleOf(j) \in SlotsIn(blocks)
    BY <2>1, <2>2, ArraySlots
  <2> QED BY <2>1, <2>3, ArrayNames
<1>7. ASSUME NEW o \in kept \ visited PROVE o \in ahead
  <2>1. PICK j \in Filled(c) : c[j] = o /\ ~Behind(backward, i, j)
    BY <1>3 DEF Met
  <2>2. HandleOf(j) \in Handles /\ IndexOf(HandleOf(j)) = j /\ At(HandleOf(j)) = o
    BY <1>2, <1>6, <2>1
  <2>3. Far(HandleOf(j))
    BY <1>3, <1>4, <1>6, <2>1, <2>2 DEF Behind
  <2> QED BY <2>2, <2>3
<1>8. ASSUME NEW o \in ahead, o \in visited PROVE FALSE
  <2>1. PICK g \in Handles : Far(g) /\ At(g) = o
    OBVIOUS
  <2>2. PICK j \in Filled(c) : c[j] = o /\ Behind(backward, i, j)
    BY <1>3, <1>8 DEF Met
  <2>3. IndexOf(g) \in Filled(c) /\ c[IndexOf(g)] = o
    BY <1>5, <1>6, <2>1, <2>2
  <2>4. IndexOf(g) = j
    BY <1>2, <2>2, <2>3 DEF OneEach
  <2> QED BY <1>3, <1>4, <1>6, <2>1, <2>2, <2>4 DEF Behind
<1> QED BY <1>7, <1>8 DEF LoopMeetsEachOnce

\* A loop over the array, in either direction, meets every element that it has
\* to, and none twice, whatever its body adds or destructs.
THEOREM LoopsComplete == BlocksSpec => []LoopMeetsEachOnce
<1>1. BlocksInit => LInv
  BY DEF BlocksInit, Init, AllocatorInit, LInv
<1>2. BInv /\ LInv /\ [BlocksNext]_allVars => LInv'
  BY LoopInvariantStep
<1> QED BY <1>1, <1>2, Invariance, LoopInvariantMeets, PTL DEF BlocksSpec
==========================================================================
