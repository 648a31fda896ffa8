-------------------------- MODULE ChunkedArray --------------------------
(***************************************************************************)
(* Chunked_Array, dense or SPARSE with COUNT: blocks of 1, 2, 4, ... slots *)
(* that never move, handles <<block, offset>> counted through them, and a  *)
(* loop in either direction whose body changes the array.                  *)
(*                                                                         *)
(* The client pops and begins a loop only when there is something to pop   *)
(* or to begin at, as the DCHECKs demand.                                  *)
(***************************************************************************)
EXTENDS Integers, FiniteSets, SequencesExt

CONSTANTS
  Objects,   \* the values the client keeps in the array
  NoObject,  \* the content of a slot that holds none
  MaxSize,   \* bound: the array does not outgrow it
  MaxSparse  \* bound: the elements of an array that is not dense

ASSUME ObjectsAssumption == IsFiniteSet(Objects) /\ NoObject \notin Objects
\* _size is an int.
ASSUME BoundsAssumption == MaxSize \in Nat /\ MaxSize < 2147483647 /\ MaxSparse \in Nat

VARIABLES
  user,          \* what the blocks are used for
  blocks,        \* _blocks: the slots of each block
  size,          \* _size, the domain
  num_existing,  \* COUNT
  cursor,        \* the loop's iterator, or NoCursor
  backward,      \* the direction of the loop
  visited,       \* history: the objects the loop has met
  kept           \* history: those it has to meet that are still there

loop == <<cursor, backward, visited, kept>>
array == <<blocks, size, num_existing>>
vars == <<user, array, loop>>

NoCursor == <<>>
NoLoop == cursor = NoCursor /\ backward = FALSE /\ visited = {} /\ kept = {}

----------------------------------------------------------------------------
(* Handles *)

\* bit_scan_reverse()
BitScanReverse(x) == CHOOSE a \in 0 .. 31 : 2 ^ a <= x /\ x < 2 ^ (a + 1)

\* Handle(unsigned), through Handle_Small: the highest bit of index + 1 names
\* the block, the others the offset.
HandleOf(index) ==
  LET a == BitScanReverse(index + 1) IN <<a, index + 1 - 2 ^ a>>

\* Handle_Small(Handle), and back to an index.
IndexOf(h) == 2 ^ h[1] + h[2] - 1

\* operator++
NextHandle(h) == IF h[2] + 1 = 2 ^ h[1] THEN <<h[1] + 1, 0>> ELSE <<h[1], h[2] + 1>>

\* Mutant: it goes to the first slot of the block before.
PrevHandleFirst(h) == IF h[2] = 0 THEN <<h[1] - 1, 0>> ELSE <<h[1], h[2] - 1>>

\* operator--
PrevHandle(h) == IF h[2] = 0 THEN <<h[1] - 1, 2 ^ (h[1] - 1) - 1>> ELSE <<h[1], h[2] - 1>>

At(h) == blocks[h[1] + 1][h[2]]
Handles == UNION {{k - 1} \X DOMAIN blocks[k] : k \in DOMAIN blocks}
Constructed(h) == At(h) # NoObject
Held == {At(h) : h \in Handles} \ {NoObject}
Free == IF user # "dense" /\ Cardinality(Held) = MaxSparse THEN {} ELSE Objects \ Held

----------------------------------------------------------------------------
(* Operations of the array *)

Block(n) == [b \in 0 .. n - 1 |-> NoObject]
Store(bs, h, o) == [bs EXCEPT ![h[1] + 1][h[2]] = o]
Domain(block) == Cardinality(DOMAIN block)

\* emplace_back(): at a power of 2 a block of that many slots is added.
EmplacedBack(o) ==
  LET n == size + 1
      bs == IF n = 2 ^ BitScanReverse(n) THEN Append(blocks, Block(n)) ELSE blocks
  IN  /\ n <= MaxSize
      /\ blocks' = Store(bs, <<Len(bs) - 1, n - Domain(Last(bs))>>, o)
      /\ size' = n
      /\ num_existing' = num_existing + 1

EmplaceBack(o) ==
  /\ o \in Free
  /\ EmplacedBack(o)
  /\ kept' = IF cursor # NoCursor /\ ~backward THEN kept \cup {o} ELSE kept
  /\ UNCHANGED <<user, cursor, backward, visited>>

\* Mutant: the holes of the block before stay in the size.
SkipHoleKeepingSize(s) ==
  IF Last(s.blocks)[s.idx] # NoObject THEN s
  ELSE IF s.idx = 0
  THEN [s EXCEPT !.blocks = Front(@), !.idx = s.size \div 2 - 1]
  ELSE [s EXCEPT !.idx = @ - 1, !.size = @ - 1]

\* A turn of pop_back()'s search for the last element.
SkipHole(s) ==
  IF Last(s.blocks)[s.idx] # NoObject THEN s
  ELSE IF s.idx = 0
  THEN [blocks |-> Front(s.blocks), idx |-> s.size \div 2 - 1, size |-> s.size - 1]
  ELSE [s EXCEPT !.idx = @ - 1, !.size = @ - 1]

\* The search after k turns.
AfterHoles[k \in 0 .. size] ==
  IF k = 0 THEN [blocks |-> blocks, idx |-> size - Domain(Last(blocks)), size |-> size]
  ELSE SkipHole(AfterHoles[k - 1])

\* pop_back(): an empty last block goes.
PopBack ==
  LET s == AfterHoles[size]
  IN  /\ NoLoop
      /\ blocks' = IF s.idx = 0 THEN Front(s.blocks)
                     ELSE Store(s.blocks, <<Len(s.blocks) - 1, s.idx>>, NoObject)
      /\ size' = s.size - 1
      /\ num_existing' = num_existing - 1
      /\ UNCHANGED <<user, loop>>

\* resize(0), clear()
Clear ==
  /\ NoLoop
  /\ blocks' = <<>> /\ size' = 0 /\ num_existing' = 0
  /\ UNCHANGED <<user, loop>>

\* The first n blocks; those that are missing have twice the slots of the last.
WithBlocks(n) ==
  [k \in 1 .. n |-> IF k <= Len(blocks) THEN blocks[k] ELSE Block(2 ^ (k - 1))]

\* resize(n): the slots from the old size on are constructed.
Resize(n) ==
  /\ NoLoop /\ n > 0
  /\ LET bs == WithBlocks(BitScanReverse(n) + 1)
         added == size .. n - 1
     IN  \E new \in [added -> Free] :
           /\ \A i, j \in added : new[i] = new[j] => i = j
           /\ blocks' = [k \in DOMAIN bs |-> [b \in DOMAIN bs[k] |->
                           LET i == IndexOf(<<k - 1, b>>)
                           IN  IF i \in added THEN new[i]
                               ELSE IF i >= n THEN NoObject ELSE bs[k][b]]]
         /\ num_existing' = num_existing + Cardinality(added)
                            - Cardinality({h \in Handles : IndexOf(h) >= n /\ Constructed(h)})
  /\ size' = n
  /\ UNCHANGED <<user, loop>>

\* Accessor::construct() of a sparse array's slot, not beyond its size.
Construct(h, o) ==
  /\ IndexOf(h) < size /\ ~Constructed(h) /\ o \in Free
  /\ blocks' = Store(blocks, h, o)
  /\ num_existing' = num_existing + 1
  /\ UNCHANGED <<user, size, loop>>

\* Accessor::destruct(); a loop backward would run over the beginning.
Destruct(h) ==
  /\ Constructed(h) /\ ~backward
  /\ blocks' = Store(blocks, h, NoObject)
  /\ num_existing' = num_existing - 1
  /\ visited' = visited \ {At(h)}
  /\ kept' = kept \ {At(h)}
  /\ UNCHANGED <<user, size, cursor, backward>>

----------------------------------------------------------------------------
(* The loops *)

End == HandleOf(size)

\* The rest of operator++ of an iterator that has come to h: on to an element,
\* or to the end.
SkipForward[h \in {HandleOf(i) : i \in 0 .. size}] ==
  IF h = End \/ Constructed(h) THEN h ELSE SkipForward[NextHandle(h)]

\* begin() reads the flags of the first slot.
Begin == SkipForward[HandleOf(0)]

\* That of operator--, which nothing stops before the first element.
SkipBack[h \in {HandleOf(i) : i \in IndexOf(Begin) .. size - 1}] ==
  IF Constructed(h) THEN h ELSE SkipBack[PrevHandle(h)]

\* The iterator is at h; it is dropped after the last element.
MovedTo(h, last) ==
  /\ cursor' = IF last THEN NoCursor ELSE h
  /\ visited' = IF last THEN {} ELSE visited \cup {At(h)}
  /\ kept' = IF last THEN {} ELSE IF NoLoop THEN Held ELSE kept
  /\ UNCHANGED <<user, array>>

LoopBegin ==
  /\ NoLoop /\ size > 0 /\ Begin # End
  /\ MovedTo(Begin, FALSE) /\ backward' = FALSE

LoopStep ==
  LET h == SkipForward[NextHandle(cursor)]
  IN  /\ cursor # NoCursor /\ ~backward
      /\ MovedTo(h, h = End) /\ UNCHANGED backward

\* A loop from end() back to begin().
BackwardBegin ==
  /\ NoLoop /\ size > 0 /\ Begin # End
  /\ MovedTo(SkipBack[PrevHandle(End)], FALSE) /\ backward' = TRUE

BackwardStep ==
  LET h == SkipBack[PrevHandle(cursor)]
  IN  /\ cursor # NoCursor /\ backward
      /\ IF cursor = Begin THEN MovedTo(cursor, TRUE) /\ backward' = FALSE
                           ELSE MovedTo(h, FALSE) /\ UNCHANGED backward

----------------------------------------------------------------------------
Init ==
  /\ user \in {"dense", "sparse"}
  /\ blocks = <<>> /\ size = 0 /\ num_existing = 0
  /\ cursor = NoCursor /\ backward = FALSE /\ visited = {} /\ kept = {}

Next ==
  /\ user \in {"dense", "sparse"}
  /\ \/ \E o \in Objects : EmplaceBack(o)
     \/ Held # {} /\ PopBack
     \/ Clear
     \/ \E n \in 0 .. MaxSize : Resize(n)
     \/ user = "sparse" /\ \E h \in Handles : Destruct(h) \/ \E o \in Objects : Construct(h, o)
     \/ LoopBegin \/ LoopStep \/ BackwardBegin \/ BackwardStep

Spec == Init /\ [][Next]_vars

----------------------------------------------------------------------------
(* Properties *)

\* Block k has 2^k slots, there are just as many as the size needs (capacity()
\* asserts it), a dense array's elements fill its first slots, none is beyond
\* the size, and the count is that of the elements that are there, although
\* blocks come and go with them.  (Crude_Allocator has blocks of its own, and
\* no count; an adapted std::allocator has no blocks, but counts.)
BlocksMatchSize ==
  /\ user # "crude" => num_existing = Cardinality({h \in Handles : Constructed(h)})
  /\ user \notin {"crude", "std"} =>
       /\ \A k \in DOMAIN blocks : DOMAIN blocks[k] = 0 .. 2 ^ (k - 1) - 1
       /\ Len(blocks) = IF size = 0 THEN 0 ELSE BitScanReverse(size) + 1
       /\ \A h \in Handles : Constructed(h) => IndexOf(h) < size
       /\ user = "dense" => num_existing = size

\* A loop forward meets every element that is there when it begins or that is
\* added to the end in the meantime; one backward, those that were there.  None
\* meets an element twice.
LoopMeetsEachOnce ==
  cursor # NoCursor =>
    LET ahead == {At(h) : h \in {g \in Handles : IF backward THEN IndexOf(g) < IndexOf(cursor)
                                                         ELSE IndexOf(g) > IndexOf(cursor)}}
    IN  kept \ visited \subseteq ahead /\ ahead \cap visited = {}
==========================================================================
