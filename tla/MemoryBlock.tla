--------------------------- MODULE MemoryBlock ---------------------------
(***************************************************************************)
(* Memory_Block: nodes that hold a value or not, in an inplace buffer or   *)
(* in a heap block, with flags that say which are constructed, as bits     *)
(* beside the nodes or inside of them, and with ::COUNT.  Blocks are       *)
(* resized, compacted, copied and moved.                                   *)
(*                                                                         *)
(* Values have a destructor and a move constructor.  A node that is        *)
(* destroyed with a value in it, constructed over one, or destructed       *)
(* without one, fails a DCHECK, which ends the program (aborted).          *)
(***************************************************************************)
EXTENDS Integers, FiniteSets, SequencesExt

CONSTANTS
  Objects,      \* the values of the client
  Raw,          \* the content of a node that holds no value
  StackBuffer,  \* INPLACE_BUFFER
  Names,        \* the client's blocks
  MaxSize,      \* bound: the largest size the client asks for
  MaxDrift      \* bound: the most elements that blocks lose uncounted

ASSUME ObjectsAssumption == IsFiniteSet(Objects) /\ Raw \notin Objects
ASSUME SizesAssumption == StackBuffer \in Nat /\ MaxSize \in Nat /\ MaxDrift \in Nat

VARIABLES
  user,     \* who owns the storage: "blocks", or a container over it
  buffer,   \* the size of the inplace buffer, 0 without INPLACE_BUFFER
  flags,    \* CONSTRUCTED_FLAGS_BITSET or CONSTRUCTED_FLAGS_INPLACE
  blocks,   \* the blocks by name: nodes, flags, num_existing, and what left it
            \* uncounted
  aborted   \* a DCHECK has failed

block_vars == <<user, buffer, flags, blocks, aborted>>

\* Memory_Block(size)
NewBlock(n) ==
  [slot |-> [i \in 0 .. n - 1 |-> Raw], exists |-> [i \in 0 .. n - 1 |-> FALSE],
   num |-> 0, lost |-> 0]

EmptyBlock == NewBlock(0)

----------------------------------------------------------------------------
(* Resizing, for blocks and the containers over them: s are the nodes, and  *)
(* K the indices whose exists_fun holds.                                    *)

\* The nodes stay in the inplace buffer.
SameLocation(s, n) == Cardinality(DOMAIN s) <= buffer /\ n <= buffer

\* _destruct_block(_data + n, _size - n) in the same location: the nodes from n
\* on go, but it asks for, and destructs, the elements from 0 on.
Victims(s, K, n) ==
  IF SameLocation(s, n) THEN K \cap (0 .. Cardinality(DOMAIN s) - n - 1) ELSE {}

\* A node goes that still holds an element.
ResizeFails(s, K, n) ==
  SameLocation(s, n) /\ \E i \in DOMAIN s : i >= n /\ s[i] # Raw /\ i \notin Victims(s, K, n)

\* Mutant: an element of the last slot is left behind.
ResizedLosingLast(s, K, n) ==
  [i \in 0 .. n - 1 |->
     IF i + 1 \in DOMAIN s /\ i \notin Victims(s, K, n) THEN s[i] ELSE Raw]

\* _resize(): the elements move to the new location, or stay where they are.
Resized(s, K, n) ==
  [i \in 0 .. n - 1 |-> IF i \in DOMAIN s /\ i \notin Victims(s, K, n) THEN s[i] ELSE Raw]

\* The flags are a std::vector<bool>, resized with the block, or move in the
\* nodes.
FlagsResized(f, n) == [i \in 0 .. n - 1 |-> i \in DOMAIN f /\ f[i]]

\* ++ of an iterator: the next index of K, or the end n.
NextOf(K, i, n) ==
  CHOOSE j \in i + 1 .. n : (j = n \/ j \in K) /\ \A k \in i + 1 .. j - 1 : k \notin K

----------------------------------------------------------------------------

Existing(b) == {i \in DOMAIN blocks[b].exists : blocks[b].exists[i]}

\* The flags of a block say which of its nodes hold a value.
BlockKnown(b) == Existing(b) = {i \in DOMAIN blocks[b].slot : blocks[b].slot[i] # Raw}

BlocksKnown == \A b \in Names : BlockKnown(b)

\* The model does not follow blocks that have lost track of their elements.
BlocksRunning == user = "blocks" /\ ~aborted /\ BlocksKnown

Abort ==
  /\ aborted' = TRUE
  /\ UNCHANGED <<user, buffer, flags, blocks>>

Becomes(b, block) ==
  /\ blocks' = [blocks EXCEPT ![b] = block]
  /\ UNCHANGED <<user, buffer, flags, aborted>>

----------------------------------------------------------------------------
(* Operations *)

\* Accessor::construct()
BlockConstruct(b, i, o) ==
  /\ BlocksRunning
  /\ i \notin Existing(b)
  /\ Becomes(b, [blocks[b] EXCEPT !.slot[i] = o, !.exists[i] = TRUE, !.num = @ + 1])

\* Mutant: the element is not counted out.
BlockDestructUncounted(b, i) ==
  /\ BlocksRunning
  /\ i \in Existing(b)
  /\ Becomes(b, [blocks[b] EXCEPT !.slot[i] = Raw, !.exists[i] = FALSE])

\* Accessor::destruct()
BlockDestruct(b, i) ==
  /\ BlocksRunning
  /\ i \in Existing(b)
  /\ Becomes(b, [blocks[b] EXCEPT !.slot[i] = Raw, !.exists[i] = FALSE, !.num = @ - 1])

\* construct_all(), of a block without elements.
ConstructAll(b, o) ==
  /\ BlocksRunning
  /\ Existing(b) = {}
  /\ LET Domain == DOMAIN blocks[b].slot
     IN  Becomes(b, [slot |-> [i \in Domain |-> o], exists |-> [i \in Domain |-> TRUE],
                     num |-> blocks[b].num + Cardinality(Domain), lost |-> blocks[b].lost])

\* resize(): elements that are cut off are not counted out.
BlockResized(block, K, n) ==
  [slot |-> Resized(block.slot, K, n), exists |-> FlagsResized(block.exists, n),
   num |-> block.num, lost |-> block.lost + Cardinality({i \in K : i >= n})]

BlockResize(b, n) ==
  /\ BlocksRunning
  /\ IF ResizeFails(blocks[b].slot, Existing(b), n) THEN Abort
     ELSE LET resized == BlockResized(blocks[b], Existing(b), n)
          IN  resized.lost <= MaxDrift /\ Becomes(b, resized)

\* The elements of b in their order, the k-th at from[k].
Orders(b) ==
  {from \in [0 .. Cardinality(Existing(b)) - 1 -> Existing(b)] :
     \A j, k \in DOMAIN from : j < k => from[j] < from[k]}

\* The elements move down in their order, each over nodes that hold none.
Packed(block, from) ==
  [block EXCEPT !.slot = [i \in DOMAIN @ |-> IF i \in DOMAIN from THEN @[from[i]] ELSE Raw],
                !.exists = [i \in DOMAIN @ |-> i \in DOMAIN from]]

\* compact(): the block is resized to the number of its elements.
BlockCompact(b) ==
  /\ BlocksRunning
  /\ \E from \in Orders(b) :
       LET n == Cardinality(DOMAIN from)
       IN  Becomes(b, BlockResized(Packed(blocks[b], from), DOMAIN from, n))

\* The flags of a copy: bits are copied, flags in the nodes are not.
FlagsCopied(f) == IF flags = "bitset" THEN f ELSE [i \in DOMAIN f |-> FALSE]

\* Copy construction or assignment.
BlockCopy(b, to) ==
  /\ BlocksRunning
  /\ b # to
  /\ Becomes(to, [blocks[b] EXCEPT !.exists = FlagsCopied(@)])

\* Mutant: the nodes of the inplace buffer stay behind.
BlockMoveEmpty(b, to) ==
  /\ BlocksRunning
  /\ b # to
  /\ blocks' = [blocks EXCEPT
       ![to] = IF SameLocation(@.slot, 0) THEN [blocks[b] EXCEPT !.slot = [i \in DOMAIN @ |-> Raw]]
               ELSE blocks[b],
       ![b] = [EmptyBlock EXCEPT !.num = blocks[b].num, !.lost = blocks[b].num]]
  /\ UNCHANGED <<user, buffer, flags, aborted>>

\* Move construction or assignment, bytewise from an inplace buffer.  The block
\* moved from is empty, but goes on counting.
BlockMove(b, to) ==
  /\ BlocksRunning
  /\ b # to
  /\ blocks[b].num <= MaxDrift
  /\ blocks' = [blocks EXCEPT
       ![to] = blocks[b],
       ![b] = [EmptyBlock EXCEPT !.num = blocks[b].num, !.lost = blocks[b].num]]
  /\ UNCHANGED <<user, buffer, flags, aborted>>

\* ~Memory_Block() destructs the elements that the flags name and destroys the
\* nodes; another block of size n takes the name.
BlockRenew(b, n) ==
  /\ BlocksRunning
  /\ Becomes(b, NewBlock(n))

NotEmpty(b) == blocks[b].num > 0

\* operator()(FIRST) and operator()(LAST) of a block that is not_empty() search
\* it for an element, and beyond its bounds if there is none.
EndSearchFails(b) ==
  /\ BlocksRunning
  /\ NotEmpty(b) /\ Existing(b) = {}
  /\ Abort

\* Memory_Block(), Memory_Block(size), of any of the four kinds.
BlockInit ==
  /\ user = "blocks"
  /\ buffer \in {0, StackBuffer}
  /\ flags \in {"bitset", "inplace"}
  /\ blocks \in [Names -> {NewBlock(n) : n \in 0 .. MaxSize}]
  /\ aborted = FALSE

BlockNext ==
  \E b \in Names :
    \/ \E i \in DOMAIN blocks[b].slot : \E o \in Objects : BlockConstruct(b, i, o)
    \/ \E i \in DOMAIN blocks[b].slot : BlockDestruct(b, i)
    \/ \E o \in Objects : ConstructAll(b, o)
    \/ \E n \in 0 .. MaxSize : BlockResize(b, n)
    \/ BlockCompact(b)
    \/ \E n \in 0 .. MaxSize : BlockRenew(b, n)
    \/ EndSearchFails(b)
    \/ \E to \in Names : BlockCopy(b, to) \/ BlockMove(b, to)

----------------------------------------------------------------------------
(* Properties *)

\* Blocks know their elements whatever is constructed, destructed, resized,
\* compacted, copied and moved, so that every value is destructed exactly once.
\* The code departs from it in three ways, and in no other: resizing to less, also
\* by compact(), within the inplace buffer; copying flags kept in the nodes; and
\* searching a block that counts elements which it has lost for its first or last.
BlocksKnowElements ==
  [][BlocksRunning =>
       \/ BlocksKnown' /\ ~aborted'
       \/ \E b \in Names :
            LET s == blocks[b].slot
            IN  /\ SameLocation(s, 0) /\ Existing(b) # {}
                /\ \/ \E n \in 0 .. Cardinality(DOMAIN s) - 1 : BlockResize(b, n)
                   \/ BlockCompact(b) /\ Existing(b) # DOMAIN s
       \/ flags = "inplace" /\ \E b, to \in Names : BlockCopy(b, to)
       \/ \E b \in Names : blocks[b].lost > 0 /\ EndSearchFails(b)]_block_vars

\* count() is the number of elements, but for those that resize() cut off or that
\* have moved away with the block; copies inherit the difference, and compact()
\* and the order of all the other calls add none.
CountDrifts ==
  BlocksRunning =>
    \A b \in Names : blocks[b].num = Cardinality(Existing(b)) + blocks[b].lost

==========================================================================
