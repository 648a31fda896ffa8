------------------------- MODULE BlockAllocators -------------------------
(***************************************************************************)
(* The allocators whose elements never move: Random_Allocator, in a sparse *)
(* Chunked_Array, looks for a hole by drawing random indices;              *)
(* Crude_Allocator, in blocks of 2, 6, 14, ... slots, uses no slot twice;  *)
(* Salgo_From_Std_Allocator counts what it has std::allocator allocate.    *)
(***************************************************************************)
EXTENDS ChunkedArray

CONSTANTS
  Probes,    \* how many slots a draw looks at: 10 in the code
  Div,       \* the bits of the offset in a Crude_Allocator's handle: 27 in the code
  MaxCrude,  \* bound: the Crude_Allocator's blocks
  Addresses  \* bound: the addresses of std::allocator

ASSUME ProbesAssumption == Probes \in Nat \ {0}
\* The offsets within MaxCrude blocks take no more than Div bits of the 32.
ASSUME DivAssumption == Div \in 0 .. 31 /\ MaxCrude \in Nat /\ MaxCrude < Div
ASSUME AddressesAssumption == Addresses \in Nat

VARIABLES
  constructing,  \* the object that Random_Allocator::construct() looks for a hole for
  filled         \* Crude_Allocator::current_filled

allVars == <<vars, constructing, filled>>

NoHandle == -1

----------------------------------------------------------------------------
(* Random_Allocator *)

Capacity == 2 ^ Len(blocks) - 1

\* Mutant: the array grows at full congestion only.
AppendsWhenOver == size < Capacity \/ num_existing > size

\* "if current chunk not full yet, or congestion too high"
Appends == size < Capacity \/ num_existing * 2 >= size

\* construct(): a new element at the end, or else a search for a hole.
RandomConstruct(o) ==
  /\ constructing = NoObject /\ o \in Free
  /\ IF Appends THEN EmplacedBack(o) /\ UNCHANGED <<user, loop, constructing, filled>>
                ELSE constructing' = o /\ UNCHANGED <<vars, filled>>

\* The holes among the slots that a draw of idx looks at.
Seen(idx) == {i \in idx .. idx + Probes - 1 : i < size /\ ~Constructed(HandleOf(i))}

\* A draw that finds a hole; one that does not changes nothing.
Draw(idx) ==
  /\ constructing # NoObject /\ Seen(idx) # {}
  /\ blocks' = Store(blocks, HandleOf(Min(Seen(idx))), constructing)
  /\ num_existing' = num_existing + 1
  /\ constructing' = NoObject
  /\ UNCHANGED <<user, size, loop, filled>>

\* rand_32() & domain
SomeDraw == \E idx \in 0 .. size : Draw(idx)

\* Accessor::destruct()
RandomDestruct(h) ==
  /\ constructing = NoObject
  /\ Destruct(h)
  /\ UNCHANGED <<constructing, filled>>

RandomNext ==
  \/ \E o \in Objects : RandomConstruct(o)
  \/ SomeDraw
  \/ \E h \in Handles : RandomDestruct(h)

----------------------------------------------------------------------------
(* Crude_Allocator *)

MaxFilled == IF blocks = <<>> THEN 0 ELSE Domain(Last(blocks))

\* construct()
CrudeConstruct(o) ==
  LET full == filled >= MaxFilled
      bs == IF full THEN Append(blocks, Block((MaxFilled + 1) * 2)) ELSE blocks
      b == IF full THEN 0 ELSE filled
  IN  /\ o \in Free /\ Len(bs) <= MaxCrude
      /\ blocks' = Store(bs, <<Len(bs) - 1, b>>, o)
      /\ filled' = b + 1
      /\ UNCHANGED <<user, size, num_existing, loop, constructing>>

\* destruct(): the slot is not used again.
CrudeDestruct(h) ==
  /\ Constructed(h)
  /\ blocks' = Store(blocks, h, NoObject)
  /\ UNCHANGED <<user, size, num_existing, loop, constructing, filled>>

CrudeNext ==
  \/ \E o \in Objects : CrudeConstruct(o)
  \/ \E h \in Handles : CrudeDestruct(h)

\* Mutant: the block's number is not shifted.
SmallUnshifted(h) == h[1] + h[2]

\* Handle_Small(Handle) of a Crude_Allocator
Small(h) == h[1] * 2 ^ Div + h[2]

----------------------------------------------------------------------------
(* Salgo_From_Std_Allocator: num_existing is its _num_allocations *)

\* construct(), construct_near(): at any free address, whatever the hint.
StdConstruct(h, o) ==
  /\ ~Constructed(h) /\ o \in Free
  /\ num_existing' = num_existing + 1
  /\ blocks' = Store(blocks, h, o)
  /\ UNCHANGED <<user, size, loop, constructing, filled>>

\* destruct(handle), and destruct() of an accessor.
StdDestruct(h) ==
  /\ Constructed(h)
  /\ num_existing' = num_existing - 1
  /\ blocks' = Store(blocks, h, NoObject)
  /\ UNCHANGED <<user, size, loop, constructing, filled>>

StdNext == \E h \in Handles : StdDestruct(h) \/ \E o \in Objects : StdConstruct(h, o)

----------------------------------------------------------------------------
AllocatorInit ==
  /\ \/ user \in {"random", "crude"} /\ blocks = <<>>
     \/ user = "std" /\ blocks = <<Block(Addresses)>>
  /\ size = 0 /\ num_existing = 0
  /\ cursor = NoCursor /\ backward = FALSE /\ visited = {} /\ kept = {}

BlocksInit ==
  /\ Init \/ AllocatorInit
  /\ constructing = NoObject
  /\ filled = 0

BlocksNext ==
  \/ Next /\ UNCHANGED <<constructing, filled>>
  \/ user = "random" /\ RandomNext
  \/ user = "crude" /\ CrudeNext
  \/ user = "std" /\ StdNext

\* A draw finds a hole at last: rand_32() draws every index again and again.
BlocksSpec ==
  /\ BlocksInit /\ [][BlocksNext]_allVars
  /\ WF_allVars(SomeDraw)

----------------------------------------------------------------------------
(* Properties *)

\* construct() comes back: there always is a hole for the search to find.
ConstructEnds == constructing # NoObject ~> constructing = NoObject

\* The handle at which the client finds each object: of a Random_Allocator the
\* index, of a Crude_Allocator block and offset in one integer, and a pointer.
Where ==
  [o \in Objects |->
     IF user \notin {"random", "crude", "std"} \/ o \notin Held THEN NoHandle
     ELSE LET h == CHOOSE g \in Handles : At(g) = o
          IN  IF user = "crude" THEN Small(h) ELSE IndexOf(h)]

Abstract == INSTANCE AbstractAllocator WITH at <- Where

\* All three are what an allocator's client sees: no live object ever
\* moves, or shares its handle.
Refines == Abstract!Spec
==========================================================================
