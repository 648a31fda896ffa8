-------------------------- MODULE DynamicArray --------------------------
(***************************************************************************)
(* Dynamic_Array over its Memory_Block: the lifetimes of elements through  *)
(* growing, shrinking, compacting and moving the array, dense or sparse    *)
(* (::SPARSE ::CONSTRUCTED_FLAGS), with an inplace buffer or without, and  *)
(* a loop over the array whose body changes it.                            *)
(*                                                                         *)
(* Elements are of a type with a destructor and a move constructor.        *)
(* Destroying a node that still holds an element, or constructing over     *)
(* one, fails a DCHECK, which ends the program (aborted).                  *)
(***************************************************************************)
EXTENDS MemoryBlock

CONSTANT MaxDomain  \* bound: emplace_back() stops before the block outgrows it

ASSUME DomainAssumption == MaxDomain \in Nat

VARIABLES
  sparse,   \* SPARSE with CONSTRUCTED_FLAGS; dense otherwise
  domain,   \* Memory_Block::_size
  slot,     \* the lifetimes: what each slot of the block really holds
  exists,   \* Memory_Block's flags; a dense array has none
  size,     \* Dynamic_Array::_size
  cursor,   \* the loop's iterator: an index, or NoCursor
  visited,  \* history: elements the loop has visited and not lost since
  kept      \* history: elements the loop has to meet, visited or not

params == <<user, sparse, buffer, flags, blocks>>
loop == <<cursor, visited, kept>>
array_vars == <<sparse, domain, slot, exists, size, loop>>
vars == <<params, domain, slot, exists, size, loop, aborted>>

NoCursor == -1

Held == {slot[i] : i \in DOMAIN slot} \ {Raw}

\* Distinct elements for the slots of I, none of them in the array.
Fresh(I) ==
  {new \in [I -> Objects \ Held] : \A i, j \in I : new[i] = new[j] => i = j}

\* The exists_fun of a dense array asks the size, that of a sparse block its
\* flags.
Known(i) == IF sparse THEN exists[i] ELSE i < size

KnownSlots == {i \in DOMAIN slot : Known(i)}

\* The array knows which slots hold an element: none that does is taken for
\* raw and never destructed, none that is raw is read or destructed.
LifetimesMatch == ~aborted => KnownSlots = {i \in DOMAIN slot : slot[i] # Raw}

\* The model does not follow an array that has lost track of its elements: its
\* destructor would fail on them.
Running == user # "blocks" /\ ~aborted /\ LifetimesMatch

Fails(n) == ResizeFails(slot, KnownSlots, n)

Moved(n) == Resized(slot, KnownSlots, n)

Flags(n) == FlagsResized(exists, n)

----------------------------------------------------------------------------
(* Operations of the array *)

\* emplace_back() in a full block.
GrownDomain == IF size = domain THEN ((domain + 1) * 3) \div 2 ELSE domain

\* emplace_back(), push_back(), add().
Grow(o) ==
  LET n == GrownDomain
  IN  /\ Running
      /\ o \in Objects \ Held
      /\ n <= MaxDomain
      /\ domain' = n
      /\ slot' = [Moved(n) EXCEPT ![size] = o]
      /\ exists' = [Flags(n) EXCEPT ![size] = sparse]
      /\ size' = size + 1
      /\ UNCHANGED <<params, cursor, visited, aborted>>

\* A loop is to meet the new element.
EmplaceBack(o) ==
  /\ Grow(o)
  /\ kept' = IF cursor = NoCursor THEN {} ELSE kept \cup {o}

\* pop_back(), outside of a loop; the version with flags does not compile.
PopBack ==
  /\ Running /\ cursor = NoCursor
  /\ ~sparse
  /\ size > 0
  /\ slot' = [slot EXCEPT ![size - 1] = Raw]
  /\ size' = size - 1
  /\ UNCHANGED <<params, domain, exists, loop, aborted>>

\* resize(new_size), clear(): every slot from the old size on is constructed.
Resize(n) ==
  /\ Running /\ cursor = NoCursor
  /\ ~Fails(n)
  /\ \E new \in Fresh(size .. n - 1) :
       slot' = [i \in 0 .. n - 1 |-> IF i < size THEN Moved(n)[i] ELSE new[i]]
  /\ exists' = [i \in 0 .. n - 1 |-> sparse /\ (i >= size \/ Flags(n)[i])]
  /\ domain' = n
  /\ size' = n
  /\ UNCHANGED <<params, loop, aborted>>

\* reserve(capacity), for no less than is in use.
Reserve(n) ==
  /\ Running
  /\ n >= size
  /\ ~Fails(n)
  /\ domain' = n
  /\ slot' = Moved(n)
  /\ exists' = Flags(n)
  /\ UNCHANGED <<params, size, loop, aborted>>

\* resize(new_size) destroys a node in the inplace buffer with its element.
ResizeAborts(n) ==
  /\ Running /\ cursor = NoCursor
  /\ Fails(n)
  /\ aborted' = TRUE
  /\ UNCHANGED <<params, domain, slot, exists, size, loop>>

\* Accessor::construct() of a sparse array.
Construct(i, o) ==
  /\ Running /\ sparse
  /\ ~exists[i]
  /\ o \in Objects \ Held
  /\ slot' = [slot EXCEPT ![i] = o]
  /\ exists' = [exists EXCEPT ![i] = TRUE]
  /\ UNCHANGED <<params, domain, size, loop, aborted>>

\* Accessor::destruct(), or erase(), of a sparse array.
Destruct(i) ==
  /\ Running /\ sparse
  /\ exists[i]
  /\ slot' = [slot EXCEPT ![i] = Raw]
  /\ exists' = [exists EXCEPT ![i] = FALSE]
  /\ visited' = visited \ {slot[i]}
  /\ kept' = kept \ {slot[i]}
  /\ UNCHANGED <<params, domain, size, cursor, aborted>>

\* Move construction or assignment from this array, which is then empty.
MoveFrom ==
  /\ Running /\ cursor = NoCursor
  /\ domain' = 0 /\ size' = 0
  /\ slot' = <<>> /\ exists' = <<>>
  /\ UNCHANGED <<params, loop, aborted>>

\* One turn of the loop of compact().  The target moves on only when an element
\* has been moved: an element at 0 is in the way of the next one.
CompactTurn(r, i) ==
  IF r.failed \/ r.slot[i] = Raw \/ r.target = i THEN r
  ELSE IF r.slot[r.target] # Raw THEN [r EXCEPT !.failed = TRUE]
  ELSE [r EXCEPT !.slot = [@ EXCEPT ![r.target] = slot[i], ![i] = Raw],
                 !.target = @ + 1]

\* The loop after i turns.
AfterTurns[i \in 0 .. domain] ==
  IF i = 0 THEN [target |-> 0, slot |-> slot, failed |-> FALSE]
  ELSE CompactTurn(AfterTurns[i - 1], i - 1)

Compacted == AfterTurns[domain]

\* compact() of a sparse array without an inplace buffer: the block is resized
\* to the target at last, with whatever is beyond it.
Compact ==
  /\ Running /\ sparse /\ cursor = NoCursor
  /\ buffer = 0
  /\ ~Compacted.failed
  /\ LET n == Compacted.target
     IN  /\ domain' = n /\ size' = n
         /\ slot' = [i \in 0 .. n - 1 |-> Compacted.slot[i]]
         /\ exists' = [i \in 0 .. n - 1 |-> TRUE]
  /\ UNCHANGED <<params, loop, aborted>>

\* "element already constructed"
CompactAborts ==
  /\ Running /\ sparse /\ cursor = NoCursor
  /\ buffer = 0
  /\ Compacted.failed
  /\ aborted' = TRUE
  /\ UNCHANGED <<params, domain, slot, exists, size, loop>>

----------------------------------------------------------------------------
(* The loop *)

\* Mutant: the slot after a hole is not looked at.
NextIndexSkipping(i) ==
  LET Seen(j) == Known(j) /\ (j = i + 1 \/ Known(j - 1))
  IN  CHOOSE j \in i + 1 .. size :
        (j = size \/ Seen(j)) /\ \A k \in i + 1 .. j - 1 : ~Seen(k)

\* _increment(): the next index that holds an element, or the end, which is
\* the size at the time.
NextIndex(i) == NextOf({j \in DOMAIN slot : Known(j)}, i, size)

\* begin()
LoopBegin ==
  /\ Running /\ cursor = NoCursor
  /\ cursor' = (IF size = 0 THEN NoCursor
                ELSE LET first == IF Known(0) THEN 0 ELSE NextIndex(0)
                     IN  IF first = size THEN NoCursor ELSE first)
  /\ cursor' # NoCursor
  /\ visited' = {slot[cursor']}
  /\ kept' = Held
  /\ UNCHANGED <<params, domain, slot, exists, size, aborted>>

LoopStep ==
  /\ Running /\ cursor # NoCursor
  /\ NextIndex(cursor) # size
  /\ cursor' = NextIndex(cursor)
  /\ visited' = visited \cup {slot[cursor']}
  /\ UNCHANGED <<params, domain, slot, exists, size, kept, aborted>>

LoopEnd ==
  /\ Running /\ cursor # NoCursor
  /\ NextIndex(cursor) = size
  /\ cursor' = NoCursor
  /\ visited' = {}
  /\ kept' = {}
  /\ UNCHANGED <<params, domain, slot, exists, size, aborted>>

----------------------------------------------------------------------------

\* Dynamic_Array(), Dynamic_Array(size), or from an initializer list, which does
\* not begin with the inplace buffer.
Init ==
  /\ sparse \in BOOLEAN
  /\ size \in 0 .. MaxSize
  /\ domain \in {IF size > buffer THEN size ELSE buffer, size}
  /\ \E new \in {f \in [0 .. size - 1 -> Objects] :
                   \A i, j \in 0 .. size - 1 : f[i] = f[j] => i = j} :
       slot = [i \in 0 .. domain - 1 |-> IF i < size THEN new[i] ELSE Raw]
  /\ exists = [i \in 0 .. domain - 1 |-> sparse /\ i < size]
  /\ cursor = NoCursor
  /\ visited = {} /\ kept = {}

Next ==
  \/ \E o \in Objects : EmplaceBack(o)
  \/ \E o \in Objects, i \in 0 .. size - 1 : Construct(i, o)
  \/ \E i \in 0 .. size - 1 : Destruct(i)
  \/ PopBack
  \/ \E n \in 0 .. MaxSize : Resize(n) \/ ResizeAborts(n) \/ Reserve(n)
  \/ MoveFrom
  \/ Compact
  \/ CompactAborts
  \/ LoopBegin
  \/ LoopStep
  \/ LoopEnd

----------------------------------------------------------------------------
(* Properties *)

\* Without an inplace buffer the array always knows its elements, whatever it
\* grows, shrinks, constructs and destructs: nothing is destructed twice, left
\* behind or read raw.
HeapLifetimesMatch == buffer = 0 => LifetimesMatch

\* Elements and holes in the order of their indices.
Array == [i \in 1 .. size |-> slot[i - 1]]

\* Changing its size keeps the elements of an array in place: emplace_back()
\* appends, reserve() keeps all and resize() the common prefix, whether the block
\* moves or not.  An array in the inplace buffer is only held to it as long as it
\* knows its elements.
ElementsStay ==
  [][buffer = 0 \/ Running' =>
       /\ \A o \in Objects : EmplaceBack(o) => Array' = Append(Array, o)
       /\ \A n \in 0 .. MaxSize : Reserve(n) => Array' = Array
       /\ \A n \in 0 .. MaxSize : Resize(n) =>
            IF n < size THEN IsPrefix(Array', Array) ELSE IsPrefix(Array, Array')]_vars

==========================================================================
