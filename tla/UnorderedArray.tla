------------------------- MODULE UnorderedArray -------------------------
(***************************************************************************)
(* Unordered_Array over a dense Dynamic_Array: erasing moves the last      *)
(* element into the hole, and a loop in either direction erases its own    *)
(* element and adds others.  The loop runs over the array itself or over a *)
(* lazy view of it: Map, forward, and Reverse, backward.                   *)
(*                                                                         *)
(* ArraysSpec is the union of three systems that share the storage: a      *)
(* client of Memory_Blocks, one of a Dynamic_Array, one of an              *)
(* Unordered_Array.                                                        *)
(***************************************************************************)
EXTENDS DynamicArray

VARIABLES
  view,        \* what the loop runs over, and how
  just_erased  \* _just_erased of the iterator, or of a view's cached accessor

unordered_vars == <<view, just_erased>>
arrays_vars == <<vars, unordered_vars>>

UserOfBag == user = "unordered" /\ Running

\* Loops by ++ or -- of the array's own iterators, over Map and over Reverse.
Views == {"forward", "backward", "map", "reverse"}

Backward == view \in {"backward", "reverse"}

----------------------------------------------------------------------------
(* Operations *)

\* add(): a forward loop is to meet the new element.
Add(o) ==
  /\ UserOfBag
  /\ Grow(o)
  /\ kept' = IF cursor = NoCursor \/ Backward THEN kept ELSE kept \cup {o}
  /\ UNCHANGED unordered_vars

\* The last element moves into the hole; its own slot is destructed.
SwapErased(i) == [slot EXCEPT ![i] = slot[size - 1], ![size - 1] = Raw]

\* erase() through an accessor, outside of a loop, and pop_back().
Erase(i) ==
  /\ UserOfBag
  /\ cursor = NoCursor
  /\ slot' = SwapErased(i)
  /\ size' = size - 1
  /\ UNCHANGED <<params, domain, exists, loop, aborted, unordered_vars>>

\* The loop's body erases the loop's element.
EraseCurrent ==
  /\ UserOfBag
  /\ cursor # NoCursor /\ ~just_erased
  /\ slot' = SwapErased(cursor)
  /\ size' = size - 1
  /\ just_erased' = TRUE
  /\ visited' = visited \ {slot[cursor]}
  /\ kept' = kept \ {slot[cursor]}
  /\ UNCHANGED <<params, domain, exists, cursor, aborted, view>>

UnorderedReserve(n) ==
  /\ UserOfBag
  /\ Reserve(n)
  /\ UNCHANGED unordered_vars

----------------------------------------------------------------------------
(* The loop *)

\* _increment(): stays where the last element has come.
Increment == IF just_erased THEN cursor ELSE cursor + 1

\* _decrement(): the element that has come has been met.
Decrement == cursor - 1

\* Both views hold an accessor of the array, which keeps _just_erased, and take
\* its handle when it has moved: Map's ++ is its ++, and ends where it ends.
MapIncrement == Increment

\* Reverse's ++ is its --.
ReverseIncrement == Decrement

\* Mutant: ++ always moves on.
AfterMovingOn ==
  IF Backward THEN cursor - 1
  ELSE IF cursor + 1 >= size THEN NoCursor ELSE cursor + 1

\* The ends are size() at the time, and before_begin().
After ==
  LET next == CASE view = "forward" -> Increment
                [] view = "backward" -> Decrement
                [] view = "map" -> MapIncrement
                [] view = "reverse" -> ReverseIncrement
  IN  IF ~Backward /\ next = size THEN NoCursor ELSE next

\* begin() of Map is that of the array; that of Reverse is at LAST.
MapBegin == 0
ReverseBegin == size - 1

\* begin(), or back().iterator(), of the array or a view of it.
Begin ==
  /\ UserOfBag
  /\ cursor = NoCursor /\ size > 0
  /\ view' \in Views
  /\ cursor' = CASE view' = "forward" -> 0
                 [] view' = "backward" -> size - 1
                 [] view' = "map" -> MapBegin
                 [] view' = "reverse" -> ReverseBegin
  /\ just_erased' = FALSE
  /\ visited' = {slot[cursor']}
  /\ kept' = Held
  /\ UNCHANGED <<params, domain, slot, exists, size, aborted>>

Step ==
  /\ UserOfBag
  /\ cursor # NoCursor
  /\ cursor' = After
  /\ just_erased' = FALSE
  /\ IF cursor' = NoCursor
       THEN visited' = {} /\ kept' = {} /\ view' = "forward"
       ELSE /\ visited' = visited \cup {slot[cursor']}
            /\ UNCHANGED <<kept, view>>
  /\ UNCHANGED <<params, domain, slot, exists, size, aborted>>

----------------------------------------------------------------------------

NoBlocks == [b \in Names |-> EmptyBlock]

\* A Memory_Block's client, or a client of an array that may be an
\* Unordered_Array.
ArraysInit ==
  /\ view = "forward" /\ just_erased = FALSE
  /\ \/ BlockInit
     \/ /\ user \in {"array", "unordered"}
        /\ buffer \in {0, StackBuffer}
        /\ flags = "bitset"
        /\ blocks = NoBlocks
        /\ aborted = FALSE
  /\ Init
  /\ user = "unordered" => ~sparse
  /\ user = "blocks" => domain = 0 /\ ~sparse

UnorderedNext ==
  \/ \E o \in Objects : Add(o)
  \/ \E i \in 0 .. size - 1 : Erase(i)
  \/ EraseCurrent
  \/ \E n \in 0 .. MaxSize : UnorderedReserve(n)
  \/ Begin
  \/ Step

ArraysNext ==
  \/ BlockNext /\ UNCHANGED <<array_vars, unordered_vars>>
  \/ user = "array" /\ Next /\ UNCHANGED unordered_vars
  \/ UnorderedNext

ArraysSpec == ArraysInit /\ [][ArraysNext]_arrays_vars

----------------------------------------------------------------------------
(* Properties *)

\* What the loop is to meet after its element, the one in a hole that the body
\* made included.
Ahead ==
  LET Indices == IF Backward THEN 0 .. cursor - 1
                 ELSE (IF just_erased THEN cursor ELSE cursor + 1) .. size - 1
  IN  {slot[i] : i \in Indices} \ {Raw}

\* A loop over an array, or in either direction over an unordered array or a view
\* of it, meets each element that is there from its beginning on, or that is added
\* behind it, and meets it once, although erasing puts the last element under its
\* cursor.
LoopMeetsEachOnce ==
  cursor # NoCursor /\ Running => kept \ visited \subseteq Ahead /\ Ahead \cap visited = {}

==========================================================================
