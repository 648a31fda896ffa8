------------------------------ MODULE List ------------------------------
(***************************************************************************)
(* List, salgo's doubly-linked list, with its elements in an allocator and *)
(* a loop over it whose body erases and emplaces.                          *)
(*                                                                         *)
(* An accessor and an iterator are one object: erasing the element of the  *)
(* loop through it caches the element's links, so that the loop goes on    *)
(* from where the element was.  The client is a legal one: it erases the   *)
(* loop's element through the loop's accessor alone, and never the element *)
(* that the loop is to go to from an erased one.                           *)
(***************************************************************************)
EXTENDS Integers, FiniteSets, SequencesExt

CONSTANTS
  Handles,    \* the handles of the allocator; bound: no list is longer
  Nil,        \* an invalid handle
  Elements,   \* the values the client keeps in the list
  NoElement   \* the content of a handle that holds no constructed node

ASSUME HandlesAssumption == IsFiniteSet(Handles) /\ Nil \notin Handles
ASSUME ElementsAssumption == NoElement \notin Elements

VARIABLES
  val,           \* the constructed nodes, by handle
  next, prev,    \* their links
  front, back,   \* List::_front and _back
  num_existing,  \* COUNTABLE's counter
  cursor,        \* the loop's iterator, which is the accessor of its body
  visited,       \* history: elements the loop has visited and not lost since
  kept           \* history: elements in the list since the loop began

list_vars == <<val, next, prev, front, back, num_existing>>
loop_vars == <<cursor, visited, kept>>
vars == <<val, next, prev, front, back, num_existing, cursor, visited, kept>>

Directions == {"forward", "backward"}

NoCursor == [dir |-> "forward", handle |-> Nil, just_erased |-> FALSE,
             next |-> Nil, prev |-> Nil]

Live == {h \in Handles : val[h] # NoElement}
Contents == {val[h] : h \in Live}

\* ALLOC[h].next = x, or .prev = x, where h may be invalid.
Link(links, h, x) == IF h = Nil THEN links ELSE [links EXCEPT ![h] = x]

----------------------------------------------------------------------------
(* The loop's iterator *)

\* get_next() and get_prev(): where the loop goes from here.
Following ==
  LET h == cursor.handle
  IN  IF cursor.dir = "forward"
        THEN IF cursor.just_erased THEN cursor.next ELSE next[h]
        ELSE IF cursor.just_erased THEN cursor.prev ELSE prev[h]

\* The iterator moved to h, its cache reset().
StepTo(h) == [NoCursor EXCEPT !.dir = cursor.dir, !.handle = h]

\* Mutant: the two links are cached for each other.
OnEraseSwapped == [cursor EXCEPT !.just_erased = TRUE,
                                 !.next = prev[cursor.handle],
                                 !.prev = next[cursor.handle]]

\* on_erase()
OnErase == [cursor EXCEPT !.just_erased = TRUE,
                          !.next = next[cursor.handle],
                          !.prev = prev[cursor.handle]]

\* begin(), or the iterator of the accessor (LAST) for a loop that decrements.
Begin(dir) ==
  LET h == IF dir = "forward" THEN front ELSE back
  IN  /\ cursor = NoCursor
      /\ h # Nil
      /\ cursor' = [NoCursor EXCEPT !.dir = dir, !.handle = h]
      /\ visited' = {val[h]}
      /\ kept' = Contents
      /\ UNCHANGED list_vars

\* _increment() and _decrement()
Step ==
  /\ cursor.handle # Nil
  /\ Following # Nil
  /\ cursor' = StepTo(Following)
  /\ visited' = visited \cup {val[Following]}
  /\ UNCHANGED <<list_vars, kept>>

\* The loop meets its end.
End ==
  /\ cursor.handle # Nil
  /\ Following = Nil
  /\ cursor' = NoCursor
  /\ visited' = {}
  /\ kept' = {}
  /\ UNCHANGED list_vars

----------------------------------------------------------------------------
(* Operations of the accessor of h *)

\* Mutant: back keeps the handle of the erased node.
UnlinkKeepingBack(h) ==
  /\ next' = [Link(next, prev[h], next[h]) EXCEPT ![h] = Nil]
  /\ prev' = [Link(prev, next[h], prev[h]) EXCEPT ![h] = Nil]
  /\ front' = IF front = h THEN next[h] ELSE front
  /\ back' = back
  /\ val' = [val EXCEPT ![h] = NoElement]
  /\ num_existing' = num_existing - 1

\* erase(), past on_erase()
Unlink(h) ==
  /\ next' = [Link(next, prev[h], next[h]) EXCEPT ![h] = Nil]
  /\ prev' = [Link(prev, next[h], prev[h]) EXCEPT ![h] = Nil]
  /\ front' = IF front = h THEN next[h] ELSE front
  /\ back' = IF back = h THEN prev[h] ELSE back
  /\ val' = [val EXCEPT ![h] = NoElement]
  /\ num_existing' = num_existing - 1

Lost(h) ==
  /\ visited' = visited \ {val[h]}
  /\ kept' = kept \ {val[h]}

\* The client erases the loop's element through the loop's accessor.
EraseCurrent ==
  LET h == cursor.handle
  IN  /\ h # Nil /\ ~cursor.just_erased
      /\ Unlink(h)
      /\ Lost(h)
      /\ cursor' = OnErase

\* List::erase(h), or erase() on an accessor other than the loop's.
Erase(h) ==
  /\ h \in Live
  /\ cursor.handle # Nil =>
       h # (IF cursor.just_erased THEN Following ELSE cursor.handle)
  /\ Unlink(h)
  /\ Lost(h)
  /\ UNCHANGED cursor

\* construct() returns a handle that is free.
Construct(e, n) ==
  /\ e \in Elements \ Contents
  /\ n \in Handles \ Live
  /\ val' = [val EXCEPT ![n] = e]
  /\ num_existing' = num_existing + 1

EmplaceBefore(h, e, n) ==
  /\ h \in Live
  /\ Construct(e, n)
  /\ prev' = [prev EXCEPT ![n] = prev[h], ![h] = n]
  /\ next' = [Link(next, prev[h], n) EXCEPT ![n] = h]
  /\ front' = IF front = h THEN n ELSE front
  /\ UNCHANGED <<back, loop_vars>>

\* Mutant: back stays where it was.
EmplaceAfterKeepingBack(h, e, n) ==
  /\ h \in Live
  /\ Construct(e, n)
  /\ next' = [next EXCEPT ![n] = next[h], ![h] = n]
  /\ prev' = [Link(prev, next[h], n) EXCEPT ![n] = h]
  /\ UNCHANGED <<front, back, loop_vars>>

EmplaceAfter(h, e, n) ==
  /\ h \in Live
  /\ Construct(e, n)
  /\ next' = [next EXCEPT ![n] = next[h], ![h] = n]
  /\ prev' = [Link(prev, next[h], n) EXCEPT ![n] = h]
  /\ back' = IF back = h THEN n ELSE back
  /\ UNCHANGED <<front, loop_vars>>

----------------------------------------------------------------------------
(* Operations of the list *)

\* _emplace_into_empty()
EmplaceIntoEmpty(e, n) ==
  /\ front = Nil
  /\ Construct(e, n)
  /\ front' = n
  /\ back' = n
  /\ UNCHANGED <<next, prev, loop_vars>>

EmplaceFront(e, n) ==
  \/ EmplaceIntoEmpty(e, n)
  \/ front # Nil /\ EmplaceBefore(front, e, n)

EmplaceBack(e, n) ==
  \/ EmplaceIntoEmpty(e, n)
  \/ front # Nil /\ EmplaceAfter(back, e, n)

\* clear(), outside of any loop: its own loop erases every element.
Clear ==
  /\ cursor = NoCursor
  /\ val' = [h \in Handles |-> NoElement]
  /\ next' = [h \in Handles |-> Nil]
  /\ prev' = [h \in Handles |-> Nil]
  /\ front' = Nil
  /\ back' = Nil
  /\ num_existing' = 0
  /\ UNCHANGED loop_vars

Init ==
  /\ val = [h \in Handles |-> NoElement]
  /\ next = [h \in Handles |-> Nil]
  /\ prev = [h \in Handles |-> Nil]
  /\ front = Nil
  /\ back = Nil
  /\ num_existing = 0
  /\ cursor = NoCursor
  /\ visited = {}
  /\ kept = {}

Next ==
  \/ \E dir \in Directions : Begin(dir)
  \/ Step
  \/ End
  \/ EraseCurrent
  \/ \E h \in Handles : Erase(h)
  \/ \E e \in Elements, n \in Handles :
       \/ EmplaceFront(e, n)
       \/ EmplaceBack(e, n)
       \/ \E h \in Handles : EmplaceBefore(h, e, n) \/ EmplaceAfter(h, e, n)
  \/ Clear

Spec == Init /\ [][Next]_vars

----------------------------------------------------------------------------
(* Properties *)

\* The handle at position i of an order of n handles, Nil outside.
At(order, i, n) == IF i \in 1 .. n THEN order[i] ELSE Nil

\* The links, the ends and the counter all describe this order of the nodes.
LinkedAs(order, n) ==
  /\ n = num_existing
  /\ order \in [1 .. n -> Live]
  /\ \A i, j \in 1 .. n : order[i] = order[j] => i = j
  /\ \A h \in Live : \E i \in 1 .. n : order[i] = h
  /\ front = At(order, 1, n)
  /\ back = At(order, n, n)
  /\ \A i \in 1 .. n : /\ next[order[i]] = At(order, i + 1, n)
                       /\ prev[order[i]] = At(order, i - 1, n)

\* The nodes form one chain from front to back: each is on it exactly once,
\* prev inverts next, and the counter counts them.
WellLinked ==
  \E order \in [1 .. Cardinality(Live) -> Live] : LinkedAs(order, Cardinality(Live))

Order ==
  CHOOSE order \in [1 .. Cardinality(Live) -> Live] : LinkedAs(order, Cardinality(Live))

\* The elements in order; broken links make no list of elements.
Values ==
  IF WellLinked THEN [i \in DOMAIN Order |-> val[Order[i]]] ELSE <<NoElement>>

Position(h) == CHOOSE i \in DOMAIN Order : Order[i] = h

\* The elements that a loop going to h still meets.
Ahead(h) ==
  {val[o] : o \in {o \in Live : IF cursor.dir = "forward" THEN Position(o) >= Position(h)
                                                     ELSE Position(o) <= Position(h)}}

\* Wherever the body of a loop erases and emplaces, the loop goes on to a node
\* of the list or to the end.  It meets each element that has been in the list
\* since the loop began, and none twice, unless it was erased and emplaced again:
\* what it has not visited is ahead, and what is ahead it has not visited.
LoopMeetsEachOnce ==
  cursor.handle # Nil =>
    /\ Following \in Live \cup {Nil}
    /\ LET Rest == IF Following = Nil THEN {} ELSE Ahead(Following)
       IN  kept \ visited \subseteq Rest /\ Rest \cap visited = {}

\* The links implement a sequence.
Abstract == INSTANCE AbstractList WITH list <- Values

\* Every edit of the links is one insertion or one removal in a sequence, or
\* clears it; a loop changes nothing.
Refines == Abstract!Spec
==========================================================================
