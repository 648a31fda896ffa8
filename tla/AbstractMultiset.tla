------------------------ MODULE AbstractMultiset ------------------------
(***************************************************************************)
(* What an unordered container promises: a collection that changes by one  *)
(* element at a time or loses all, and knows how many it holds.            *)
(***************************************************************************)
EXTENDS Integers, FiniteSets

CONSTANT Entries

VARIABLES contents, size

Init == contents = {} /\ size = 0

Emplace(e) ==
  /\ e \notin contents
  /\ contents' = contents \cup {e}
  /\ size' = size + 1

Erase(e) ==
  /\ e \in contents
  /\ contents' = contents \ {e}
  /\ size' = size - 1

Clear == contents' = {} /\ size' = 0

Next == (\E e \in Entries : Emplace(e) \/ Erase(e)) \/ Clear

Spec == Init /\ [][Next]_<<contents, size>>
==========================================================================
