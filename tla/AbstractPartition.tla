------------------------ MODULE AbstractPartition ------------------------
(***************************************************************************)
(* What a disjoint-set structure promises: a partition of the nodes added  *)
(* so far, that changes by adding a set of one node or by uniting two sets,*)
(* and its size.                                                           *)
(***************************************************************************)
EXTENDS Integers, FiniteSets

CONSTANT MaxNodes

VARIABLES sets, size

\* Union_Find(initial_size)
Init == \E n \in 0 .. MaxNodes : sets = {{i} : i \in 0 .. n - 1} /\ size = n

Add ==
  /\ \E i \in 0 .. MaxNodes - 1 \ UNION sets : sets' = sets \cup {{i}}
  /\ size' = size + 1

Merge ==
  /\ \E a, b \in sets : a # b /\ sets' = (sets \ {a, b}) \cup {a \cup b}
  /\ size' = size - 1

Next == Add \/ Merge

Spec == Init /\ [][Next]_<<sets, size>>
==========================================================================
