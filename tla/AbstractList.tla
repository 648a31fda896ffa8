-------------------------- MODULE AbstractList --------------------------
(***************************************************************************)
(* What a list promises: a sequence of distinct elements that changes by   *)
(* one insertion or one removal at a time, or is emptied.                  *)
(***************************************************************************)
EXTENDS Integers, SequencesExt

CONSTANT Elements

VARIABLE list

Init == list = <<>>

Insert(e, i) == e \notin Range(list) /\ list' = InsertAt(list, i, e)

Erase(i) == list' = RemoveAt(list, i)

Clear == list' = <<>>

Next ==
  \/ \E e \in Elements, i \in 1 .. Len(list) + 1 : Insert(e, i)
  \/ \E i \in 1 .. Len(list) : Erase(i)
  \/ Clear

Spec == Init /\ [][Next]_list
==========================================================================
