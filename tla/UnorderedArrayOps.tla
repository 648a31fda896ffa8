----------------------- MODULE UnorderedArrayOps -----------------------
(***************************************************************************)
(* How an Unordered_Array changes, on sequences.  Indices are those of the *)
(* code, from 0.                                                           *)
(***************************************************************************)
EXTENDS Integers, SequencesExt

Indices(s) == 0 .. Len(s) - 1

\* operator[]: the element at index i.
ItemAt(s, i) == s[i + 1]

\* erase(): the last element moves into the hole, then the last slot goes.
SwapErase(s, i) == Front([s EXCEPT ![i + 1] = s[Len(s)]])
==========================================================================
