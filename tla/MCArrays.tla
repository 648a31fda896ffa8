---------------------------- MODULE MCArrays ----------------------------
(***************************************************************************)
(* A small instance of UnorderedArray, and of the arrays and blocks below  *)
(* it, for TLC.                                                            *)
(***************************************************************************)
EXTENDS UnorderedArray, TLC

\* The elements are interchangeable, as are the blocks: they are only moved.
Symmetry == Permutations(Objects) \cup Permutations(Names)
=========================================================================
