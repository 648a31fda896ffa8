------------------------ MODULE MCArrayAllocator ------------------------
(***************************************************************************)
(* Array_Allocator with a few objects.  Objects are interchangeable: no    *)
(* action or property names one, and all properties are safety properties. *)
(***************************************************************************)
EXTENDS ArrayAllocator, TLC

Symmetric == Permutations(Objects)
==========================================================================
