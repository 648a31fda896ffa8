----------------------- MODULE MCBlockAllocators -----------------------
(***************************************************************************)
(* A third block of the array, and a second search of the allocator, take  *)
(* four objects in up to six slots.                                        *)
(***************************************************************************)
EXTENDS BlockAllocators
==========================================================================
