----------------------------- MODULE MCGraph -----------------------------
(***************************************************************************)
(* A small instance of Graph for TLC.                                      *)
(***************************************************************************)
EXTENDS Graph
==========================================================================
