---------------------------- MODULE MCTrees ----------------------------
(***************************************************************************)
(* Small instances of Forest and Kd for TLC.  The boxes of the kd tree are *)
(* two points less than 1 apart, a flat box and one that spans the plane,  *)
(* in two dimensions, a coordinate being a multiple of a quarter.          *)
(***************************************************************************)
EXTENDS Kd, TLC

Point(x, y) == (0 :> x) @@ (1 :> y)
Box(a, b) == [min |-> a, max |-> b]

SomeBoxes ==
  {Box(Point(1, 1), Point(1, 1)), Box(Point(1, 0), Point(1, 0)), Box(Point(4, 8), Point(8, 8)),
   Box(Point(0, 0), Point(12, 8))}
SomeAsked == {Box(Point(2, 4), Point(5, 9))}
SomePoints == {Point(0, 0), Point(5, 9), Point(13, 4)}

Handles == Permutations(Nodes)
==========================================================================
