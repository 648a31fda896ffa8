----------------------------- MODULE MCMesh -----------------------------
(* Mesh for TLC: a tetrahedron without one side, two polygons back to back *)
(* with a third beside them, and two tetrahedra without the side that      *)
(* joins them.                                                             *)
EXTENDS Mesh

ThreeSides == <<<<0, 1, 3>>, <<1, 2, 3>>, <<2, 0, 3>>>>
Flap == <<<<0, 1, 2>>, <<2, 1, 3>>, <<1, 0, 2>>>>
TwoTips == <<<<0, 1, 3>>, <<1, 2, 3>>, <<2, 0, 3>>,
             <<1, 0, 4>>, <<2, 1, 4>>, <<0, 2, 4>>>>

AllSamples == {[triangles |-> ThreeSides, calls |-> 3]}
              \cup {[triangles |-> t, calls |-> 2] : t \in {Flap, TwoTips}}
SmallSamples == {[triangles |-> t, calls |-> 1] : t \in {ThreeSides, Flap}}
==========================================================================
