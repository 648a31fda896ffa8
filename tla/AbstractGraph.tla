-------------------------- MODULE AbstractGraph --------------------------
(***************************************************************************)
(* What a graph promises: vertices, and edges between them that live as    *)
(* long as both of their vertices do.  An edge is the set of its two ends, *)
(* each at a vertex; parallel edges and loops have ends of their own.      *)
(***************************************************************************)
EXTENDS Integers

VARIABLES verts, edges

VertsOf(e) == {x.vert : x \in e}

\* Graph(verts_size)
Init == edges = {}

AddEdge ==
  /\ UNCHANGED verts
  /\ \E e \in edges' \ edges : edges' = edges \cup {e} /\ VertsOf(e) \subseteq verts

EraseVert ==
  \E v \in verts :
    /\ verts' = verts \ {v}
    /\ edges' = {e \in edges : v \notin VertsOf(e)}

Next == AddEdge \/ EraseVert

Spec == Init /\ [][Next]_<<verts, edges>>
==========================================================================
