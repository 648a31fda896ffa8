------------------------------ MODULE Mesh ------------------------------
(***************************************************************************)
(* Mesh with VERTS_ERASABLE, POLYS_ERASABLE, EDGE_LINKS, VERT_POLY_LINKS,  *)
(* and the algorithms that change its structure.                           *)
(*                                                                         *)
(* A mesh is a record: its vertices and the three corners of each polygon, *)
(* the edge that each edge of a polygon is linked to, and the corners that *)
(* each vertex is linked to.  A corner and an edge of a polygon are both   *)
(* named <<polygon, ith>>; edge ith goes from corner ith to the next one.  *)
(* The operations are functions of that record, composed as the code       *)
(* composes them.  Positions are left out: what depends on them (the best  *)
(* candidate of a cap, the short edges, the volume) is any choice.         *)
(***************************************************************************)
EXTENDS Integers, FiniteSets, SequencesExt

CONSTANTS
  MaxVerts,   \* bound: no mesh has more vertices
  MaxPolys,   \* bound: no mesh has more polygons
  NoVerts,    \* the corners of a handle that holds no polygon
  NoEdge,     \* an invalid H_PolyEdge
  NoTask,     \* no algorithm is under way
  Samples,    \* the meshes to begin with: triangles, and a bound of the
              \* calls that the client makes
  CleansOpen  \* the client cleans solid meshes with holes, too

ASSUME BoundsAssumption == {MaxVerts, MaxPolys} \subseteq Nat
ASSUME CleansOpenAssumption == CleansOpen \in BOOLEAN

VARIABLES
  mesh,  \* the mesh
  task,  \* the algorithm that runs over several steps, with its variables
  calls  \* how many calls the client has left

meshVars == <<mesh, task, calls>>

\* Handles: the indices of the two allocators.
Verts == 0 .. MaxVerts - 1
Polys == 0 .. MaxPolys - 1
Ends == Polys \X (0 .. 2)
Corners == [0 .. 2 -> Verts]

ASSUME NoneAssumption == NoVerts \notin Corners /\ NoEdge \notin Ends
ASSUME SamplesAssumption ==
  \A s \in Samples : /\ s.triangles \in Seq(Verts \X Verts \X Verts)
                     /\ Len(s.triangles) <= MaxPolys

ASSUME NoTaskAssumption ==
  NoTask \notin [name : {"walk"}, first : Ends, at : Ends, perimeter : Seq(Ends),
                 open : SUBSET Ends, all : BOOLEAN]

EmptyMesh == [verts |-> {},
              corners |-> [p \in Polys |-> NoVerts],
              link |-> [e \in Ends |-> NoEdge],
              poly_links |-> [v \in Verts |-> {}],
              ok |-> TRUE]  \* no assertion has failed

PolysOf(m) == {p \in Polys : m.corners[p] # NoVerts}
EndsOf(m) == PolysOf(m) \X (0 .. 2)
NewPolys(m) == Polys \ PolysOf(m)
\* The handles that the allocator gives to the next polygons.
FirstNew(m) == Min(NewPolys(m))
SecondNew(m) == Min(NewPolys(m) \ {FirstNew(m)})
NewVerts(m) == Verts \ m.verts

\* next(i) of a corner or an edge; next(2) is prev().
Turn(e, i) == <<e[1], (e[2] + i) % 3>>
Vert(m, e) == m.corners[e[1]][e[2]]
From(m, e) == Vert(m, e)
To(m, e) == Vert(m, Turn(e, 1))
Opposite(m, e) == Vert(m, Turn(e, 2))

Open(m) == {e \in EndsOf(m) : m.link[e] = NoEdge}
\* The first edge that a loop over the polygons and their edges comes to.
FirstOf(es) == CHOOSE e \in es : \A f \in es : e[1] < f[1] \/ (e[1] = f[1] /\ e[2] <= f[2])
Require(m, condition) == [m EXCEPT !.ok = @ /\ condition]

----------------------------------------------------------------------------
(* Accessors *)

\* link()
Link(m, e, other) ==
  Require([m EXCEPT !.link = [@ EXCEPT ![e] = other, ![other] = e]],
          m.link[e] = NoEdge /\ m.link[other] = NoEdge)

\* unlink(): the link must be mutual.
Unlink(m, e) ==
  IF m.link[e] # NoEdge /\ m.link[m.link[e]] = e
    THEN [m EXCEPT !.link = [@ EXCEPT ![e] = NoEdge, ![m.link[e]] = NoEdge]]
    ELSE Require(m, FALSE)

UnlinkIfLinked(m, e) == IF m.link[e] # NoEdge THEN Unlink(m, e) ELSE m

\* Mutant: the vertex that the corner leaves keeps its link to it.
ChangeVertKeepingLink(m, c, v) ==
  Require([m EXCEPT !.poly_links[v] = @ \cup {c}, !.corners[c[1]][c[2]] = v],
          v \in m.verts /\ c \in m.poly_links[Vert(m, c)])

\* change_vert()
ChangeVert(m, c, v) ==
  LET taken == [m EXCEPT !.poly_links[Vert(m, c)] = @ \ {c}]
  IN  Require([taken EXCEPT !.poly_links[v] = @ \cup {c}, !.corners[c[1]][c[2]] = v],
              v \in m.verts /\ c \in m.poly_links[Vert(m, c)])

\* polys().add(): a new polygon p with the corners t[1], t[2], t[3].
WithPoly(m, p, t) ==
  [m EXCEPT !.corners[p] = [i \in 0 .. 2 |-> t[i + 1]],
            !.poly_links = [v \in Verts |->
               @[v] \cup {<<p, i>> : i \in {j \in 0 .. 2 : t[j + 1] = v}}]]

\* erase() of polygon p, with UNLINK_EDGE_LINKS and ERASE_ISOLATED_VERTS.
WithoutPoly(m, p, unlink_edge_links, erase_isolated_verts) ==
  LET own == {p} \X (0 .. 2)
      linked == {m.link[e] : e \in own} \ {NoEdge}
      reset == own \cup (IF unlink_edge_links THEN linked ELSE {})
      left == [v \in Verts |-> m.poly_links[v] \ own]
      isolated == {v \in m.verts : left[v] = {} /\ m.poly_links[v] # {}}
  IN  [m EXCEPT !.corners[p] = NoVerts,
                !.link = [e \in Ends |-> IF e \in reset THEN NoEdge ELSE @[e]],
                !.poly_links = left,
                !.verts = IF erase_isolated_verts THEN @ \ isolated ELSE @,
                !.ok = /\ @
                       /\ \A e \in own : e \in m.poly_links[Vert(m, e)]
                       /\ unlink_edge_links => linked \subseteq EndsOf(m)]

----------------------------------------------------------------------------
(* Operations made of those *)

\* erase_poly_if_degenerate(): the two other edges' neighbours become each
\* other's.  A polygon may be linked to itself.
EraseIfDegenerate(m, p) ==
  LET same == {i \in 0 .. 2 : From(m, <<p, i>>) = To(m, <<p, i>>)}
      pv == <<p, Min(same)>>
      m1 == UnlinkIfLinked(m, pv)
      vv == m1.link[Turn(pv, 2)]
      m2 == IF vv # NoEdge THEN Unlink(m1, vv) ELSE m1
      ww == m2.link[Turn(pv, 1)]
      m3 == IF ww # NoEdge THEN Unlink(m2, ww) ELSE m2
      m4 == IF vv # NoEdge /\ ww # NoEdge THEN Link(m3, vv, ww) ELSE m3
  IN  IF same = {} THEN m ELSE WithoutPoly(m4, p, FALSE, TRUE)

\* One corner of b becomes a's.
MoveCorner(m, c, a) == EraseIfDegenerate(ChangeVert(m, c, a), c[1])

\* What merge_verts() of b into a makes of m: a loop over the corners of b, in
\* the order of a hash table.
MergedInto(m, a, b) ==
  LET moves == Cardinality(m.poly_links[b])
      moved[k \in 0 .. moves] ==
        IF k = 0 THEN {m}
        ELSE UNION {{MoveCorner(n, c, a) : c \in n.poly_links[b]} : n \in moved[k - 1]}
  IN  {Require([n EXCEPT !.verts = @ \ {b}], n.poly_links[b] = {}) : n \in moved[moves]}

\* The vertex with fewer polygons is merged into the other one.
FewerPolysInto(m, a, b) ==
  IF Cardinality(m.poly_links[a]) < Cardinality(m.poly_links[b]) THEN <<b, a>> ELSE <<a, b>>

\* merge_verts()
Merged(m, a, b) ==
  LET kept == FewerPolysInto(m, a, b)
  IN  MergedInto(m, kept[1], kept[2])

\* Moves the link of an edge to another edge between the same vertices.
Relink(m, old, new) ==
  LET other == m.link[old]
  IN  IF other = NoEdge THEN m ELSE Link(Unlink(m, old), other, new)

\* The upper half of split_edge(): A, P, C stay and P, B, C is new.
SplitAbove(m, ab, p, pbc) ==
  LET m1 == WithPoly(m, pbc, <<p, To(m, ab), Opposite(m, ab)>>)
      m2 == ChangeVert(m1, Turn(ab, 1), p)
      m3 == Relink(m2, Turn(ab, 1), <<pbc, 1>>)
  IN  Link(m3, Turn(ab, 1), <<pbc, 2>>)

\* Mutant: the new polygon of the lower half is turned over.
SplitBelowTurned(m, ba, p, b, pdb, pb) ==
  LET m1 == WithPoly(m, pdb, <<p, b, Opposite(m, ba)>>)
      m2 == ChangeVert(m1, ba, p)
      m3 == Relink(m2, Turn(ba, 2), <<pdb, 1>>)
      m4 == Link(m3, Turn(ba, 2), <<pdb, 0>>)
  IN  Link(m4, pb, <<pdb, 2>>)

\* The lower half: A, D, P stay and P, D, B is new; b was moved above.
SplitBelow(m, ba, p, b, pdb, pb) ==
  LET m1 == WithPoly(m, pdb, <<p, Opposite(m, ba), b>>)
      m2 == ChangeVert(m1, ba, p)
      m3 == Relink(m2, Turn(ba, 2), <<pdb, 1>>)
      m4 == Link(m3, Turn(ba, 2), <<pdb, 0>>)
  IN  Link(m4, pb, <<pdb, 2>>)

\* split_edge()
Split(m, ab, p, pbc, pdb) ==
  LET above == SplitAbove(m, ab, p, pbc)
      ba == above.link[ab]
  IN  IF ba = NoEdge THEN above
                     ELSE SplitBelow(above, ba, p, To(m, ab), pdb, <<pbc, 0>>)

\* cut_poly()
Cut(m, abc, p, bcp, cap) ==
  LET v == m.corners[abc]
      m1 == ChangeVert(m, <<abc, 2>>, p)
      m2 == WithPoly(WithPoly(m1, bcp, <<v[1], v[2], p>>), cap, <<v[2], v[0], p>>)
      m3 == Relink(Relink(m2, <<abc, 1>>, <<bcp, 0>>), <<abc, 2>>, <<cap, 0>>)
  IN  Link(Link(Link(m3, <<abc, 1>>, <<bcp, 2>>), <<bcp, 1>>, <<cap, 2>>),
           <<cap, 1>>, <<abc, 2>>)

----------------------------------------------------------------------------
(* Whole-mesh operations *)

\* Loops over the polygons, and over their edges, skip the handles without one.
\* This is the k-th edge, of all handles.
NthEdge(k) == <<(k - 1) \div 3, (k - 1) % 3>>

\* One edge of fast_compute_edge_links(): linked to an open edge in the other
\* direction, to any if there are several, or open itself.
ComputeLink(s, e) ==
  LET found == {o \in s.open : From(s.m, o) = To(s.m, e) /\ To(s.m, o) = From(s.m, e)}
  IN  CASE e \notin EndsOf(s.m) \/ s.m.link[e] # NoEdge -> {s}
        [] e \in Open(s.m) /\ found = {} -> {[s EXCEPT !.open = @ \cup {e}]}
        [] OTHER -> {[m |-> Link(s.m, e, o), open |-> s.open \ {o}] : o \in found}

\* The results that fast_compute_edge_links() may have.
WithComputedLinks(m) ==
  LET after[k \in 0 .. 3 * MaxPolys] ==
        IF k = 0 THEN {[m |-> m, open |-> {}]}
        ELSE UNION {ComputeLink(s, NthEdge(k)) : s \in after[k - 1]}
  IN  {s.m : s \in after[3 * MaxPolys]}

\* check_solid(), with EDGE_LINKS and VERT_POLY_LINKS.
HasDegeneratePolys(m) == \E e \in EndsOf(m) : From(m, e) = To(m, e)
HasValidEdgeLinks(m) == \A e \in EndsOf(m) \ Open(m) : m.link[m.link[e]] = e
IsSolid(m, allow_holes) ==
  /\ ~HasDegeneratePolys(m)
  /\ HasValidEdgeLinks(m)
  /\ allow_holes \/ Open(m) = {}
  /\ \A v \in m.verts : m.poly_links[v] # {}

\* erase_isolated_verts()
WithoutIsolated(m) == [m EXCEPT !.verts = {v \in @ : m.poly_links[v] # {}}]

\* invert_polys(), which leaves the links between edges alone.
InvertPoly(m, p) ==
  ChangeVert(ChangeVert(m, <<p, 1>>, m.corners[p][2]), <<p, 2>>, m.corners[p][1])

Inverted(m) ==
  LET after[p \in 0 .. MaxPolys] ==
        IF p = 0 THEN m
        ELSE LET n == after[p - 1] IN IF p - 1 \in PolysOf(n) THEN InvertPoly(n, p - 1) ELSE n
  IN  after[MaxPolys]

VertSet(m, p) == {m.corners[p][i] : i \in 0 .. 2}
SameTurn(m, p, q) == \E i \in 0 .. 2 : \A j \in 0 .. 2 : m.corners[p][j] = m.corners[q][(i + j) % 3]

\* remove_2sided_and_double(): of polygons over the same vertices the first
\* stays if all turn the same way, and none otherwise.
RemovedBy2sided(m) ==
  {p \in PolysOf(m) : \E q \in PolysOf(m) : /\ VertSet(m, p) = VertSet(m, q)
                                           /\ (q < p \/ ~SameTurn(m, p, q))}

WithoutPolys(m, ps) ==
  LET after[p \in 0 .. MaxPolys] ==
        IF p = 0 THEN m
        ELSE LET n == after[p - 1] IN IF p - 1 \in ps THEN WithoutPoly(n, p - 1, TRUE, TRUE) ELSE n
  IN  after[MaxPolys]

\* The unions of the sets that remove_inverted() merges: polygons linked to
\* each other are inverted together.
LinkedParts(m) ==
  {ps \in SUBSET PolysOf(m) :
     \A e \in EndsOf(m) : e[1] \in ps /\ m.link[e] # NoEdge => m.link[e][1] \in ps}

\* compact(): the vertices move, and the corners are told.
Renamed(m, f) ==
  [m EXCEPT !.verts = {f[v] : v \in m.verts},
            !.corners = [p \in Polys |->
               IF @[p] = NoVerts THEN NoVerts ELSE [i \in 0 .. 2 |-> f[@[p][i]]]],
            !.poly_links = [w \in Verts |->
               UNION {@[v] : v \in {u \in m.verts : f[u] = w}}]]

\* mesh_append_inplace() of triangles over vertices that m does not have.
Appended(m, triangles) ==
  LET corners == UNION {{t[1], t[2], t[3]} : t \in ToSet(triangles)}
      after[k \in 0 .. Len(triangles)] ==
        IF k = 0 THEN [m EXCEPT !.verts = @ \cup corners]
        ELSE LET n == after[k - 1] IN WithPoly(n, FirstNew(n), triangles[k])
  IN  after[Len(triangles)]

----------------------------------------------------------------------------
(* The client's calls; they return the mesh as it is after the call *)

Becomes(m) == mesh' = m /\ UNCHANGED task

AddVert == NewVerts(mesh) # {} /\ Becomes([mesh EXCEPT !.verts = @ \cup {Min(NewVerts(mesh))}])

AddPoly(a, b, c) ==
  /\ NewPolys(mesh) # {}
  /\ {a, b, c} \subseteq mesh.verts
  /\ Cardinality({a, b, c}) = 3
  /\ Becomes(WithPoly(mesh, FirstNew(mesh), <<a, b, c>>))

ErasePoly(p) == p \in PolysOf(mesh) /\ Becomes(WithoutPoly(mesh, p, TRUE, TRUE))

\* fast_erase(), which asserts that the vertex has no polygons.
EraseVert(v) ==
  /\ v \in mesh.verts
  /\ mesh.poly_links[v] = {}
  /\ Becomes([mesh EXCEPT !.verts = @ \ {v}])

EraseIsolatedVerts == Becomes(WithoutIsolated(mesh))

Compact == Becomes(Renamed(mesh, [v \in mesh.verts |-> Cardinality({w \in mesh.verts : w < v})]))

ComputeEdgeLinks == \E m \in WithComputedLinks(mesh) : Becomes(m)

\* The links between edges would no longer join the same vertices.
InvertPolys == Open(mesh) = EndsOf(mesh) /\ Becomes(Inverted(mesh))

\* With an edge from a vertex to itself, a could be left without polygons and be
\* erased before the loop has come to its end.
MergeVerts(a, b) ==
  /\ {a, b} \subseteq mesh.verts /\ a # b
  /\ ~HasDegeneratePolys(mesh)
  /\ \E m \in Merged(mesh, a, b) : Becomes(m)

\* Its polygon has three corners, so it is not linked to itself, and the vertex is
\* none of the corners around the edge.
SplitEdge(e, v) ==
  /\ Cardinality(NewPolys(mesh)) >= 2
  /\ e \in EndsOf(mesh) /\ Cardinality(VertSet(mesh, e[1])) = 3
  /\ v \in mesh.verts \ VertSet(mesh, e[1])
  /\ mesh.link[e] # NoEdge => v # Opposite(mesh, mesh.link[e])
  /\ Becomes(Split(mesh, e, v, FirstNew(mesh), SecondNew(mesh)))

CutPoly(p, v) ==
  /\ Cardinality(NewPolys(mesh)) >= 2
  /\ p \in PolysOf(mesh)
  /\ v \in mesh.verts \ VertSet(mesh, p)
  /\ Becomes(Cut(mesh, p, v, FirstNew(mesh), SecondNew(mesh)))

Remove2sidedAndDouble == Becomes(WithoutPolys(mesh, RemovedBy2sided(mesh)))

RemoveInverted ==
  \E m \in WithComputedLinks(mesh) : \E ps \in LinkedParts(m) : Becomes(WithoutPolys(m, ps))

----------------------------------------------------------------------------
(* cap_hole() *)

WalkFrom(e, all) ==
  [name |-> "walk", first |-> e, at |-> e, perimeter |-> <<>>, open |-> Open(mesh), all |-> all]

\* It is called on an open edge.  Bound: there are handles for the new polygons.
CapBegin(e) ==
  /\ e \in Open(mesh)
  /\ Cardinality(Open(mesh)) - 2 <= Cardinality(NewPolys(mesh))
  /\ task' = WalkFrom(e, FALSE)
  /\ UNCHANGED mesh

\* cap_holes() begins with the first open edge, and goes on with the next one.
CapHoles ==
  /\ Open(mesh) # {}
  /\ Cardinality(Open(mesh)) - 2 <= Cardinality(NewPolys(mesh))
  /\ task' = WalkFrom(FirstOf(Open(mesh)), TRUE)
  /\ UNCHANGED mesh

\* Around a vertex, as long as there is a polygon on the other side.
WalkAround ==
  /\ task # NoTask /\ task.name = "walk"
  /\ mesh.link[Turn(task.at, 1)] # NoEdge
  /\ task' = [task EXCEPT !.at = mesh.link[Turn(@, 1)]]
  /\ UNCHANGED <<mesh, calls>>

\* Mutant: the walk ends before the edge that it began with.
WalkAlongShort ==
  /\ task # NoTask /\ task.name = "walk"
  /\ LET e == Turn(task.at, 1)
     IN  /\ mesh.link[e] = NoEdge
         /\ task' = [task EXCEPT
              !.at = e,
              !.perimeter = IF e = task.first /\ Len(@) > 2 THEN @ ELSE Append(@, e),
              !.name = IF e = task.first THEN "fill" ELSE "walk"]
  /\ UNCHANGED <<mesh, calls>>

\* The next edge of the perimeter, until the walk is back.
WalkAlong ==
  /\ task # NoTask /\ task.name = "walk"
  /\ LET e == Turn(task.at, 1)
     IN  /\ mesh.link[e] = NoEdge
         /\ task' = [task EXCEPT !.at = e,
                                 !.perimeter = Append(@, e),
                                 !.name = IF e = task.first THEN "fill" ELSE "walk"]
  /\ UNCHANGED <<mesh, calls>>

\* A polygon over the candidate with the best score: an edge and the next one.
Fill(i) ==
  /\ task # NoTask /\ task.name = "fill"
  /\ LET n == Len(task.perimeter)
         j == (i % n) + 1
         curr == task.perimeter[i]
         next == task.perimeter[j]
         p == FirstNew(mesh)
         m1 == WithPoly(mesh, p, <<From(mesh, curr), To(mesh, next), To(mesh, curr)>>)
     IN  /\ n >= 3 /\ i <= n
         /\ mesh' = Require(Link(Link(m1, curr, <<p, 2>>), next, <<p, 1>>),
                            To(mesh, curr) = From(mesh, next))
         /\ task' = [task EXCEPT !.perimeter = RemoveAt([@ EXCEPT ![i] = <<p, 0>>], j)]
         /\ UNCHANGED calls

\* The last two edges are each other's.
CloseCap ==
  /\ task # NoTask /\ task.name = "fill"
  /\ Len(task.perimeter) = 2
  /\ mesh' = Link(mesh, task.perimeter[1], task.perimeter[2])
  /\ task' = LET left == Open(mesh) \ ToSet(task.perimeter)
             IN  IF task.all /\ left # {}
                   THEN [WalkFrom(FirstOf(left), TRUE) EXCEPT !.open = left]
                   ELSE NoTask
  /\ UNCHANGED calls

----------------------------------------------------------------------------
(* clean_flat_surfaces_on_edges() *)

CleanBegin ==
  /\ IsSolid(mesh, CleansOpen)
  /\ task' = [name |-> "clean", poly |-> 0, change |-> FALSE]
  /\ UNCHANGED mesh

\* The neighbours across two edges become each other's.
Join(m, e, f, skip) ==
  LET x == m.link[e]
      y == m.link[f]
  IN  IF x = NoEdge \/ y = NoEdge \/ skip THEN m ELSE Link(Unlink(Unlink(m, x), y), x, y)

\* Mutant: only one pair of sides is joined.
FlattenedHalf(m, ab) ==
  LET ba == m.link[ab]
      m1 == Join(m, Turn(ab, 1), Turn(ba, 2), m.link[Turn(ab, 1)][1] = ba[1])
  IN  WithoutPoly(WithoutPoly(m1, ab[1], FALSE, TRUE), ba[1], FALSE, TRUE)

\* The two polygons of ab, which have the same opposite vertex, are taken out.
Flattened(m, ab) ==
  LET ba == m.link[ab]
      m1 == Join(m, Turn(ab, 1), Turn(ba, 2), m.link[Turn(ab, 1)][1] = ba[1])
      m2 == Join(m1, Turn(ab, 2), Turn(ba, 1), m1.link[Turn(ba, 1)][1] = ab[1])
  IN  WithoutPoly(WithoutPoly(m2, ab[1], FALSE, TRUE), ba[1], FALSE, TRUE)

FlatEdges(m, p) ==
  {e \in {p} \X (0 .. 2) :
     m.link[e] # NoEdge /\ Opposite(m, m.link[e]) = Opposite(m, e)}

FlatEdgesOf(p) == IF p \in PolysOf(mesh) THEN FlatEdges(mesh, p) ELSE {}

\* Mutant: a polygon without flat edges is looked at again.
CleanNextStaying ==
  /\ task # NoTask /\ task.name = "clean" /\ task.poly \in Polys
  /\ task' = [task EXCEPT !.poly = IF FlatEdgesOf(task.poly) = {} THEN @ ELSE @ + 1]
  /\ UNCHANGED calls

\* The next polygon of a pass.
CleanNext ==
  /\ task # NoTask /\ task.name = "clean" /\ task.poly \in Polys
  /\ task' = [task EXCEPT !.poly = @ + 1, !.change = @ \/ FlatEdgesOf(task.poly) # {}]
  /\ UNCHANGED calls

\* The first of its edges that is flat.
CleanPoly ==
  /\ CleanNext
  /\ LET flat == FlatEdgesOf(task.poly)
     IN  mesh' = IF flat = {} THEN mesh
                   ELSE Flattened(mesh, CHOOSE e \in flat : \A f \in flat : e[2] <= f[2])

\* A pass that changed something is followed by another one.
NextPass ==
  /\ task # NoTask /\ task.name \in {"clean", "collapse"} /\ task.poly \notin Polys
  /\ task' = IF task.change THEN [task EXCEPT !.poly = 0, !.change = FALSE] ELSE NoTask
  /\ UNCHANGED <<mesh, calls>>

----------------------------------------------------------------------------
(* fast_collapse_edges() *)

\* It asserts that no edge goes from a vertex to itself.
CollapseBegin ==
  /\ ~HasDegeneratePolys(mesh)
  /\ task' = [name |-> "collapse", poly |-> 0, change |-> FALSE]
  /\ UNCHANGED mesh

CollapseNext ==
  /\ task # NoTask /\ task.name = "collapse" /\ task.poly \in Polys
  /\ \E change \in {task.change, TRUE} :
       task' = [task EXCEPT !.poly = @ + 1, !.change = change]
  /\ UNCHANGED calls

\* No edge of the next polygon is short, or the ends of one that is are merged.
CollapsePoly ==
  /\ CollapseNext
  /\ \/ task'.change = task.change /\ UNCHANGED mesh
     \/ /\ task'.change /\ task.poly \in PolysOf(mesh)
        /\ \E i \in 0 .. 2 :
             LET e == <<task.poly, i>>
             IN  \E m \in Merged(mesh, From(mesh, e), To(mesh, e)) : mesh' = m

----------------------------------------------------------------------------
MeshInit ==
  /\ \E s \in Samples : /\ mesh \in WithComputedLinks(Appended(EmptyMesh, s.triangles))
                        /\ calls = s.calls
  /\ task = NoTask

CapStep ==
  \/ WalkAround
  \/ WalkAlong
  \/ \E i \in 1 .. 3 * Cardinality(Polys) : Fill(i)
  \/ CloseCap

TaskStep == CapStep \/ CleanPoly \/ CollapsePoly \/ NextPass

ClientCall ==
  \/ AddVert
  \/ \E v \in Verts : EraseVert(v)
  \/ \E a, b, c \in Verts : AddPoly(a, b, c)
  \/ \E p \in Polys : ErasePoly(p)
  \/ EraseIsolatedVerts
  \/ Compact
  \/ ComputeEdgeLinks
  \/ InvertPolys
  \/ \E a, b \in Verts : MergeVerts(a, b)
  \/ \E e \in Ends, v \in Verts : SplitEdge(e, v)
  \/ \E p \in Polys, v \in Verts : CutPoly(p, v)
  \/ Remove2sidedAndDouble
  \/ RemoveInverted
  \/ \E e \in Ends : CapBegin(e)
  \/ CapHoles
  \/ CleanBegin
  \/ CollapseBegin

MeshNext ==
  \/ task = NoTask /\ calls > 0 /\ calls' = calls - 1 /\ ClientCall
  \/ TaskStep

\* An algorithm that has begun goes on; the client need not call anything.  (A
\* step of MeshNext that is one of CleanNext or CollapseNext is one of CleanPoly or
\* CollapsePoly.)
MeshSpec ==
  /\ MeshInit /\ [][MeshNext]_meshVars
  /\ WF_meshVars(CapStep) /\ WF_task(CleanNext) /\ WF_task(CollapseNext)
  /\ WF_meshVars(NextPass)

----------------------------------------------------------------------------
(* Properties *)

\* Two edges are linked to each other or not at all, and run between the same
\* vertices in opposite directions; no assertion of link(), unlink(),
\* change_vert() or erase() ever fails.
LinksJoin ==
  /\ mesh.ok
  /\ \A e \in EndsOf(mesh) :
       mesh.link[e] # NoEdge =>
         /\ mesh.link[e] \in EndsOf(mesh)
         /\ mesh.link[mesh.link[e]] = e
         /\ From(mesh, mesh.link[e]) = To(mesh, e)
         /\ To(mesh, mesh.link[e]) = From(mesh, e)

\* A vertex is linked to exactly the corners that name it, and every corner
\* names a vertex of the mesh.
PolyLinksExact ==
  /\ \A v \in Verts : mesh.poly_links[v] = {c \in EndsOf(mesh) : Vert(mesh, c) = v}
  /\ \A c \in EndsOf(mesh) : Vert(mesh, c) \in mesh.verts

\* How often the polygons of m run from v to w, less how often back: zero for
\* every pair of vertices if the surface is closed.
Flow(m) ==
  [e \in Verts \X Verts |->
     Cardinality({x \in EndsOf(m) : From(m, x) = e[1] /\ To(m, x) = e[2]})
     - Cardinality({x \in EndsOf(m) : From(m, x) = e[2] /\ To(m, x) = e[1]})]

\* The boundary of the surface stays as it is when a polygon is cut, an edge
\* inside of it is split, or its flat parts are taken out.
BoundaryKept ==
  [][(\/ task = NoTask /\ \E p \in Polys, v \in Verts : CutPoly(p, v)
      \/ task = NoTask /\ \E e \in Ends \ Open(mesh), v \in Verts : SplitEdge(e, v)
      \/ CleanPoly)
     => Flow(mesh') = Flow(mesh)]_meshVars

\* Capping a hole closes that hole and opens no other; cap_holes() leaves none.
CapClosesHole ==
  [][CloseCap => /\ Open(mesh') \subseteq task.open \ {task.first}
                 /\ task.all /\ task' = NoTask => Open(mesh') = {}]_meshVars

\* Every algorithm ends: the walk around a hole comes back to where it began.
TaskEnds == (task # NoTask) ~> (task = NoTask)
==========================================================================
