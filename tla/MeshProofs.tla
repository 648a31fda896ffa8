---------------------------- MODULE MeshProofs ----------------------------
(***************************************************************************)
(* Theorems about Mesh for any number of vertices and polygons and any     *)
(* meshes to begin with, and about the Union_Find whose sets its           *)
(* remove_inverted() merges, for any number of nodes.                      *)
(*                                                                         *)
(* Mesh: the operations are followed one by one.  A mesh is whole if its   *)
(* vertices know their corners and its links are mutual, and sound if the  *)
(* links also join the same vertices.  In between, while a corner has moved*)
(* and its edges' links have not, the ends of the edges are as some other  *)
(* functions say; JoinedBy() is about those.                               *)
(*                                                                         *)
(* Union_Find: the lemmas are about any function p of parents on any set N *)
(* of nodes, so that they apply to the parents before and after a step.    *)
(***************************************************************************)
EXTENDS Mesh, UnionFind, FiniteSetTheorems, SequenceTheorems, TLAPS

\* A record with the fields of a mesh, and with which.
Has(n, verts, corners, link, poly_links) ==
  n = [verts |-> verts, corners |-> corners, link |-> link, poly_links |-> poly_links, ok |-> n.ok]

IsMesh(n) == Has(n, n.verts, n.corners, n.link, n.poly_links)

\* What a mesh with these fields has in them.
LEMMA Fields ==
  ASSUME NEW n, NEW verts, NEW corners, NEW link, NEW poly_links,
         Has(n, verts, corners, link, poly_links)
  PROVE  /\ n.verts = verts /\ n.corners = corners /\ n.link = link /\ n.poly_links = poly_links
         /\ IsMesh(n)
BY DEF Has, IsMesh

\* One field of a mesh is replaced, and the others stay.
LEMMA SetVerts ==
  ASSUME NEW m, IsMesh(m), NEW x
  PROVE  Has([m EXCEPT !.verts = x], x, m.corners, m.link, m.poly_links)
         /\ [m EXCEPT !.verts = x].ok = m.ok
BY Z3 DEF IsMesh, Has

\* The same of the corners.
LEMMA SetCorners ==
  ASSUME NEW m, IsMesh(m), NEW x
  PROVE  Has([m EXCEPT !.corners = x], m.verts, x, m.link, m.poly_links)
         /\ [m EXCEPT !.corners = x].ok = m.ok
BY Z3 DEF IsMesh, Has

\* The same of the links between edges.
LEMMA SetLink ==
  ASSUME NEW m, IsMesh(m), NEW x
  PROVE  Has([m EXCEPT !.link = x], m.verts, m.corners, x, m.poly_links)
         /\ [m EXCEPT !.link = x].ok = m.ok
BY Z3 DEF IsMesh, Has

\* The same of the corners that the vertices are linked to.
LEMMA SetPolyLinks ==
  ASSUME NEW m, IsMesh(m), NEW x
  PROVE  Has([m EXCEPT !.poly_links = x], m.verts, m.corners, m.link, x)
         /\ [m EXCEPT !.poly_links = x].ok = m.ok
BY Z3 DEF IsMesh, Has

\* The same of what says that no assertion failed.
LEMMA SetOk ==
  ASSUME NEW m, IsMesh(m), NEW x
  PROVE  Has([m EXCEPT !.ok = x], m.verts, m.corners, m.link, m.poly_links)
         /\ [m EXCEPT !.ok = x].ok = x
BY Z3 DEF IsMesh, Has

\* An assertion that holds changes nothing.
LEMMA RequireIs ==
  ASSUME NEW m, IsMesh(m), NEW x, x \in BOOLEAN
  PROVE  /\ Has(Require(m, x), m.verts, m.corners, m.link, m.poly_links)
         /\ m.ok /\ x => Require(m, x).ok
<1>1. Require(m, x) = [m EXCEPT !.ok = m.ok /\ x]
  BY DEF Require
<1>2. [m EXCEPT !.ok = m.ok /\ x].ok = (m.ok /\ x)
  BY Zenon, SetOk
<1>3. Has([m EXCEPT !.ok = m.ok /\ x], m.verts, m.corners, m.link, m.poly_links)
  BY SetOk, Zenon
<1> QED BY Zenon, <1>1, <1>2, <1>3

\* What link() makes of the fields of a mesh.
LEMMA LinkIs ==
  ASSUME NEW m, IsMesh(m), NEW e, NEW o
  PROVE  /\ Has(Link(m, e, o), m.verts, m.corners, [m.link EXCEPT ![e] = o, ![o] = e],
                m.poly_links)
         /\ m.ok /\ m.link[e] = NoEdge /\ m.link[o] = NoEdge => Link(m, e, o).ok
<1> DEFINE l == [m.link EXCEPT ![e] = o, ![o] = e]
           n == [m EXCEPT !.link = l]
           x == m.link[e] = NoEdge /\ m.link[o] = NoEdge
<1>1. Link(m, e, o) = Require(n, x)
  BY DEF Link
<1>3. x \in BOOLEAN
  OBVIOUS
<1> HIDE DEF l, x
<1>2. Has(n, m.verts, m.corners, l, m.poly_links) /\ n.ok = m.ok
  BY SetLink, Zenon
<1> HIDE DEF n
<1>4. /\ n.verts = m.verts /\ n.corners = m.corners /\ n.link = l
      /\ n.poly_links = m.poly_links /\ IsMesh(n)
  BY <1>2, Fields, Zenon
<1>5. /\ Has(Require(n, x), n.verts, n.corners, n.link, n.poly_links)
      /\ n.ok /\ x => Require(n, x).ok
  BY <1>3, <1>4, RequireIs, Zenon
<1>6. Has(Link(m, e, o), m.verts, m.corners, l, m.poly_links) /\ (m.ok /\ x => Link(m, e, o).ok)
  BY <1>1, <1>2, <1>4, <1>5, Zenon
<1> QED BY <1>6 DEF l, x

\* What unlink() makes of them.
LEMMA UnlinkIs ==
  ASSUME NEW m, IsMesh(m), NEW e, m.link[e] # NoEdge, m.link[m.link[e]] = e
  PROVE  /\ Has(Unlink(m, e), m.verts, m.corners,
                [m.link EXCEPT ![e] = NoEdge, ![m.link[e]] = NoEdge], m.poly_links)
         /\ Unlink(m, e).ok = m.ok
<1> DEFINE l == [m.link EXCEPT ![e] = NoEdge, ![m.link[e]] = NoEdge]
           n == [m EXCEPT !.link = l]
<1>1. Unlink(m, e) = n
  BY DEF Unlink
<1> HIDE DEF l
<1>2. Has(n, m.verts, m.corners, l, m.poly_links) /\ n.ok = m.ok
  BY SetLink, Zenon
<1> HIDE DEF n
<1>3. Has(Unlink(m, e), m.verts, m.corners, l, m.poly_links) /\ Unlink(m, e).ok = m.ok
  BY <1>1, <1>2, Zenon
<1> QED BY <1>3 DEF l

\* What change_vert() makes of them.
LEMMA ChangeVertIs ==
  ASSUME NEW m, IsMesh(m), NEW c, NEW v
  PROVE  /\ Has(ChangeVert(m, c, v), m.verts,
                [m.corners EXCEPT ![c[1]] = [m.corners[c[1]] EXCEPT ![c[2]] = v]],
                m.link,
                [[m.poly_links EXCEPT ![Vert(m, c)] = m.poly_links[Vert(m, c)] \ {c}]
                   EXCEPT ![v] = @ \cup {c}])
         /\ m.ok /\ v \in m.verts /\ c \in m.poly_links[Vert(m, c)] => ChangeVert(m, c, v).ok
<1> DEFINE p1 == [m.poly_links EXCEPT ![Vert(m, c)] = m.poly_links[Vert(m, c)] \ {c}]
           m1 == [m EXCEPT !.poly_links = p1]
           p2 == [m1.poly_links EXCEPT ![v] = m1.poly_links[v] \cup {c}]
           m2 == [m1 EXCEPT !.poly_links = p2]
           k == [m2.corners EXCEPT ![c[1]] = [m2.corners[c[1]] EXCEPT ![c[2]] = v]]
           m3 == [m2 EXCEPT !.corners = k]
           x == v \in m.verts /\ c \in m.poly_links[Vert(m, c)]
<1>1. ChangeVert(m, c, v) = Require(m3, x)
  <2>1. [m1 EXCEPT !.poly_links[v] = @ \cup {c}, !.corners[c[1]][c[2]] = v]
        = [[m1 EXCEPT !.poly_links[v] = @ \cup {c}] EXCEPT !.corners[c[1]][c[2]] = v]
    OBVIOUS
  <2>2. [m EXCEPT !.poly_links[Vert(m, c)] = @ \ {c}] = m1
    OBVIOUS
  <2>3. [m1 EXCEPT !.poly_links[v] = @ \cup {c}] = m2
    OBVIOUS
  <2>4. [m2 EXCEPT !.corners[c[1]][c[2]] = v] = m3
    OBVIOUS
  <2> QED BY <2>1, <2>2, <2>3, <2>4, Zenon DEF ChangeVert
<1>2. x \in BOOLEAN
  OBVIOUS
<1> HIDE DEF x
<1>3. Has(m1, m.verts, m.corners, m.link, p1) /\ m1.ok = m.ok
  <2> HIDE DEF p1
  <2> QED BY SetPolyLinks, Zenon
<1> HIDE DEF m1
<1>4. /\ m1.verts = m.verts /\ m1.corners = m.corners /\ m1.link = m.link /\ m1.poly_links = p1
      /\ IsMesh(m1)
  <2> HIDE DEF p1
  <2> QED BY <1>3, Fields, Zenon
<1>5. Has(m2, m1.verts, m1.corners, m1.link, p2) /\ m2.ok = m1.ok
  <2> HIDE DEF p2
  <2> QED BY <1>4, SetPolyLinks, Zenon
<1> HIDE DEF m2
<1>6. /\ m2.verts = m1.verts /\ m2.corners = m1.corners /\ m2.link = m1.link
      /\ m2.poly_links = p2 /\ IsMesh(m2)
  <2> HIDE DEF p2
  <2> QED BY <1>5, Fields, Zenon
<1>7. Has(m3, m2.verts, k, m2.link, m2.poly_links) /\ m3.ok = m2.ok
  <2> HIDE DEF k
  <2> QED BY <1>6, SetCorners, Zenon
<1> HIDE DEF m3
<1>8. /\ m3.verts = m2.verts /\ m3.corners = k /\ m3.link = m2.link
      /\ m3.poly_links = m2.poly_links /\ IsMesh(m3)
  <2> HIDE DEF k
  <2> QED BY <1>7, Fields, Zenon
<1>9. /\ Has(Require(m3, x), m3.verts, m3.corners, m3.link, m3.poly_links)
      /\ m3.ok /\ x => Require(m3, x).ok
  BY <1>2, <1>8, RequireIs, Zenon
<1>10. k = [m.corners EXCEPT ![c[1]] = [m.corners[c[1]] EXCEPT ![c[2]] = v]]
  BY <1>4, <1>6
<1>11. p2 = [p1 EXCEPT ![v] = @ \cup {c}]
  <2> HIDE DEF p1
  <2> QED BY <1>4
<1>12. m3.verts = m.verts /\ m3.link = m.link /\ m3.poly_links = p2 /\ m3.corners = k
       /\ m3.ok = m.ok
  <2> HIDE DEF k, p1, p2
  <2> QED BY <1>3, <1>4, <1>5, <1>6, <1>7, <1>8, Zenon
<1>13. Has(ChangeVert(m, c, v), m.verts, k, m.link, p2) /\ (m.ok /\ x => ChangeVert(m, c, v).ok)
  <2> HIDE DEF k, p1, p2
  <2> QED BY <1>1, <1>9, <1>12, Zenon
<1>14. Has(ChangeVert(m, c, v), m.verts,
           [m.corners EXCEPT ![c[1]] = [m.corners[c[1]] EXCEPT ![c[2]] = v]], m.link,
           [p1 EXCEPT ![v] = @ \cup {c}])
  <2> HIDE DEF k, p1, p2
  <2> QED BY <1>10, <1>11, <1>13
<1> QED BY <1>13, <1>14, Zenon DEF x, p1

\* What add() of a polygon makes of them.
LEMMA WithPolyIs ==
  ASSUME NEW m, IsMesh(m), NEW p, NEW t
  PROVE  /\ Has(WithPoly(m, p, t), m.verts,
                [m.corners EXCEPT ![p] = [i \in 0 .. 2 |-> t[i + 1]]], m.link,
                [v \in Verts |->
                   m.poly_links[v] \cup {<<p, i>> : i \in {j \in 0 .. 2 : t[j + 1] = v}}])
         /\ WithPoly(m, p, t).ok = m.ok
<1> DEFINE k == [m.corners EXCEPT ![p] = [i \in 0 .. 2 |-> t[i + 1]]]
           m1 == [m EXCEPT !.corners = k]
           l == [v \in Verts |->
                   m.poly_links[v] \cup {<<p, i>> : i \in {j \in 0 .. 2 : t[j + 1] = v}}]
           m2 == [m1 EXCEPT !.poly_links = l]
<1>1. WithPoly(m, p, t) = m2
  BY DEF WithPoly
<1> HIDE DEF k, l
<1>2. Has(m1, m.verts, k, m.link, m.poly_links) /\ m1.ok = m.ok
  BY SetCorners, Zenon
<1> HIDE DEF m1
<1>3. /\ m1.verts = m.verts /\ m1.corners = k /\ m1.link = m.link /\ IsMesh(m1)
  BY <1>2, Fields, Zenon
<1>4. Has(m2, m1.verts, m1.corners, m1.link, l) /\ m2.ok = m1.ok
  BY <1>3, SetPolyLinks, Zenon
<1> HIDE DEF m2
<1>5. Has(WithPoly(m, p, t), m.verts, k, m.link, l) /\ WithPoly(m, p, t).ok = m.ok
  BY <1>1, <1>2, <1>3, <1>4, Zenon
<1> QED BY <1>5 DEF k, l

\* What erase() of a polygon leaves of the links, and of the vertices.
OwnOf(p) == {p} \X (0 .. 2)
LinkedBy(m, p) == {m.link[e] : e \in OwnOf(p)} \ {NoEdge}
PolyLinksLeft(m, p) == [v \in Verts |-> m.poly_links[v] \ OwnOf(p)]
IsolatedBy(m, p) == {v \in m.verts : PolyLinksLeft(m, p)[v] = {} /\ m.poly_links[v] # {}}
VertsLeft(m, p, i) == IF i THEN m.verts \ IsolatedBy(m, p) ELSE m.verts
LinkLeft(m, p, u) ==
  [e \in Ends |-> IF e \in OwnOf(p) \cup (IF u THEN LinkedBy(m, p) ELSE {}) THEN NoEdge
                                                                    ELSE m.link[e]]
MayErase(m, p, u) ==
  /\ \A e \in OwnOf(p) : e \in m.poly_links[Vert(m, e)]
  /\ u => LinkedBy(m, p) \subseteq EndsOf(m)

\* What erase() of a polygon makes of them.
LEMMA WithoutPolyIs ==
  ASSUME NEW m, IsMesh(m), NEW p, NEW u \in BOOLEAN, NEW i \in BOOLEAN
  PROVE  /\ Has(WithoutPoly(m, p, u, i), VertsLeft(m, p, i), [m.corners EXCEPT ![p] = NoVerts],
                LinkLeft(m, p, u), PolyLinksLeft(m, p))
         /\ m.ok /\ MayErase(m, p, u) => WithoutPoly(m, p, u, i).ok
<1> DEFINE left == PolyLinksLeft(m, p)
           k == [m.corners EXCEPT ![p] = NoVerts]
           l == LinkLeft(m, p, u)
           vs == VertsLeft(m, p, i)
           x == MayErase(m, p, u)
           m1 == [m EXCEPT !.corners = k]
           m2 == [m1 EXCEPT !.link = l]
           m3 == [m2 EXCEPT !.poly_links = left]
           m4 == [m3 EXCEPT !.verts = vs]
           m5 == [m4 EXCEPT !.ok = m.ok /\ x]
<1>1. WithoutPoly(m, p, u, i) = m5
  BY DEF WithoutPoly, OwnOf, LinkedBy, PolyLinksLeft, IsolatedBy, VertsLeft, LinkLeft, MayErase
<1>2. x \in BOOLEAN
  BY DEF MayErase
<1> HIDE DEF x, vs, left, l, k
<1>3. Has(m1, m.verts, k, m.link, m.poly_links) /\ m1.ok = m.ok
  BY SetCorners, Zenon
<1> HIDE DEF m1
<1>4. /\ m1.verts = m.verts /\ m1.corners = k /\ m1.poly_links = m.poly_links /\ IsMesh(m1)
  BY <1>3, Fields, Zenon
<1>5. Has(m2, m1.verts, m1.corners, l, m1.poly_links) /\ m2.ok = m1.ok
  BY <1>4, SetLink, Zenon
<1> HIDE DEF m2
<1>6. /\ m2.verts = m.verts /\ m2.corners = k /\ m2.link = l /\ IsMesh(m2)
  <2>1. /\ m2.verts = m1.verts /\ m2.corners = m1.corners /\ m2.link = l /\ IsMesh(m2)
    BY <1>5, Fields, Zenon
  <2> QED BY <1>4, <2>1, Zenon
<1>7. Has(m3, m2.verts, m2.corners, m2.link, left) /\ m3.ok = m2.ok
  BY <1>6, SetPolyLinks, Zenon
<1> HIDE DEF m3
<1>8. /\ m3.corners = k /\ m3.link = l /\ m3.poly_links = left /\ IsMesh(m3)
  <2>1. /\ m3.corners = m2.corners /\ m3.link = m2.link /\ m3.poly_links = left /\ IsMesh(m3)
    BY <1>7, Fields, Zenon
  <2> QED BY <1>6, <2>1, Zenon
<1>9. Has(m4, vs, m3.corners, m3.link, m3.poly_links) /\ m4.ok = m3.ok
  BY <1>8, SetVerts, Zenon
<1> HIDE DEF m4
<1>10. /\ m4.verts = vs /\ m4.corners = k /\ m4.link = l /\ m4.poly_links = left /\ IsMesh(m4)
  <2>1. /\ m4.verts = vs /\ m4.corners = m3.corners /\ m4.link = m3.link
        /\ m4.poly_links = m3.poly_links /\ IsMesh(m4)
    BY <1>9, Fields, Zenon
  <2> QED BY <1>8, <2>1, Zenon
<1>11. Has(m5, m4.verts, m4.corners, m4.link, m4.poly_links) /\ m5.ok = (m.ok /\ x)
  <2> DEFINE y == m.ok /\ x
             n == [m4 EXCEPT !.ok = y]
  <2>1. m5 = n
    BY Zenon
  <2> HIDE DEF y
  <2>2. Has(n, m4.verts, m4.corners, m4.link, m4.poly_links) /\ n.ok = y
    BY <1>10, SetOk, Zenon
  <2> HIDE DEF n
  <2> QED BY <2>1, <2>2, Zenon DEF y
<1> HIDE DEF m5
<1>12. /\ Has(WithoutPoly(m, p, u, i), vs, k, l, left)
       /\ m.ok /\ x => WithoutPoly(m, p, u, i).ok
  BY <1>1, <1>10, <1>11, Zenon
<1> QED BY <1>12, Zenon DEF x, vs, left, k, l

\* A vertex is linked to exactly the corners that name it, all of which name
\* vertices of the mesh.
Surface(m) ==
  /\ IsMesh(m)
  /\ m.verts \subseteq Verts
  /\ m.corners \in [Polys -> Corners \cup {NoVerts}]
  /\ m.poly_links \in [Verts -> SUBSET Ends]
  /\ \A v \in Verts : m.poly_links[v] = {c \in EndsOf(m) : Vert(m, c) = v}
  /\ \A c \in EndsOf(m) : Vert(m, c) \in m.verts

\* Edges are linked to each other, and to no edge of a polygon that is gone.
Mutual(m) ==
  /\ m.ok
  /\ m.link \in [Ends -> Ends \cup {NoEdge}]
  /\ \A e \in Ends :
       m.link[e] # NoEdge =>
         /\ e \in EndsOf(m) /\ m.link[e] \in EndsOf(m)
         /\ m.link[e] # e /\ m.link[m.link[e]] = e

Whole(m) == Surface(m) /\ Mutual(m)

\* Mutual edges run in opposite directions, if from and to say how they run.
JoinedBy(m, from, to) == \A e \in Ends : m.link[e] # NoEdge => from[m.link[e]] = to[e]

Froms(m) == [e \in Ends |-> From(m, e)]
Tos(m) == [e \in Ends |-> To(m, e)]
Joins(m) == JoinedBy(m, Froms(m), Tos(m))

Others(n, m) == n.verts = m.verts /\ n.corners = m.corners /\ n.poly_links = m.poly_links

----------------------------------------------------------------------------
\* The three edges of a polygon.
LEMMA EndsAre ==
  ASSUME NEW e \in Ends
  PROVE  /\ e[1] \in Polys /\ e[2] \in {0, 1, 2} /\ e = <<e[1], e[2]>>
         /\ Turn(e, 1) = <<e[1], IF e[2] = 0 THEN 1 ELSE IF e[2] = 1 THEN 2 ELSE 0>>
         /\ Turn(e, 2) = <<e[1], IF e[2] = 0 THEN 2 ELSE IF e[2] = 1 THEN 0 ELSE 1>>
<1>1. e[1] \in Polys /\ e[2] \in 0 .. 2 /\ e = <<e[1], e[2]>>
  BY DEF Ends
<1>2. 0 .. 2 = {0, 1, 2}
  OBVIOUS
<1>3. /\ (0 + 1) % 3 = 1 /\ (1 + 1) % 3 = 2 /\ (2 + 1) % 3 = 0
      /\ (0 + 2) % 3 = 2 /\ (1 + 2) % 3 = 0 /\ (2 + 2) % 3 = 1
  OBVIOUS
<1> QED BY <1>1, <1>2, <1>3 DEF Turn

\* The three edges of a polygon, from one to the next.
LEMMA TurnsAre ==
  ASSUME NEW e \in Ends
  PROVE  /\ Turn(e, 1) \in Ends /\ Turn(e, 2) \in Ends
         /\ Turn(e, 1) # e /\ Turn(e, 2) # e /\ Turn(e, 1) # Turn(e, 2)
         /\ Turn(e, 1)[1] = e[1] /\ Turn(e, 2)[1] = e[1]
         /\ Turn(Turn(e, 1), 1) = Turn(e, 2) /\ Turn(Turn(e, 1), 2) = e
         /\ Turn(Turn(e, 2), 1) = e /\ Turn(Turn(e, 2), 2) = Turn(e, 1)
         /\ \A x \in Ends : x[1] = e[1] <=> x \in {e, Turn(e, 1), Turn(e, 2)}
<1>0. 0 .. 2 = {0, 1, 2}
  OBVIOUS
<1>1. \A x \in Ends : x[1] \in Polys /\ x[2] \in {0, 1, 2} /\ x = <<x[1], x[2]>>
  BY EndsAre
<1>2. \A p \in Polys, i \in {0, 1, 2} : <<p, i>> \in Ends /\ <<p, i>>[1] = p /\ <<p, i>>[2] = i
  BY <1>0 DEF Ends
<1>3. Turn(e, 1) \in Ends /\ Turn(e, 2) \in Ends
  BY <1>1, <1>2, EndsAre
<1>4. /\ Turn(e, 1)[1] = e[1] /\ Turn(e, 2)[1] = e[1]
      /\ Turn(e, 1)[2] = (IF e[2] = 0 THEN 1 ELSE IF e[2] = 1 THEN 2 ELSE 0)
      /\ Turn(e, 2)[2] = (IF e[2] = 0 THEN 2 ELSE IF e[2] = 1 THEN 0 ELSE 1)
  BY EndsAre
<1>5. Turn(e, 1) # e /\ Turn(e, 2) # e /\ Turn(e, 1) # Turn(e, 2)
  BY <1>1, <1>4
<1>6. \A x \in Ends :
        /\ Turn(x, 1) = <<x[1], IF x[2] = 0 THEN 1 ELSE IF x[2] = 1 THEN 2 ELSE 0>>
        /\ Turn(x, 2) = <<x[1], IF x[2] = 0 THEN 2 ELSE IF x[2] = 1 THEN 0 ELSE 1>>
  BY EndsAre
<1>7. /\ Turn(Turn(e, 1), 1) = Turn(e, 2) /\ Turn(Turn(e, 1), 2) = e
      /\ Turn(Turn(e, 2), 1) = e /\ Turn(Turn(e, 2), 2) = Turn(e, 1)
  BY <1>1, <1>3, <1>4, <1>6
<1>8. \A x \in Ends : x[1] = e[1] <=> x \in {e, Turn(e, 1), Turn(e, 2)}
  BY <1>1, <1>3, <1>4
<1> QED BY <1>3, <1>4, <1>5, <1>7, <1>8

\* The edges of a mesh are all edges of its polygons.
LEMMA EndsOfAre ==
  ASSUME NEW m
  PROVE  /\ EndsOf(m) \subseteq Ends
         /\ \A e \in Ends : e \in EndsOf(m) <=> m.corners[e[1]] # NoVerts
         /\ \A e \in EndsOf(m) : Turn(e, 1) \in EndsOf(m) /\ Turn(e, 2) \in EndsOf(m)
<1>1. EndsOf(m) \subseteq Ends /\ \A e \in Ends : e \in EndsOf(m) <=> m.corners[e[1]] # NoVerts
  BY DEF EndsOf, PolysOf, Ends
<1>2. \A e \in EndsOf(m) : /\ Turn(e, 1) \in Ends /\ Turn(e, 1)[1] = e[1]
                          /\ Turn(e, 2) \in Ends /\ Turn(e, 2)[1] = e[1]
  BY <1>1, TurnsAre
<1> QED BY <1>1, <1>2

\* The corners of a polygon are vertices of the mesh.
LEMMA SurfaceHas ==
  ASSUME NEW m, Surface(m), NEW e \in EndsOf(m)
  PROVE  /\ e \in Ends /\ Turn(e, 1) \in EndsOf(m) /\ Turn(e, 2) \in EndsOf(m)
         /\ {From(m, e), To(m, e), Opposite(m, e)} \subseteq m.verts \cap Verts
         /\ From(m, e) = Vert(m, e) /\ To(m, e) = Vert(m, Turn(e, 1))
         /\ Opposite(m, e) = Vert(m, Turn(e, 2))
         /\ m.corners[e[1]] \in Corners
BY EndsOfAre DEF Surface, From, To, Opposite, Ends

\* A surface is its vertices, corners and links to them.
LEMMA SurfaceKept ==
  ASSUME NEW m, Surface(m), NEW n, IsMesh(n), Others(n, m)
  PROVE  /\ Surface(n) /\ PolysOf(n) = PolysOf(m) /\ EndsOf(n) = EndsOf(m)
         /\ NewPolys(n) = NewPolys(m)
         /\ \A e : Vert(n, e) = Vert(m, e)
         /\ Froms(n) = Froms(m) /\ Tos(n) = Tos(m)
BY DEF Surface, Others, PolysOf, EndsOf, NewPolys, Vert, From, To, Froms, Tos

----------------------------------------------------------------------------
----------------------------------------------------------------------------
(* link() and unlink() *)

\* link() of two open edges leaves a whole mesh.
LEMMA LinkKeeps ==
  ASSUME NEW m, Whole(m), NEW e \in EndsOf(m), NEW o \in EndsOf(m), e # o,
         m.link[e] = NoEdge, m.link[o] = NoEdge
  PROVE  LET n == Link(m, e, o)
         IN  /\ Whole(n) /\ Others(n, m)
             /\ n.link[e] = o /\ n.link[o] = e
             /\ \A x \in Ends \ {e, o} : n.link[x] = m.link[x]
<1> DEFINE n == Link(m, e, o)
<1>1. IsMesh(m) /\ m.ok /\ m.link \in [Ends -> Ends \cup {NoEdge}]
  BY DEF Whole, Surface, Mutual
<1>2. e \in Ends /\ o \in Ends
  BY EndsOfAre
<1>3. Has(n, m.verts, m.corners, [m.link EXCEPT ![e] = o, ![o] = e], m.poly_links) /\ n.ok
  BY <1>1, LinkIs
<1> HIDE DEF n
<1>4. Others(n, m) /\ IsMesh(n) /\ n.link = [m.link EXCEPT ![e] = o, ![o] = e]
  BY <1>3, Fields DEF Others
<1>5. Surface(n) /\ EndsOf(n) = EndsOf(m)
  BY <1>4, SurfaceKept DEF Whole
<1>6. /\ n.link \in [Ends -> Ends \cup {NoEdge}]
      /\ n.link[e] = o /\ n.link[o] = e
      /\ \A x \in Ends \ {e, o} : n.link[x] = m.link[x]
  BY <1>1, <1>2, <1>4
<1>7. ASSUME NEW x \in Ends, n.link[x] # NoEdge
      PROVE  /\ x \in EndsOf(m) /\ n.link[x] \in EndsOf(m)
             /\ n.link[x] # x /\ n.link[n.link[x]] = x
  <2>1. CASE x \in {e, o}
    BY <1>6, <2>1
  <2>2. CASE x \notin {e, o}
    <3>1. /\ n.link[x] = m.link[x] /\ x \in EndsOf(m) /\ m.link[x] \in EndsOf(m)
          /\ m.link[x] # x /\ m.link[m.link[x]] = x
      BY <1>6, <1>7, <2>2 DEF Whole, Mutual
    <3>2. m.link[x] \notin {e, o}
      BY <3>1, NoneAssumption
    <3>3. m.link[x] \in Ends
      BY <3>1, EndsOfAre
    <3> QED BY <3>1, <3>2, <3>3, <1>6
  <2> QED BY <2>1, <2>2
<1>8. Mutual(n)
  BY <1>3, <1>5, <1>6, <1>7 DEF Mutual
<1> QED BY <1>4, <1>5, <1>6, <1>8 DEF Whole, n

\* unlink() of a linked edge leaves a whole mesh.
LEMMA UnlinkKeeps ==
  ASSUME NEW m, Whole(m), NEW e \in Ends, m.link[e] # NoEdge
  PROVE  LET n == Unlink(m, e)
         IN  /\ Whole(n) /\ Others(n, m)
             /\ n.link[e] = NoEdge /\ n.link[m.link[e]] = NoEdge
             /\ \A x \in Ends \ {e, m.link[e]} : n.link[x] = m.link[x]
<1> DEFINE n == Unlink(m, e)
           o == m.link[e]
<1>1. IsMesh(m) /\ m.ok /\ m.link \in [Ends -> Ends \cup {NoEdge}]
  BY DEF Whole, Surface, Mutual
<1>2. o \in EndsOf(m) /\ o \in Ends /\ o # e /\ m.link[o] = e
  BY EndsOfAre DEF Whole, Mutual
<1>3. Has(n, m.verts, m.corners, [m.link EXCEPT ![e] = NoEdge, ![o] = NoEdge], m.poly_links)
      /\ n.ok
  BY <1>1, <1>2, UnlinkIs
<1> HIDE DEF n, o
<1>4. Others(n, m) /\ IsMesh(n) /\ n.link = [m.link EXCEPT ![e] = NoEdge, ![o] = NoEdge]
  BY <1>3, Fields DEF Others
<1>5. Surface(n) /\ EndsOf(n) = EndsOf(m)
  BY <1>4, SurfaceKept DEF Whole
<1>6. /\ n.link \in [Ends -> Ends \cup {NoEdge}]
      /\ n.link[e] = NoEdge /\ n.link[o] = NoEdge
      /\ \A x \in Ends \ {e, o} : n.link[x] = m.link[x]
  BY <1>1, <1>2, <1>4
<1>7. ASSUME NEW x \in Ends, n.link[x] # NoEdge
      PROVE  /\ x \in EndsOf(m) /\ n.link[x] \in EndsOf(m)
             /\ n.link[x] # x /\ n.link[n.link[x]] = x
  <2>1. x \notin {e, o}
    BY <1>6, <1>7
  <2>2. /\ n.link[x] = m.link[x] /\ x \in EndsOf(m) /\ m.link[x] \in EndsOf(m)
        /\ m.link[x] # x /\ m.link[m.link[x]] = x
    BY <1>6, <1>7, <2>1 DEF Whole, Mutual
  <2>3. m.link[x] \notin {e, o}
    BY <2>1, <2>2, <1>2 DEF o
  <2>4. m.link[x] \in Ends
    BY <2>2, EndsOfAre
  <2> QED BY <2>2, <2>3, <2>4, <1>6
<1>8. Mutual(n)
  BY <1>3, <1>5, <1>6, <1>7 DEF Mutual
<1> QED BY <1>4, <1>5, <1>6, <1>8 DEF Whole, n, o

\* Mutual edges stay joined.
LEMMA LinkJoins ==
  ASSUME NEW m, Whole(m), NEW e \in EndsOf(m), NEW o \in EndsOf(m), e # o,
         m.link[e] = NoEdge, m.link[o] = NoEdge,
         NEW from, NEW to, JoinedBy(m, from, to), from[o] = to[e], from[e] = to[o]
  PROVE  JoinedBy(Link(m, e, o), from, to)
<1>1. e \in Ends /\ o \in Ends
  BY EndsOfAre
<1> QED BY <1>1, LinkKeeps DEF JoinedBy

\* unlink() leaves the links that join the same ends.
LEMMA UnlinkJoins ==
  ASSUME NEW m, Whole(m), NEW e \in Ends, m.link[e] # NoEdge,
         NEW from, NEW to, JoinedBy(m, from, to)
  PROVE  JoinedBy(Unlink(m, e), from, to)
BY UnlinkKeeps DEF JoinedBy

\* What m is with another vertex v at c.
Changed(n, m, c, v) ==
  /\ Surface(n) /\ n.link = m.link /\ n.verts = m.verts /\ (m.ok => n.ok)
  /\ PolysOf(n) = PolysOf(m) /\ EndsOf(n) = EndsOf(m)
  /\ Vert(n, c) = v
  /\ \A x \in Ends \ {c} : Vert(n, x) = Vert(m, x)

\* change_vert() of a corner.
LEMMA ChangeVertKeeps ==
  ASSUME NEW m, Surface(m), NEW c \in EndsOf(m), NEW v \in m.verts
  PROVE  Changed(ChangeVert(m, c, v), m, c, v)
<1> DEFINE n == ChangeVert(m, c, v)
           w == Vert(m, c)
           k == [m.corners EXCEPT ![c[1]] = [m.corners[c[1]] EXCEPT ![c[2]] = v]]
           p1 == [m.poly_links EXCEPT ![w] = m.poly_links[w] \ {c}]
           p2 == [p1 EXCEPT ![v] = @ \cup {c}]
<1>1. /\ c \in Ends /\ c[1] \in Polys /\ c[2] \in 0 .. 2 /\ m.corners[c[1]] \in Corners
      /\ w \in m.verts /\ w \in Verts /\ v \in Verts
  <2>1. c \in Ends /\ m.corners[c[1]] \in Corners
    BY SurfaceHas
  <2>2. c[1] \in Polys /\ c[2] \in 0 .. 2
    BY <2>1, EndsAre
  <2>3. w \in m.verts /\ w \in Verts /\ v \in Verts
    BY DEF Surface
  <2> QED BY <2>1, <2>2, <2>3
<1>2. c \in m.poly_links[w]
  BY <1>1 DEF Surface
<1>3. Has(n, m.verts, k, m.link, p2) /\ (m.ok => n.ok)
  BY <1>2, ChangeVertIs DEF Surface
<1> HIDE DEF n
<1>4. IsMesh(n) /\ n.verts = m.verts /\ n.corners = k /\ n.link = m.link /\ n.poly_links = p2
  <2> HIDE DEF k, p2
  <2> QED BY <1>3, Fields
<1>5. /\ k \in [Polys -> Corners \cup {NoVerts}]
      /\ \A q \in Polys : k[q] # NoVerts <=> m.corners[q] # NoVerts
      /\ k[c[1]] = [m.corners[c[1]] EXCEPT ![c[2]] = v]
      /\ \A q \in Polys \ {c[1]} : k[q] = m.corners[q]
  <2>1. m.corners \in [Polys -> Corners \cup {NoVerts}]
    BY DEF Surface
  <2>2. [m.corners[c[1]] EXCEPT ![c[2]] = v] \in Corners
    BY <1>1 DEF Corners
  <2> HIDE DEF w
  <2> QED BY <1>1, <2>1, <2>2, NoneAssumption
<1>6. PolysOf(n) = PolysOf(m) /\ EndsOf(n) = EndsOf(m)
  <2> HIDE DEF k
  <2> QED BY <1>4, <1>5 DEF PolysOf, EndsOf
<1>7. Vert(n, c) = v
  <2>1. [m.corners[c[1]] EXCEPT ![c[2]] = v][c[2]] = v
    BY <1>1 DEF Corners
  <2> HIDE DEF k
  <2> QED BY <1>1, <1>4, <1>5, <2>1 DEF Vert
<1>8. ASSUME NEW x \in Ends \ {c} PROVE Vert(n, x) = Vert(m, x)
  <2>1. x[1] \in Polys /\ (x[1] # c[1] \/ x[2] # c[2])
    BY <1>1, EndsAre
  <2>2. CASE x[1] # c[1]
    <3> HIDE DEF k
    <3> QED BY <2>1, <2>2, <1>4, <1>5 DEF Vert
  <2>3. CASE x[1] = c[1] /\ x[2] # c[2]
    <3>1. [m.corners[c[1]] EXCEPT ![c[2]] = v][x[2]] = m.corners[c[1]][x[2]]
      <4>1. x[2] \in 0 .. 2
        BY EndsAre
      <4> QED BY <1>1, <2>3, <4>1 DEF Corners
    <3> HIDE DEF k
    <3> QED BY <1>4, <1>5, <2>3, <3>1 DEF Vert
  <2> QED BY <2>1, <2>2, <2>3
<1>9. /\ p2 \in [Verts -> SUBSET Ends]
      /\ \A u \in Verts, x \in Ends :
           x \in p2[u] <=> (u = v /\ x = c) \/ (x \in m.poly_links[u] /\ (u # w \/ x # c))
  <2>1. m.poly_links \in [Verts -> SUBSET Ends]
    BY DEF Surface
  <2>2. /\ p1 \in [Verts -> SUBSET Ends]
        /\ \A u \in Verts, x \in Ends : x \in p1[u] <=> x \in m.poly_links[u] /\ (u # w \/ x # c)
    <3> HIDE DEF w
    <3> QED BY <1>1, <2>1
  <2> HIDE DEF p1
  <2>3. /\ p2 \in [Verts -> SUBSET Ends]
        /\ \A u \in Verts, x \in Ends : x \in p2[u] <=> x \in p1[u] \/ (u = v /\ x = c)
    BY <1>1, <2>2
  <2> HIDE DEF p2, w
  <2> QED BY <2>2, <2>3
<1>10. ASSUME NEW u \in Verts PROVE n.poly_links[u] = {x \in EndsOf(n) : Vert(n, x) = u}
  <2>1. \A x \in Ends : x \in m.poly_links[u] <=> x \in EndsOf(m) /\ Vert(m, x) = u
    BY EndsOfAre DEF Surface
  <2>2. n.poly_links[u] \subseteq Ends
    <3> HIDE DEF p2
    <3> QED BY <1>4, <1>9
  <2>3. ASSUME NEW x \in Ends PROVE x \in n.poly_links[u] <=> x \in EndsOf(n) /\ Vert(n, x) = u
    <3> HIDE DEF p2
    <3>1. CASE x = c
      BY <3>1, <2>1, <1>4, <1>6, <1>7, <1>9
    <3>2. CASE x # c
      BY <3>2, <2>1, <1>4, <1>6, <1>8, <1>9
    <3> QED BY <3>1, <3>2
  <2>4. EndsOf(n) \subseteq Ends
    BY EndsOfAre
  <2> QED BY <2>2, <2>3, <2>4
<1>11. \A x \in EndsOf(n) : Vert(n, x) \in n.verts
  BY <1>4, <1>6, <1>7, <1>8, EndsOfAre DEF Surface
<1>12. Surface(n)
  <2>1. n.verts \subseteq Verts
    BY <1>4 DEF Surface
  <2> HIDE DEF k, p2
  <2> QED BY <1>4, <1>5, <1>9, <1>10, <1>11, <2>1 DEF Surface
<1>13. Changed(n, m, c, v)
  BY <1>3, <1>4, <1>6, <1>7, <1>8, <1>12 DEF Changed
<1> QED BY <1>13 DEF n

\* What m is with a polygon p.
Added(n, m, p, t) ==
  /\ Surface(n) /\ n.link = m.link /\ n.verts = m.verts /\ n.ok = m.ok
  /\ p \in Polys /\ PolysOf(n) = PolysOf(m) \cup {p}
  /\ \A x \in Ends : x \in EndsOf(n) <=> x \in EndsOf(m) \/ x[1] = p
  /\ \A x \in Ends : x[1] # p => Vert(n, x) = Vert(m, x)
  /\ Vert(n, <<p, 0>>) = t[1] /\ Vert(n, <<p, 1>>) = t[2] /\ Vert(n, <<p, 2>>) = t[3]

\* polys().add().
LEMMA WithPolyKeeps ==
  ASSUME NEW m, Surface(m), NEW p \in NewPolys(m), NEW t,
         t[1] \in m.verts, t[2] \in m.verts, t[3] \in m.verts
  PROVE  Added(WithPoly(m, p, t), m, p, t)
<1> DEFINE n == WithPoly(m, p, t)
           f == [i \in 0 .. 2 |-> t[i + 1]]
           k == [m.corners EXCEPT ![p] = f]
           l == [v \in Verts |->
                   m.poly_links[v] \cup {<<p, i>> : i \in {j \in 0 .. 2 : t[j + 1] = v}}]
<1>1. p \in Polys /\ m.corners[p] = NoVerts
  BY DEF NewPolys, PolysOf
<1>2. Has(n, m.verts, k, m.link, l) /\ n.ok = m.ok
  BY WithPolyIs DEF Surface
<1> HIDE DEF n
<1>3. IsMesh(n) /\ n.verts = m.verts /\ n.corners = k /\ n.link = m.link /\ n.poly_links = l
  <2> HIDE DEF k, l
  <2> QED BY <1>2, Fields
<1>4. f \in Corners /\ f[0] = t[1] /\ f[1] = t[2] /\ f[2] = t[3]
  <2>1. {t[1], t[2], t[3]} \subseteq Verts
    BY DEF Surface
  <2>2. \A i \in 0 .. 2 : i + 1 \in {1, 2, 3}
    OBVIOUS
  <2>3. f[0] = t[0 + 1] /\ f[1] = t[1 + 1] /\ f[2] = t[2 + 1]
    OBVIOUS
  <2> QED BY <2>1, <2>2, <2>3 DEF Corners
<1> HIDE DEF f
<1>5. /\ k \in [Polys -> Corners \cup {NoVerts}]
      /\ k[p] = f /\ f # NoVerts /\ \A q \in Polys \ {p} : k[q] = m.corners[q]
  <2>1. m.corners \in [Polys -> Corners \cup {NoVerts}]
    BY DEF Surface
  <2> QED BY <1>1, <1>4, <2>1, NoneAssumption
<1> HIDE DEF k
<1>6. PolysOf(n) = PolysOf(m) \cup {p}
  BY <1>1, <1>3, <1>5 DEF PolysOf
<1>7. \A x \in Ends : x \in EndsOf(n) <=> x \in EndsOf(m) \/ x[1] = p
  BY <1>6, EndsAre DEF EndsOf, Ends
<1>8. \A x \in Ends : x[1] # p => Vert(n, x) = Vert(m, x)
  BY <1>3, <1>5, EndsAre DEF Vert
<1>9. Vert(n, <<p, 0>>) = t[1] /\ Vert(n, <<p, 1>>) = t[2] /\ Vert(n, <<p, 2>>) = t[3]
  BY <1>3, <1>4, <1>5 DEF Vert
<1>10. ASSUME NEW v \in Verts PROVE l[v] = {x \in EndsOf(n) : Vert(n, x) = v} /\ l[v] \subseteq Ends
  <2>0. 0 .. 2 = {0, 1, 2}
    OBVIOUS
  <2>1. /\ m.poly_links[v] \subseteq Ends
        /\ \A x \in Ends : x \in m.poly_links[v] <=> x \in EndsOf(m) /\ Vert(m, x) = v
    BY EndsOfAre DEF Surface
  <2>2. l[v] = m.poly_links[v] \cup {<<p, i>> : i \in {j \in 0 .. 2 : t[j + 1] = v}}
    OBVIOUS
  <2> HIDE DEF l
  <2>3. {<<p, i>> : i \in {j \in 0 .. 2 : t[j + 1] = v}} \subseteq Ends
    BY <1>1 DEF Ends
  <2>4. ASSUME NEW x \in Ends
        PROVE  x \in {<<p, i>> : i \in {j \in 0 .. 2 : t[j + 1] = v}} <=> x[1] = p /\ Vert(n, x) = v
    <3>1. x[1] \in Polys /\ x[2] \in {0, 1, 2} /\ x = <<x[1], x[2]>>
      BY EndsAre
    <3>2. t[0 + 1] = t[1] /\ t[1 + 1] = t[2] /\ t[2 + 1] = t[3]
      OBVIOUS
    <3>3. x \in {<<p, i>> : i \in {j \in 0 .. 2 : t[j + 1] = v}} <=> x[1] = p /\ t[x[2] + 1] = v
      BY <2>0, <3>1
    <3>4. x[1] = p => t[x[2] + 1] = Vert(n, x)
      BY <3>1, <3>2, <1>9
    <3> QED BY <3>3, <3>4
  <2>5. ASSUME NEW x \in Ends PROVE x \in l[v] <=> x \in EndsOf(n) /\ Vert(n, x) = v
    <3>1. CASE x[1] = p
      <4>1. x \notin EndsOf(m)
        BY <1>1, <3>1, EndsOfAre
      <4> QED BY <2>1, <2>2, <2>4, <3>1, <4>1, <1>7
    <3>2. CASE x[1] # p
      BY <2>1, <2>2, <2>4, <3>2, <1>7, <1>8
    <3> QED BY <3>1, <3>2
  <2> QED BY <2>1, <2>2, <2>3, <2>5, EndsOfAre
<1>11. \A x \in EndsOf(n) : Vert(n, x) \in n.verts
  <2> SUFFICES ASSUME NEW x \in EndsOf(n) PROVE Vert(n, x) \in m.verts
    BY <1>3
  <2>1. x \in Ends /\ x[2] \in {0, 1, 2} /\ x = <<x[1], x[2]>>
    BY EndsOfAre, EndsAre
  <2>2. CASE x[1] = p
    BY <2>1, <2>2, <1>9
  <2>3. CASE x[1] # p
    BY <2>1, <2>3, <1>7, <1>8 DEF Surface
  <2> QED BY <2>2, <2>3
<1>12. l \in [Verts -> SUBSET Ends]
  BY <1>10
<1>13. n.verts \subseteq Verts
  BY <1>3 DEF Surface
<1> HIDE DEF l
<1>14. Surface(n)
  BY <1>3, <1>5, <1>10, <1>11, <1>12, <1>13 DEF Surface
<1>15. Added(n, m, p, t)
  BY <1>1, <1>2, <1>3, <1>6, <1>7, <1>8, <1>9, <1>14 DEF Added
<1> QED BY <1>15 DEF n

\* What is left of a surface m without p.
Erased(n, m, p, u) ==
  /\ Surface(n) /\ n.verts \subseteq m.verts
  /\ \A v \in m.verts \ n.verts : n.poly_links[v] = {}
  /\ PolysOf(n) = PolysOf(m) \ {p}
  /\ \A x \in Ends : x \in EndsOf(n) <=> x \in EndsOf(m) /\ x[1] # p
  /\ \A x \in Ends : x[1] # p => Vert(n, x) = Vert(m, x)
  /\ n.link = LinkLeft(m, p, u)
  /\ m.ok /\ (u = TRUE => Mutual(m)) => n.ok

\* erase() of a polygon.
LEMMA WithoutPolySurface ==
  ASSUME NEW m, Surface(m), NEW p \in PolysOf(m), NEW u \in BOOLEAN
  PROVE  Erased(WithoutPoly(m, p, u, TRUE), m, p, u)
<1> DEFINE n == WithoutPoly(m, p, u, TRUE)
           own == OwnOf(p)
           linked == LinkedBy(m, p)
           left == PolyLinksLeft(m, p)
           isolated == IsolatedBy(m, p)
           k == [m.corners EXCEPT ![p] = NoVerts]
           l == LinkLeft(m, p, u)
<1>1. Has(n, m.verts \ isolated, k, l, left) /\ (m.ok /\ MayErase(m, p, u) => n.ok)
  <2>1. IsMesh(m) /\ TRUE \in BOOLEAN
    BY DEF Surface
  <2>2. /\ Has(n, VertsLeft(m, p, TRUE), k, l, left)
        /\ m.ok /\ MayErase(m, p, u) => n.ok
    BY <2>1, WithoutPolyIs, Zenon
  <2>3. VertsLeft(m, p, TRUE) = m.verts \ isolated
    BY DEF VertsLeft
  <2> QED BY <2>2, <2>3, Zenon
<1> HIDE DEF n
<1>2. /\ IsMesh(n) /\ n.verts = m.verts \ isolated
      /\ n.corners = k /\ n.link = l /\ n.poly_links = left
  <2> HIDE DEF isolated, k, l, left
  <2> QED BY <1>1, Fields
<1>3. /\ p \in Polys /\ m.corners[p] # NoVerts
      /\ own \subseteq Ends /\ \A x \in Ends : x \in own <=> x[1] = p
  BY EndsAre DEF PolysOf, Ends, OwnOf
<1>4. /\ k \in [Polys -> Corners \cup {NoVerts}]
      /\ k[p] = NoVerts /\ \A q \in Polys \ {p} : k[q] = m.corners[q]
  BY <1>3 DEF Surface
<1> HIDE DEF k
<1>5. PolysOf(n) = PolysOf(m) \ {p}
  BY <1>2, <1>4 DEF PolysOf
<1>6. \A x \in Ends : x \in EndsOf(n) <=> x \in EndsOf(m) /\ x[1] # p
  <2>1. \A x \in Ends : x[1] \in Polys /\ (x \in EndsOf(n) <=> n.corners[x[1]] # NoVerts)
    BY EndsOfAre, EndsAre
  <2>2. \A x \in Ends : x \in EndsOf(m) <=> m.corners[x[1]] # NoVerts
    BY EndsOfAre
  <2> HIDE DEF l, left, isolated
  <2> QED BY <2>1, <2>2, <1>2, <1>4
<1>7. \A x \in Ends : x[1] # p => Vert(n, x) = Vert(m, x)
  BY <1>2, <1>4, EndsAre DEF Vert
<1>8. \A e \in own : e \in EndsOf(m) /\ e \in m.poly_links[Vert(m, e)]
  <2> SUFFICES ASSUME NEW e \in own PROVE e \in EndsOf(m) /\ e \in m.poly_links[Vert(m, e)]
    OBVIOUS
  <2>1. e \in EndsOf(m)
    BY <1>3, EndsOfAre
  <2>2. Vert(m, e) \in Verts
    BY <2>1 DEF Surface
  <2> QED BY <2>1, <2>2 DEF Surface
<1>9. (u = TRUE => Mutual(m)) => (u = TRUE => linked \subseteq EndsOf(m))
  BY <1>3 DEF Mutual, LinkedBy
<1>11. left \in [Verts -> SUBSET Ends] /\ \A v \in Verts : left[v] = m.poly_links[v] \ own
  BY DEF Surface, PolyLinksLeft
<1> HIDE DEF left
<1>12. ASSUME NEW v \in Verts PROVE n.poly_links[v] = {x \in EndsOf(n) : Vert(n, x) = v}
  <2>1. EndsOf(n) \subseteq Ends /\ EndsOf(m) \subseteq Ends
    BY EndsOfAre
  <2>2. m.poly_links[v] = {x \in EndsOf(m) : Vert(m, x) = v}
    BY DEF Surface
  <2>3. n.poly_links[v] = m.poly_links[v] \ own
    BY <1>2, <1>11
  <2> HIDE DEF own
  <2> QED BY <2>1, <2>2, <2>3, <1>3, <1>6, <1>7
<1>13. n.verts \subseteq m.verts /\ \A v \in m.verts \ n.verts : n.poly_links[v] = {}
  BY <1>2 DEF IsolatedBy, left
<1>14. ASSUME NEW x \in EndsOf(n) PROVE Vert(n, x) \in n.verts
  <2>1. x \in Ends /\ x \in EndsOf(m) /\ Vert(n, x) = Vert(m, x) /\ x[1] # p
    BY EndsOfAre, <1>6, <1>7
  <2>2. Vert(n, x) \in m.verts /\ Vert(n, x) \in Verts
    BY <2>1 DEF Surface
  <2>3. x \in n.poly_links[Vert(n, x)]
    BY <1>12, <2>2
  <2> QED BY <2>2, <2>3, <1>13
<1>15. Surface(n)
  <2>1. n.verts \subseteq Verts
    BY <1>13 DEF Surface
  <2> QED BY <2>1, <1>2, <1>4, <1>11, <1>12, <1>14 DEF Surface
<1>16. m.ok /\ (u = TRUE => Mutual(m)) => n.ok
  BY <1>1, <1>8, <1>9 DEF MayErase
<1>17. Erased(n, m, p, u)
  BY <1>2, <1>5, <1>6, <1>7, <1>13, <1>15, <1>16 DEF Erased
<1> QED BY <1>17 DEF n

\* Its own links go with it, and those to it: link by link, or because there are none.
LEMMA WithoutPolyKeeps ==
  ASSUME NEW m, Whole(m), NEW p \in PolysOf(m), NEW u \in BOOLEAN,
         u = TRUE \/ \A e \in Ends : e[1] = p => m.link[e] = NoEdge
  PROVE  LET n == WithoutPoly(m, p, u, TRUE)
         IN  /\ Whole(n)
             /\ \A x \in Ends : n.link[x] \in {NoEdge, m.link[x]}
             /\ \A x \in Ends : x[1] # p /\ (m.link[x] = NoEdge \/ m.link[x][1] # p)
                                  => n.link[x] = m.link[x]
<1> DEFINE n == WithoutPoly(m, p, u, TRUE)
<1>1. /\ Surface(n) /\ n.ok
      /\ \A x \in Ends : x \in EndsOf(n) <=> x \in EndsOf(m) /\ x[1] # p
      /\ n.link = LinkLeft(m, p, u)
  <2>1. Surface(m) /\ Mutual(m) /\ m.ok
    BY DEF Whole, Mutual
  <2>2. Erased(n, m, p, u)
    BY <2>1, WithoutPolySurface
  <2> HIDE DEF n
  <2> QED BY <2>1, <2>2 DEF Erased
<1> HIDE DEF n
<1>2. /\ m.link \in [Ends -> Ends \cup {NoEdge}]
      /\ \A e \in Ends : m.link[e] # NoEdge =>
           /\ e \in EndsOf(m) /\ m.link[e] \in EndsOf(m)
           /\ m.link[e] # e /\ m.link[m.link[e]] = e
  BY DEF Whole, Mutual
<1>3. \A x \in Ends :
        n.link[x] = IF x[1] = p \/ (u = TRUE /\ \E f \in Ends : f[1] = p /\ m.link[f] = x)
                      THEN NoEdge ELSE m.link[x]
  <2> SUFFICES ASSUME NEW x \in Ends
               PROVE  n.link[x] =
                        IF x[1] = p \/ (u = TRUE /\ \E f \in Ends : f[1] = p /\ m.link[f] = x)
                          THEN NoEdge ELSE m.link[x]
    OBVIOUS
  <2>1. n.link[x] = IF x \in OwnOf(p) \cup (IF u THEN LinkedBy(m, p) ELSE {}) THEN NoEdge
                                                                            ELSE m.link[x]
    BY <1>1 DEF LinkLeft
  <2>2. \A f \in Ends : f \in OwnOf(p) <=> f[1] = p
    BY EndsAre DEF OwnOf
  <2>3. OwnOf(p) \subseteq Ends
    BY DEF OwnOf, Ends, PolysOf
  <2>4. x \in LinkedBy(m, p) <=> \E f \in OwnOf(p) : m.link[f] = x
    BY NoneAssumption DEF LinkedBy
  <2>5. x \in LinkedBy(m, p) <=> \E f \in Ends : f[1] = p /\ m.link[f] = x
    BY <2>2, <2>3, <2>4
  <2> QED BY <2>1, <2>2, <2>5
<1>4. \A x \in Ends : (\E f \in Ends : f[1] = p /\ m.link[f] = x)
                      <=> m.link[x] # NoEdge /\ m.link[x][1] = p
  <2> SUFFICES ASSUME NEW x \in Ends
               PROVE  (\E f \in Ends : f[1] = p /\ m.link[f] = x)
                      <=> m.link[x] # NoEdge /\ m.link[x][1] = p
    OBVIOUS
  <2>1. ASSUME NEW f \in Ends, f[1] = p, m.link[f] = x PROVE m.link[x] = f
    BY <2>1, <1>2, NoneAssumption
  <2>2. ASSUME m.link[x] # NoEdge PROVE m.link[m.link[x]] = x /\ m.link[x] \in Ends
    BY <2>2, <1>2, EndsOfAre
  <2> QED BY <2>1, <2>2, NoneAssumption
<1>5. \A x \in Ends : x[1] # p /\ (m.link[x] = NoEdge \/ m.link[x][1] # p) => n.link[x] = m.link[x]
  BY <1>3, <1>4
<1>6. \A x \in Ends : n.link[x] \in {NoEdge, m.link[x]}
  BY <1>3
<1>7. \A x \in Ends : n.link[x] # NoEdge => x[1] # p /\ m.link[x][1] # p /\ n.link[x] = m.link[x]
  <2> SUFFICES ASSUME NEW x \in Ends, n.link[x] # NoEdge
               PROVE  x[1] # p /\ m.link[x][1] # p /\ n.link[x] = m.link[x]
    OBVIOUS
  <2>1. x[1] # p /\ n.link[x] = m.link[x]
    BY <1>3
  <2>2. CASE u = TRUE
    BY <2>1, <2>2, <1>3, <1>4
  <2>3. CASE u # TRUE
    <3>1. m.link[x] \in Ends /\ m.link[m.link[x]] = x
      BY <2>1, <1>2, EndsOfAre
    <3> QED BY <2>1, <2>3, <3>1, NoneAssumption
  <2> QED BY <2>1, <2>2, <2>3
<1>8. n.link \in [Ends -> Ends \cup {NoEdge}]
  BY <1>1, <1>2 DEF LinkLeft
<1>9. ASSUME NEW x \in Ends, n.link[x] # NoEdge
      PROVE  /\ x \in EndsOf(n) /\ n.link[x] \in EndsOf(n)
             /\ n.link[x] # x /\ n.link[n.link[x]] = x
  <2>1. x[1] # p /\ m.link[x][1] # p /\ n.link[x] = m.link[x]
    BY <1>7, <1>9
  <2>2. /\ x \in EndsOf(m) /\ m.link[x] \in EndsOf(m)
        /\ m.link[x] # x /\ m.link[m.link[x]] = x /\ m.link[x] \in Ends
    BY <2>1, <1>2, <1>9, EndsOfAre
  <2> QED BY <2>1, <2>2, <1>1, <1>5
<1>10. Whole(n)
  BY <1>1, <1>8, <1>9 DEF Whole, Mutual
<1> QED BY <1>5, <1>6, <1>10 DEF n

\* A set of naturals has a least element.
LEMMA Least ==
  ASSUME NEW T, T \subseteq Nat, T # {}
  PROVE  \E n \in T : \A m \in T : n <= m
<1>1. PICK n \in T : \A m \in T : ~(<<m, n>> \in OpToRel(<, Nat))
  BY NatLessThanWellFounded, WFMin
<1>2. \A m \in T : ~(m < n)
  BY <1>1 DEF OpToRel
<1> QED BY <1>2

\* The minimum of a set of numbers is one of them.
LEMMA MinIs ==
  ASSUME NEW T, T \subseteq Nat, T # {}
  PROVE  Min(T) \in T
<1>1. \E n \in T : \A m \in T : n <= m
  BY Least
<1> QED BY <1>1 DEF Min

\* A set that has 0, and i + 1 with every i, has all numbers up to n.
LEMMA UpTo ==
  ASSUME NEW n \in Nat, NEW T, 0 \in T, \A i \in 0 .. n - 1 : i \in T => i + 1 \in T
  PROVE  0 .. n \subseteq T
<1> DEFINE U == {i \in 0 .. n : i \notin T}
<1>1. SUFFICES ASSUME U # {} PROVE FALSE
  OBVIOUS
<1>2. U \subseteq Nat
  OBVIOUS
<1>3. PICK u \in U : \A m \in U : u <= m
  <2> HIDE DEF U
  <2> QED BY <1>1, <1>2, Least
<1>4. u # 0 /\ u - 1 \in 0 .. n - 1 /\ u - 1 \notin U
  BY <1>3
<1> QED BY <1>3, <1>4

\* Turn k of a loop, F[k], takes T[k] to T[k + 1].
Takes(T, N, F) == \A k \in 0 .. N - 1 : \A x \in T[k] : F[k][x] \in T[k + 1]
\* What the loop comes to from x0, turn by turn.
AreTurns(g, N, x0, F) ==
  /\ g = [k \in 0 .. N |-> g[k]]
  /\ g[0] = x0
  /\ \A k \in 0 .. N - 1 : g[k + 1] = F[k][g[k]]

\* Where every turn of a loop leads to the next set, all of them are in their sets.
LEMMA TurnsStay ==
  ASSUME NEW N \in Nat, NEW T, NEW g, g[0] \in T[0],
         \A k \in 0 .. N - 1 : g[k] \in T[k] => g[k + 1] \in T[k + 1]
  PROVE  \A k \in 0 .. N : g[k] \in T[k]
<1> DEFINE S == {k \in 0 .. N : g[k] \in T[k]}
<1>1. 0 \in S
  OBVIOUS
<1>2. \A k \in 0 .. N - 1 : k \in S => k + 1 \in S
  OBVIOUS
<1> HIDE DEF S
<1>3. 0 .. N \subseteq S
  BY <1>1, <1>2, UpTo
<1> QED BY <1>3 DEF S

\* A loop that runs a number of times has a value after each turn.
LEMMA TurnsExist ==
  ASSUME NEW N \in Nat, NEW x0, NEW F
  PROVE  \E g : AreTurns(g, N, x0, F)
<1> DEFINE T == {m \in 0 .. N : \E g : AreTurns(g, m, x0, F)}
<1>1. 0 \in T
  <2> DEFINE g == [k \in 0 .. 0 |-> x0]
  <2>1. AreTurns(g, 0, x0, F)
    BY DEF AreTurns
  <2> QED BY <2>1
<1>2. ASSUME NEW m \in 0 .. N - 1, m \in T PROVE m + 1 \in T
  <2>1. PICK g : AreTurns(g, m, x0, F)
    BY <1>2
  <2> DEFINE h == [k \in 0 .. m + 1 |-> IF k <= m THEN g[k] ELSE F[m][g[m]]]
  <2>2. h[0] = x0
    BY <2>1 DEF AreTurns
  <2>3. ASSUME NEW k \in 0 .. m PROVE h[k + 1] = F[k][h[k]]
    <3>1. CASE k = m
      BY <3>1
    <3>2. CASE k # m
      <4>1. h[k + 1] = g[k + 1] /\ h[k] = g[k] /\ k \in 0 .. m - 1
        BY <3>2
      <4>2. g[k + 1] = F[k][g[k]]
        BY <2>1, <4>1 DEF AreTurns
      <4> QED BY <4>1, <4>2
    <3> QED BY <3>1, <3>2
  <2>4. h = [k \in 0 .. m + 1 |-> h[k]] /\ 0 .. (m + 1) - 1 = 0 .. m
    OBVIOUS
  <2> HIDE DEF h
  <2>5. AreTurns(h, m + 1, x0, F)
    BY <2>2, <2>3, <2>4 DEF AreTurns
  <2> QED BY <1>2, <2>5
<1> HIDE DEF T
<1>3. 0 .. N \subseteq T
  BY <1>1, <1>2, UpTo
<1> QED BY <1>3 DEF T

\* Such a loop has values, and each is in its set.
LEMMA LoopRuns ==
  ASSUME NEW N \in Nat, NEW T, NEW x0, x0 \in T[0], NEW F, Takes(T, N, F)
  PROVE  \E g : AreTurns(g, N, x0, F) /\ \A k \in 0 .. N : g[k] \in T[k]
<1>1. PICK g : AreTurns(g, N, x0, F)
  BY TurnsExist
<1>2. \A k \in 0 .. N : g[k] \in T[k]
  <2>1. g[0] \in T[0] /\ \A k \in 0 .. N - 1 : g[k] \in T[k] => g[k + 1] \in T[k + 1]
    BY <1>1 DEF AreTurns, Takes
  <2> QED BY <2>1, TurnsStay
<1> QED BY <1>1, <1>2

----------------------------------------------------------------------------
Sound(m) == Whole(m) /\ Joins(m)

Meshes == [verts : SUBSET Verts, corners : [Polys -> Corners \cup {NoVerts}],
           link : [Ends -> Ends \cup {NoEdge}], poly_links : [Verts -> SUBSET Ends],
           ok : {TRUE}]

\* A whole mesh is one of a set of meshes.
LEMMA WholeIn ==
  ASSUME NEW m, Whole(m)
  PROVE  m \in Meshes
<1>1. /\ m = [verts |-> m.verts, corners |-> m.corners, link |-> m.link,
              poly_links |-> m.poly_links, ok |-> m.ok]
      /\ m.verts \subseteq Verts /\ m.corners \in [Polys -> Corners \cup {NoVerts}]
      /\ m.poly_links \in [Verts -> SUBSET Ends]
  BY DEF Whole, Surface, IsMesh, Has
<1>2. m.link \in [Ends -> Ends \cup {NoEdge}] /\ m.ok \in {TRUE}
  <2>1. m.ok
    BY DEF Whole, Mutual
  <2>2. m.ok \in {TRUE}
    BY <2>1
  <2> QED BY <2>2 DEF Whole, Mutual
<1> QED BY <1>1, <1>2 DEF Meshes

\* That links join the same vertices, without the functions of the ends.
LEMMA JoinsIs ==
  ASSUME NEW m, Whole(m)
  PROVE  Joins(m) <=> \A e \in Ends : m.link[e] # NoEdge => From(m, m.link[e]) = To(m, e)
<1>1. \A e \in Ends : m.link[e] # NoEdge => m.link[e] \in Ends
  BY DEF Whole, Mutual
<1> QED BY <1>1 DEF Joins, JoinedBy, Froms, Tos

\* Links that are left of those that join still join.
LEMMA FewerJoin ==
  ASSUME NEW m, Sound(m), NEW n, Whole(n),
         \A e \in Ends : n.link[e] \in {NoEdge, m.link[e]},
         \A e \in EndsOf(n) : Vert(n, e) = Vert(m, e)
  PROVE  Sound(n)
<1>1. \A e \in Ends : m.link[e] # NoEdge => From(m, m.link[e]) = To(m, e)
  BY JoinsIs DEF Sound
<1>2. ASSUME NEW e \in Ends, n.link[e] # NoEdge PROVE From(n, n.link[e]) = To(n, e)
  <2>1. n.link[e] = m.link[e] /\ e \in EndsOf(n) /\ n.link[e] \in EndsOf(n)
    BY <1>2 DEF Whole, Mutual
  <2>2. Turn(e, 1) \in EndsOf(n)
    BY <2>1, EndsOfAre
  <2> QED BY <1>1, <1>2, <2>1, <2>2 DEF From, To
<1> QED BY <1>2, JoinsIs DEF Sound

\* erase() of a polygon with UNLINK_EDGE_LINKS.
LEMMA WithoutPolySound ==
  ASSUME NEW m, Sound(m), NEW p \in PolysOf(m)
  PROVE  /\ Sound(WithoutPoly(m, p, TRUE, TRUE))
         /\ PolysOf(WithoutPoly(m, p, TRUE, TRUE)) = PolysOf(m) \ {p}
<1> DEFINE n == WithoutPoly(m, p, TRUE, TRUE)
<1>0. TRUE \in BOOLEAN /\ Whole(m) /\ Surface(m)
  BY DEF Sound, Whole
<1>1. Erased(n, m, p, TRUE)
  BY <1>0, WithoutPolySurface
<1>2. Whole(n) /\ \A x \in Ends : n.link[x] \in {NoEdge, m.link[x]}
  BY <1>0, WithoutPolyKeeps
<1> HIDE DEF n
<1>3. /\ PolysOf(n) = PolysOf(m) \ {p}
      /\ \A e \in EndsOf(n) : Vert(n, e) = Vert(m, e)
  BY <1>1, EndsOfAre DEF Erased
<1>4. Sound(n)
  BY <1>2, <1>3, FewerJoin
<1> QED BY <1>3, <1>4 DEF n

\* erase() of one polygon after the other.
LEMMA WithoutPolysSound ==
  ASSUME NEW m, Sound(m), NEW ps \in SUBSET PolysOf(m)
  PROVE  Sound(WithoutPolys(m, ps))
<1> DEFINE S(p, n) == IF p \in ps THEN WithoutPoly(n, p, TRUE, TRUE) ELSE n
           T == [p \in 0 .. MaxPolys |->
                   {n \in Meshes : Sound(n) /\ \A q \in ps : p <= q => q \in PolysOf(n)}]
           F == [p \in 0 .. MaxPolys - 1 |-> [n \in T[p] |-> S(p, n)]]
<1>0. MaxPolys \in Nat /\ ps \subseteq Polys /\ Polys = 0 .. MaxPolys - 1
  BY BoundsAssumption DEF PolysOf, Polys
<1>1. ASSUME NEW p \in 0 .. MaxPolys - 1, NEW n \in T[p] PROVE S(p, n) \in T[p + 1]
  <2>1. Sound(n) /\ (\A q \in ps : p <= q => q \in PolysOf(n))
    BY <1>0, <1>1
  <2>2. Sound(S(p, n)) /\ PolysOf(n) \ {p} \subseteq PolysOf(S(p, n))
    <3>1. CASE p \in ps
      <4>1. p \in PolysOf(n)
        BY <2>1, <3>1
      <4> QED BY <2>1, <3>1, <4>1, WithoutPolySound
    <3>2. CASE p \notin ps
      BY <2>1, <3>2
    <3> QED BY <3>1, <3>2
  <2> HIDE DEF S
  <2>3. S(p, n) \in Meshes
    BY <2>2, WholeIn DEF Sound
  <2>4. \A q \in ps : p + 1 <= q => q \in PolysOf(S(p, n))
    BY <1>0, <2>1, <2>2
  <2> QED BY <1>0, <2>2, <2>3, <2>4
<1>2. m \in T[0]
  <2>1. m \in Meshes
    BY WholeIn DEF Sound
  <2> QED BY <1>0, <2>1
<1> HIDE DEF S, T
<1>3. \A p \in 0 .. MaxPolys - 1 : \A n \in T[p] : F[p][n] = S(p, n)
  OBVIOUS
<1> HIDE DEF F
<1>4. Takes(T, MaxPolys, F)
  BY <1>1, <1>3 DEF Takes
<1>5. PICK g : AreTurns(g, MaxPolys, m, F) /\ \A p \in 0 .. MaxPolys : g[p] \in T[p]
  BY <1>0, <1>2, <1>4, LoopRuns
<1> DEFINE Is(h) == h = [p \in 0 .. MaxPolys |->
                           IF p = 0 THEN m
                           ELSE LET n == h[p - 1]
                                IN  IF p - 1 \in ps THEN WithoutPoly(n, p - 1, TRUE, TRUE) ELSE n]
<1>6. Is(g)
  <2>1. g[0] = m /\ g = [p \in 0 .. MaxPolys |-> g[p]]
    BY <1>5 DEF AreTurns
  <2>2. ASSUME NEW p \in 0 .. MaxPolys, p # 0 PROVE g[p] = S(p - 1, g[p - 1])
    <3>1. p - 1 \in 0 .. MaxPolys - 1 /\ p - 1 \in 0 .. MaxPolys /\ (p - 1) + 1 = p
      BY <1>0, <2>2
    <3> QED BY <1>3, <1>5, <3>1 DEF AreTurns
  <2> QED BY <2>1, <2>2 DEF S
<1>7. PICK h : Is(h) /\ WithoutPolys(m, ps) = h[MaxPolys]
  <2>1. WithoutPolys(m, ps) = (CHOOSE h : Is(h))[MaxPolys]
    BY DEF WithoutPolys
  <2>2. Is(CHOOSE h : Is(h))
    <3> HIDE DEF Is
    <3> QED BY <1>6
  <2> QED BY <2>1, <2>2
<1>8. \A p \in 0 .. MaxPolys : h[p] \in T[p]
  <2>1. h[0] = m
    BY <1>0, <1>7
  <2>2. ASSUME NEW p \in 0 .. MaxPolys - 1 PROVE h[p + 1] = S(p, h[p])
    <3>1. p + 1 \in 0 .. MaxPolys /\ p + 1 # 0 /\ (p + 1) - 1 = p
      BY <1>0
    <3> QED BY <1>7, <3>1 DEF S
  <2>3. \A p \in 0 .. MaxPolys - 1 : h[p] \in T[p] => h[p + 1] \in T[p + 1]
    BY <1>1, <2>2
  <2> QED BY <1>0, <1>2, <2>1, <2>3, TurnsStay
<1>9. h[MaxPolys] \in T[MaxPolys]
  BY <1>0, <1>8
<1>10. Sound(h[MaxPolys])
  BY <1>0, <1>9 DEF T
<1> HIDE DEF Is
<1> QED BY <1>7, <1>10

\* Vertices may come, and those go that no corner names.
LEMMA VertsSound ==
  ASSUME NEW m, Sound(m), NEW vs \in SUBSET Verts, \A c \in EndsOf(m) : Vert(m, c) \in vs
  PROVE  Sound([m EXCEPT !.verts = vs])
<1> DEFINE n == [m EXCEPT !.verts = vs]
<1>1. IsMesh(m) /\ Whole(m) /\ Surface(m) /\ Mutual(m) /\ Joins(m)
  BY DEF Sound, Whole, Surface
<1>2. Has(n, vs, m.corners, m.link, m.poly_links) /\ n.ok = m.ok
  BY <1>1, SetVerts
<1> HIDE DEF n
<1>3. /\ IsMesh(n) /\ n.verts = vs /\ n.corners = m.corners /\ n.link = m.link
      /\ n.poly_links = m.poly_links
  BY <1>2, Fields, Zenon
<1>4. EndsOf(n) = EndsOf(m) /\ \A e : Vert(n, e) = Vert(m, e)
  BY <1>3 DEF EndsOf, PolysOf, Vert
<1>5. Surface(n)
  BY <1>1, <1>3, <1>4 DEF Surface
<1>6. Mutual(n)
  BY <1>1, <1>2, <1>3, <1>4 DEF Mutual
<1>7. Joins(n)
  BY <1>1, <1>3, <1>4 DEF Joins, JoinedBy, Froms, Tos, From, To
<1> QED BY <1>5, <1>6, <1>7 DEF Sound, Whole, n

\* add() of a vertex leaves a sound mesh.
LEMMA AddVertSound ==
  ASSUME NEW m, Sound(m), NewVerts(m) # {}
  PROVE  Sound([m EXCEPT !.verts = @ \cup {Min(NewVerts(m))}])
<1>1. Min(NewVerts(m)) \in Verts
  BY MinIs, BoundsAssumption DEF NewVerts, Verts
<1>2. m.verts \subseteq Verts /\ \A c \in EndsOf(m) : Vert(m, c) \in m.verts
  BY DEF Sound, Whole, Surface
<1>3. [m EXCEPT !.verts = @ \cup {Min(NewVerts(m))}]
      = [m EXCEPT !.verts = m.verts \cup {Min(NewVerts(m))}]
  OBVIOUS
<1> DEFINE vs == m.verts \cup {Min(NewVerts(m))}
<1>4. vs \in SUBSET Verts /\ \A c \in EndsOf(m) : Vert(m, c) \in vs
  BY <1>1, <1>2
<1> HIDE DEF vs
<1>5. Sound([m EXCEPT !.verts = vs])
  BY <1>4, VertsSound
<1> QED BY <1>3, <1>5 DEF vs

\* fast_erase() of a vertex without polygons leaves a sound mesh.
LEMMA EraseVertSound ==
  ASSUME NEW m, Sound(m), NEW v \in m.verts, m.poly_links[v] = {}
  PROVE  Sound([m EXCEPT !.verts = @ \ {v}])
<1>1. /\ m.verts \subseteq Verts /\ \A c \in EndsOf(m) : Vert(m, c) \in m.verts
      /\ m.poly_links[v] = {c \in EndsOf(m) : Vert(m, c) = v}
  BY DEF Sound, Whole, Surface
<1> DEFINE vs == m.verts \ {v}
<1>2. vs \in SUBSET Verts /\ \A c \in EndsOf(m) : Vert(m, c) \in vs
  BY <1>1
<1>3. [m EXCEPT !.verts = @ \ {v}] = [m EXCEPT !.verts = vs]
  OBVIOUS
<1> HIDE DEF vs
<1>4. Sound([m EXCEPT !.verts = vs])
  BY <1>2, VertsSound
<1> QED BY <1>3, <1>4

\* erase_isolated_verts() leaves a sound mesh.
LEMMA WithoutIsolatedSound ==
  ASSUME NEW m, Sound(m)
  PROVE  Sound(WithoutIsolated(m))
<1> DEFINE vs == {v \in m.verts : m.poly_links[v] # {}}
<1>1. vs \in SUBSET Verts
  BY DEF Sound, Whole, Surface
<1>2. ASSUME NEW c \in EndsOf(m) PROVE Vert(m, c) \in vs
  <2>1. Vert(m, c) \in m.verts /\ Vert(m, c) \in Verts
    BY DEF Sound, Whole, Surface
  <2>2. m.poly_links[Vert(m, c)] = {x \in EndsOf(m) : Vert(m, x) = Vert(m, c)}
    BY <2>1 DEF Sound, Whole, Surface
  <2> QED BY <2>1, <2>2
<1>3. WithoutIsolated(m) = [m EXCEPT !.verts = vs]
  BY DEF WithoutIsolated
<1> HIDE DEF vs
<1>4. Sound([m EXCEPT !.verts = vs])
  BY <1>1, <1>2, VertsSound
<1> QED BY <1>3, <1>4

\* Edges of a polygon that is not there are not linked.
LEMMA NewOpen ==
  ASSUME NEW m, Mutual(m), NEW p \in NewPolys(m), NEW e \in Ends, e[1] = p
  PROVE  m.link[e] = NoEdge /\ \A x \in Ends : m.link[x] # e
<1>1. e \notin EndsOf(m)
  BY EndsOfAre DEF NewPolys, PolysOf
<1> QED BY <1>1, NoneAssumption DEF Mutual

\* A polygon comes without links.
LEMMA WithPolyWhole ==
  ASSUME NEW m, Whole(m), NEW p \in NewPolys(m), NEW t,
         t[1] \in m.verts, t[2] \in m.verts, t[3] \in m.verts
  PROVE  Whole(WithPoly(m, p, t))
<1> DEFINE n == WithPoly(m, p, t)
<1>1. /\ Surface(n) /\ n.link = m.link /\ n.ok = m.ok
      /\ \A x \in Ends : x \in EndsOf(n) <=> x \in EndsOf(m) \/ x[1] = p
  <2>1. Added(n, m, p, t)
    BY WithPolyKeeps DEF Whole
  <2> QED BY <2>1 DEF Added
<1> HIDE DEF n
<1>2. EndsOf(m) \subseteq EndsOf(n)
  BY <1>1, EndsOfAre
<1>3. Mutual(n)
  BY <1>1, <1>2 DEF Mutual, Whole
<1> QED BY <1>1, <1>3 DEF Whole, n

\* add() of a polygon leaves a sound mesh.
LEMMA WithPolySound ==
  ASSUME NEW m, Sound(m), NEW p \in NewPolys(m), NEW t,
         t[1] \in m.verts, t[2] \in m.verts, t[3] \in m.verts
  PROVE  Sound(WithPoly(m, p, t))
<1> DEFINE n == WithPoly(m, p, t)
<1>0. Whole(m) /\ Surface(m)
  BY DEF Sound, Whole
<1>1. Whole(n) /\ Whole(m)
  BY <1>0, WithPolyWhole
<1>2. /\ n.link = m.link /\ \A x \in Ends : x[1] # p => Vert(n, x) = Vert(m, x)
  <2>1. Added(n, m, p, t)
    BY <1>0, WithPolyKeeps
  <2> QED BY <2>1 DEF Added
<1> HIDE DEF n
<1>3. ASSUME NEW e \in Ends, n.link[e] # NoEdge PROVE From(n, n.link[e]) = To(n, e)
  <2>1. From(m, m.link[e]) = To(m, e)
    BY <1>1, <1>2, <1>3, JoinsIs DEF Sound
  <2>2. e \in EndsOf(m) /\ m.link[e] \in EndsOf(m)
    BY <1>1, <1>2, <1>3 DEF Whole, Mutual
  <2>3. \A x \in EndsOf(m) : x[1] # p /\ x \in Ends
    BY EndsOfAre DEF NewPolys, PolysOf
  <2>4. Turn(e, 1) \in EndsOf(m)
    BY <2>2, EndsOfAre
  <2> QED BY <1>2, <2>1, <2>2, <2>3, <2>4 DEF From, To
<1> QED BY <1>1, <1>3, JoinsIs DEF Sound, n

\* The handle of a new polygon is one of those that are free.
LEMMA FirstNewIs ==
  ASSUME NEW m, NewPolys(m) # {}
  PROVE  FirstNew(m) \in NewPolys(m)
BY MinIs, BoundsAssumption DEF FirstNew, NewPolys, Polys

----------------------------------------------------------------------------
Unlinked(m) == Surface(m) /\ m.ok /\ m.link = [e \in Ends |-> NoEdge]

\* A mesh without links between edges joins what it should.
LEMMA UnlinkedSound ==
  ASSUME NEW m, Unlinked(m)
  PROVE  Sound(m)
BY DEF Unlinked, Sound, Whole, Mutual, Joins, JoinedBy

\* The corners of a polygon swapped.
LEMMA InvertPolyUnlinked ==
  ASSUME NEW m, Unlinked(m), NEW p \in PolysOf(m)
  PROVE  Unlinked(InvertPoly(m, p))
<1> DEFINE c1 == <<p, 1>>
           c2 == <<p, 2>>
           a == ChangeVert(m, c1, m.corners[p][2])
           b == ChangeVert(a, c2, m.corners[p][1])
<1>1. c1 \in EndsOf(m) /\ c2 \in EndsOf(m)
  BY DEF EndsOf
<1>2. m.corners[p][2] \in m.verts /\ m.corners[p][1] \in m.verts
  BY <1>1 DEF Unlinked, Surface, Vert
<1>3. Surface(a) /\ a.link = m.link /\ a.verts = m.verts /\ a.ok /\ EndsOf(a) = EndsOf(m)
  BY <1>1, <1>2, ChangeVertKeeps DEF Unlinked, Changed
<1> HIDE DEF a
<1>4. Surface(b) /\ b.link = a.link /\ b.ok
  BY <1>1, <1>2, <1>3, ChangeVertKeeps DEF Changed
<1> HIDE DEF b
<1>5. InvertPoly(m, p) = b
  BY DEF InvertPoly, b, a
<1> QED BY <1>3, <1>4, <1>5 DEF Unlinked

\* invert_polys() of a mesh without links leaves a sound one.
LEMMA InvertedSound ==
  ASSUME NEW m, Sound(m), Open(m) = EndsOf(m)
  PROVE  Sound(Inverted(m))
<1> DEFINE S(p, n) == IF p \in PolysOf(n) THEN InvertPoly(n, p) ELSE n
           T == [p \in 0 .. MaxPolys |-> {n \in Meshes : Unlinked(n)}]
           F == [p \in 0 .. MaxPolys - 1 |-> [n \in T[p] |-> S(p, n)]]
<1>0. MaxPolys \in Nat
  BY BoundsAssumption
<1>1. ASSUME NEW p \in 0 .. MaxPolys - 1, NEW n \in T[p] PROVE S(p, n) \in T[p + 1]
  <2>1. Unlinked(n)
    BY <1>0
  <2>2. Unlinked(S(p, n))
    BY <2>1, InvertPolyUnlinked
  <2> HIDE DEF S
  <2>3. S(p, n) \in Meshes
    BY <2>2, UnlinkedSound, WholeIn DEF Sound
  <2> QED BY <1>0, <2>2, <2>3
<1>2. m \in T[0]
  <2>1. m \in Meshes
    BY WholeIn DEF Sound
  <2>2. m.link \in [Ends -> Ends \cup {NoEdge}] /\ \A e \in Ends : m.link[e] = NoEdge
    BY EndsOfAre DEF Sound, Whole, Mutual, Open
  <2>3. m.link = [e \in Ends |-> NoEdge]
    BY <2>2
  <2>4. Unlinked(m)
    BY <2>3 DEF Sound, Whole, Mutual, Unlinked
  <2> QED BY <1>0, <2>1, <2>4
<1> HIDE DEF S, T
<1>3. \A p \in 0 .. MaxPolys - 1 : \A n \in T[p] : F[p][n] = S(p, n)
  OBVIOUS
<1> HIDE DEF F
<1>4. Takes(T, MaxPolys, F)
  BY <1>1, <1>3 DEF Takes
<1>5. PICK g : AreTurns(g, MaxPolys, m, F) /\ \A p \in 0 .. MaxPolys : g[p] \in T[p]
  BY <1>0, <1>2, <1>4, LoopRuns
<1> DEFINE Is(h) == h = [p \in 0 .. MaxPolys |->
                           IF p = 0 THEN m
                           ELSE LET n == h[p - 1]
                                IN  IF p - 1 \in PolysOf(n) THEN InvertPoly(n, p - 1) ELSE n]
<1>6. Is(g)
  <2>1. g[0] = m /\ g = [p \in 0 .. MaxPolys |-> g[p]]
    BY <1>5 DEF AreTurns
  <2>2. ASSUME NEW p \in 0 .. MaxPolys, p # 0 PROVE g[p] = S(p - 1, g[p - 1])
    <3>1. p - 1 \in 0 .. MaxPolys - 1 /\ p - 1 \in 0 .. MaxPolys /\ (p - 1) + 1 = p
      BY <1>0, <2>2
    <3> QED BY <1>3, <1>5, <3>1 DEF AreTurns
  <2> QED BY <2>1, <2>2 DEF S
<1>7. PICK h : Is(h) /\ Inverted(m) = h[MaxPolys]
  <2>1. Inverted(m) = (CHOOSE h : Is(h))[MaxPolys]
    BY DEF Inverted
  <2>2. Is(CHOOSE h : Is(h))
    <3> HIDE DEF Is
    <3> QED BY <1>6
  <2> QED BY <2>1, <2>2
<1>8. \A p \in 0 .. MaxPolys : h[p] \in T[p]
  <2>1. h[0] = m
    BY <1>0, <1>7
  <2>2. ASSUME NEW p \in 0 .. MaxPolys - 1 PROVE h[p + 1] = S(p, h[p])
    <3>1. p + 1 \in 0 .. MaxPolys /\ p + 1 # 0 /\ (p + 1) - 1 = p
      BY <1>0
    <3> QED BY <1>7, <3>1 DEF S
  <2>3. \A p \in 0 .. MaxPolys - 1 : h[p] \in T[p] => h[p + 1] \in T[p + 1]
    BY <1>1, <2>2
  <2> QED BY <1>0, <1>2, <2>1, <2>3, TurnsStay
<1>9. h[MaxPolys] \in T[MaxPolys]
  BY <1>0, <1>8
<1>10. Unlinked(h[MaxPolys])
  BY <1>0, <1>9 DEF T
<1> HIDE DEF Is
<1> QED BY <1>7, <1>10, UnlinkedSound

----------------------------------------------------------------------------
(* compact() *)

\* What a renaming of the vertices by f makes of the corners and of the links to them.
CornersBy(m, f) ==
  [p \in Polys |->
     IF m.corners[p] = NoVerts THEN NoVerts ELSE [i \in 0 .. 2 |-> f[m.corners[p][i]]]]
PolyLinksBy(m, f) ==
  [w \in Verts |-> UNION {m.poly_links[v] : v \in {u \in m.verts : f[u] = w}}]

\* What compact() makes of the fields of a mesh.
LEMMA RenamedIs ==
  ASSUME NEW m, IsMesh(m), NEW f
  PROVE  /\ Has(Renamed(m, f), {f[v] : v \in m.verts}, CornersBy(m, f), m.link, PolyLinksBy(m, f))
         /\ Renamed(m, f).ok = m.ok
<1> DEFINE vs == {f[v] : v \in m.verts}
           k == CornersBy(m, f)
           l == PolyLinksBy(m, f)
           m1 == [m EXCEPT !.verts = vs]
           m2 == [m1 EXCEPT !.corners = k]
           m3 == [m2 EXCEPT !.poly_links = l]
<1>1. Renamed(m, f) = m3
  BY DEF Renamed, CornersBy, PolyLinksBy
<1> HIDE DEF vs, k, l
<1>2. Has(m1, vs, m.corners, m.link, m.poly_links) /\ m1.ok = m.ok
  BY SetVerts, Zenon
<1> HIDE DEF m1
<1>3. /\ m1.verts = vs /\ m1.corners = m.corners /\ m1.link = m.link
      /\ m1.poly_links = m.poly_links /\ IsMesh(m1)
  BY <1>2, Fields, Zenon
<1>4. Has(m2, m1.verts, k, m1.link, m1.poly_links) /\ m2.ok = m1.ok
  BY <1>3, SetCorners, Zenon
<1> HIDE DEF m2
<1>5. /\ m2.verts = vs /\ m2.corners = k /\ m2.link = m.link /\ IsMesh(m2)
  BY <1>3, <1>4, Fields, Zenon
<1>6. Has(m3, m2.verts, m2.corners, m2.link, l) /\ m3.ok = m2.ok
  BY <1>5, SetPolyLinks, Zenon
<1> HIDE DEF m3
<1>7. Has(Renamed(m, f), vs, k, m.link, l) /\ Renamed(m, f).ok = m.ok
  BY <1>1, <1>2, <1>4, <1>5, <1>6, Zenon
<1> QED BY <1>7 DEF vs, k, l

\* The vertices may get any names.
LEMMA RenamedSound ==
  ASSUME NEW m, Sound(m), NEW f \in [m.verts -> Verts]
  PROVE  Sound(Renamed(m, f))
<1> DEFINE n == Renamed(m, f)
<1>0. /\ Whole(m) /\ Surface(m) /\ Mutual(m) /\ IsMesh(m)
      /\ m.verts \subseteq Verts
      /\ m.corners \in [Polys -> Corners \cup {NoVerts}]
      /\ m.poly_links \in [Verts -> SUBSET Ends]
      /\ \A v \in Verts : m.poly_links[v] = {c \in EndsOf(m) : Vert(m, c) = v}
      /\ \A c \in EndsOf(m) : Vert(m, c) \in m.verts
  BY DEF Sound, Whole, Surface
<1>1. /\ Has(n, {f[v] : v \in m.verts}, CornersBy(m, f), m.link, PolyLinksBy(m, f))
      /\ n.ok = m.ok
  BY <1>0, RenamedIs
<1> HIDE DEF n
<1>2. /\ n.verts = {f[v] : v \in m.verts} /\ n.corners = CornersBy(m, f) /\ n.link = m.link
      /\ n.poly_links = PolyLinksBy(m, f) /\ IsMesh(n)
  <2> DEFINE vs == {f[v] : v \in m.verts}
  <2>1. Has(n, vs, CornersBy(m, f), m.link, PolyLinksBy(m, f))
    BY <1>1
  <2> HIDE DEF vs
  <2>2. /\ n.verts = vs /\ n.corners = CornersBy(m, f) /\ n.link = m.link
        /\ n.poly_links = PolyLinksBy(m, f) /\ IsMesh(n)
    BY <2>1, Fields, Zenon
  <2> QED BY <2>2 DEF vs
<1>3. ASSUME NEW p \in PolysOf(m)
      PROVE  n.corners[p] \in Corners /\ \A i \in 0 .. 2 : n.corners[p][i] = f[m.corners[p][i]]
  <2>1. p \in Polys /\ m.corners[p] # NoVerts
    BY DEF PolysOf
  <2>2. n.corners[p] = [i \in 0 .. 2 |-> f[m.corners[p][i]]]
    BY <1>2, <2>1 DEF CornersBy
  <2>3. \A i \in 0 .. 2 : m.corners[p][i] \in m.verts
    <3> SUFFICES ASSUME NEW i \in 0 .. 2 PROVE m.corners[p][i] \in m.verts
      OBVIOUS
    <3>1. <<p, i>> \in EndsOf(m)
      BY DEF EndsOf
    <3> QED BY <1>0, <3>1 DEF Vert
  <2> QED BY <2>2, <2>3 DEF Corners
<1>4. \A p \in Polys : p \notin PolysOf(m) => n.corners[p] = NoVerts
  BY <1>2 DEF CornersBy, PolysOf
<1>5. PolysOf(n) = PolysOf(m) /\ EndsOf(n) = EndsOf(m)
  <2>1. PolysOf(n) = PolysOf(m)
    BY <1>3, <1>4, NoneAssumption DEF PolysOf
  <2> QED BY <2>1 DEF EndsOf
<1>6. ASSUME NEW e \in EndsOf(m) PROVE Vert(n, e) = f[Vert(m, e)] /\ Vert(m, e) \in m.verts
  <2>1. e[1] \in PolysOf(m) /\ e[2] \in 0 .. 2
    BY DEF EndsOf
  <2> QED BY <1>0, <1>3, <2>1 DEF Vert
<1>7. n.verts \subseteq Verts /\ \A e \in EndsOf(n) : Vert(n, e) \in n.verts
  BY <1>2, <1>5, <1>6
<1>8. ASSUME NEW w \in Verts PROVE n.poly_links[w] = {c \in EndsOf(n) : Vert(n, c) = w}
  <2>1. n.poly_links[w] = UNION {m.poly_links[v] : v \in {u \in m.verts : f[u] = w}}
    BY <1>2 DEF PolyLinksBy
  <2>2. ASSUME NEW c \in n.poly_links[w] PROVE c \in EndsOf(n) /\ Vert(n, c) = w
    <3>1. PICK v \in m.verts : f[v] = w /\ c \in m.poly_links[v]
      BY <2>1, <2>2
    <3>2. c \in EndsOf(m) /\ Vert(m, c) = v
      BY <1>0, <3>1
    <3> QED BY <1>5, <1>6, <3>1, <3>2
  <2>3. ASSUME NEW c \in EndsOf(n), Vert(n, c) = w PROVE c \in n.poly_links[w]
    <3>1. c \in EndsOf(m) /\ Vert(m, c) \in m.verts /\ f[Vert(m, c)] = w
      BY <1>5, <1>6, <2>3
    <3>2. c \in m.poly_links[Vert(m, c)]
      BY <1>0, <3>1
    <3> QED BY <2>1, <3>1, <3>2
  <2> QED BY <2>2, <2>3
<1>9. n.corners \in [Polys -> Corners \cup {NoVerts}] /\ n.poly_links \in [Verts -> SUBSET Ends]
  <2>1. n.corners = [p \in Polys |-> n.corners[p]]
    BY <1>2 DEF CornersBy
  <2>2. \A p \in Polys : n.corners[p] \in Corners \cup {NoVerts}
    BY <1>3, <1>4
  <2>3. n.poly_links = [w \in Verts |-> n.poly_links[w]]
    BY <1>2 DEF PolyLinksBy
  <2>4. \A w \in Verts : n.poly_links[w] \subseteq Ends
    BY <1>8, EndsOfAre
  <2> QED BY <2>1, <2>2, <2>3, <2>4
<1>10. Surface(n)
  BY <1>2, <1>7, <1>8, <1>9 DEF Surface
<1>11. Mutual(n)
  BY <1>0, <1>1, <1>2, <1>5 DEF Mutual
<1>12. ASSUME NEW e \in Ends, n.link[e] # NoEdge PROVE From(n, n.link[e]) = To(n, e)
  <2>1. n.link[e] = m.link[e] /\ From(m, m.link[e]) = To(m, e)
    BY <1>0, <1>2, <1>12, JoinsIs DEF Sound
  <2>2. e \in EndsOf(m) /\ m.link[e] \in EndsOf(m) /\ Turn(e, 1) \in EndsOf(m)
    <3>1. e \in EndsOf(m) /\ m.link[e] \in EndsOf(m)
      BY <1>0, <1>2, <1>12 DEF Mutual
    <3> QED BY <3>1, EndsOfAre
  <2> QED BY <1>6, <2>1, <2>2 DEF From, To
<1>13. Sound(n)
  BY <1>10, <1>11, <1>12, JoinsIs DEF Sound, Whole
<1> QED BY <1>13 DEF n

\* compact() leaves a sound mesh: it gives no two vertices the same name.
LEMMA CompactSound ==
  ASSUME NEW m, Sound(m)
  PROVE  Sound(Renamed(m, [v \in m.verts |-> Cardinality({w \in m.verts : w < v})]))
<1> DEFINE f == [v \in m.verts |-> Cardinality({w \in m.verts : w < v})]
<1>1. m.verts \subseteq Verts /\ MaxVerts \in Nat
  BY BoundsAssumption DEF Sound, Whole, Surface
<1>2. ASSUME NEW v \in m.verts PROVE Cardinality({w \in m.verts : w < v}) \in Verts
  <2> DEFINE A == {w \in m.verts : w < v}
  <2>1. v \in Nat /\ v < MaxVerts /\ A \subseteq 0 .. v - 1
    BY <1>1 DEF Verts
  <2> HIDE DEF A
  <2>2. IsFiniteSet(0 .. v - 1) /\ Cardinality(0 .. v - 1) = v
    <3>1. 0 \in Int /\ v - 1 \in Int
      BY <2>1
    <3>2. /\ IsFiniteSet(0 .. v - 1)
          /\ Cardinality(0 .. v - 1) = IF 0 > v - 1 THEN 0 ELSE v - 1 - 0 + 1
      BY <3>1, FS_Interval
    <3> QED BY <2>1, <3>2
  <2>3. Cardinality(A) \in Nat /\ Cardinality(A) <= v
    BY <2>1, <2>2, FS_Subset, FS_CardinalityType
  <2> QED BY <1>1, <2>1, <2>3 DEF A, Verts
<1>3. f \in [m.verts -> Verts]
  BY <1>2
<1> HIDE DEF f
<1>4. Sound(Renamed(m, f))
  BY <1>3, RenamedSound
<1> QED BY <1>4 DEF f

----------------------------------------------------------------------------
----------------------------------------------------------------------------
(* fast_compute_edge_links() *)

\* Its state after the first k edges: those that are left open are among them.
Computing(s, m, k) ==
  /\ Sound(s.m) /\ Others(s.m, m)
  /\ s = [m |-> s.m, open |-> s.open]
  /\ s.open \subseteq Open(s.m)
  /\ \A x \in s.open : 3 * x[1] + x[2] < k

\* The loop over the edges comes to edges only.
LEMMA NthEdgeIs ==
  ASSUME NEW k \in Nat
  PROVE  3 * NthEdge(k + 1)[1] + NthEdge(k + 1)[2] = k
<1>1. NthEdge(k + 1) = <<k \div 3, k % 3>>
  <2>1. (k + 1) - 1 = k
    OBVIOUS
  <2> QED BY <2>1 DEF NthEdge
<1>2. 3 * (k \div 3) + (k % 3) = k
  OBVIOUS
<1> QED BY <1>1, <1>2

\* One turn of fast_compute_edge_links() keeps what the loop relies on.
LEMMA ComputeLinkKeeps ==
  ASSUME NEW m, NEW k \in Nat, NEW s, Computing(s, m, k),
         NEW t \in ComputeLink(s, NthEdge(k + 1))
  PROVE  Computing(t, m, k + 1)
<1> DEFINE e == NthEdge(k + 1)
           found == {o \in s.open : From(s.m, o) = To(s.m, e) /\ To(s.m, o) = From(s.m, e)}
<1>0. /\ 3 * e[1] + e[2] = k
      /\ Sound(s.m) /\ Others(s.m, m) /\ s = [m |-> s.m, open |-> s.open]
      /\ s.open \subseteq Open(s.m)
      /\ \A x \in s.open : x \in Ends /\ 3 * x[1] + x[2] \in Int /\ 3 * x[1] + x[2] < k
  <2>1. \A x \in Open(s.m) : x \in Ends /\ 3 * x[1] + x[2] \in Int
    <3> SUFFICES ASSUME NEW x \in Open(s.m) PROVE x \in Ends /\ 3 * x[1] + x[2] \in Int
      OBVIOUS
    <3>1. x \in Ends
      BY EndsOfAre DEF Open
    <3>2. x[1] \in Int /\ x[2] \in Int
      BY <3>1, EndsAre, BoundsAssumption DEF Polys
    <3> QED BY <3>1, <3>2
  <2> QED BY <2>1, NthEdgeIs DEF Computing
<1>4. t \in CASE e \notin EndsOf(s.m) \/ s.m.link[e] # NoEdge -> {s}
              [] e \in Open(s.m) /\ found = {} -> {[s EXCEPT !.open = @ \cup {e}]}
              [] OTHER -> {[m |-> Link(s.m, e, o), open |-> s.open \ {o}] : o \in found}
  BY DEF ComputeLink
<1>1. CASE e \notin EndsOf(s.m) \/ s.m.link[e] # NoEdge
  <2>1. t = s
    <3> HIDE DEF e, found
    <3>1. e \in Open(s.m) => ~(e \notin EndsOf(s.m) \/ s.m.link[e] # NoEdge)
      BY DEF Open
    <3> QED BY <1>1, <1>4, <3>1
  <2> QED BY <2>1, <1>0 DEF Computing
<1>2. CASE ~(e \notin EndsOf(s.m) \/ s.m.link[e] # NoEdge) /\ found = {}
  <2>1. e \in Open(s.m)
    BY <1>2 DEF Open
  <2>2. t = [s EXCEPT !.open = @ \cup {e}]
    <3> HIDE DEF e, found
    <3> QED BY <1>2, <1>4, <2>1
  <2> HIDE DEF e
  <2>3. t = [m |-> s.m, open |-> s.open \cup {e}]
    BY <1>0, <2>2
  <2> QED BY <2>1, <2>3, <1>0 DEF Computing
<1>3. CASE ~(e \notin EndsOf(s.m) \/ s.m.link[e] # NoEdge) /\ found # {}
  <2>1. PICK o \in found : t = [m |-> Link(s.m, e, o), open |-> s.open \ {o}]
    <3> HIDE DEF e, found
    <3> QED BY <1>3, <1>4
  <2>2. /\ o \in s.open /\ o \in EndsOf(s.m) /\ s.m.link[o] = NoEdge /\ e \in EndsOf(s.m)
        /\ s.m.link[e] = NoEdge /\ From(s.m, o) = To(s.m, e) /\ To(s.m, o) = From(s.m, e)
    BY <1>0, <1>3 DEF Open
  <2>3. e \notin s.open
    BY <1>0
  <2> HIDE DEF e, found
  <2> DEFINE n == Link(s.m, e, o)
             from == Froms(s.m)
             to == Tos(s.m)
  <2>4. Whole(s.m) /\ JoinedBy(s.m, from, to) /\ e # o /\ e \in Ends /\ o \in Ends
    BY <1>0, <2>2, <2>3, EndsOfAre DEF Sound, Joins
  <2>5. from[o] = to[e] /\ from[e] = to[o]
    BY <2>2, <2>4 DEF Froms, Tos
  <2> HIDE DEF from, to
  <2>6. JoinedBy(n, from, to)
    BY <2>2, <2>4, <2>5, LinkJoins
  <2>7. Whole(n) /\ Others(n, s.m) /\ \A x \in Ends \ {e, o} : n.link[x] = s.m.link[x]
    BY <2>2, <2>4, LinkKeeps
  <2> HIDE DEF n
  <2>8. Froms(n) = from /\ Tos(n) = to /\ EndsOf(n) = EndsOf(s.m)
    BY <2>4, <2>7, SurfaceKept DEF Whole, Surface, from, to
  <2>9. Sound(n)
    BY <2>6, <2>7, <2>8 DEF Sound, Joins
  <2>10. Others(n, m)
    BY <1>0, <2>7 DEF Others
  <2>11. s.open \ {o} \subseteq Open(n)
    <3> SUFFICES ASSUME NEW x \in s.open, x # o PROVE x \in EndsOf(n) /\ n.link[x] = NoEdge
      BY DEF Open
    <3>1. x \in EndsOf(s.m) /\ s.m.link[x] = NoEdge /\ x \in Ends /\ x # e
      BY <1>0, <2>3 DEF Open
    <3> QED BY <3>1, <2>7, <2>8
  <2>12. t.m = n /\ t.open = s.open \ {o} /\ t = [m |-> t.m, open |-> t.open]
    BY <2>1 DEF n
  <2> QED BY <1>0, <2>9, <2>10, <2>11, <2>12 DEF Computing
<1> QED BY <1>1, <1>2, <1>3

\* fast_compute_edge_links() leaves a sound mesh.
LEMMA ComputedSound ==
  ASSUME NEW m, Sound(m), NEW n \in WithComputedLinks(m)
  PROVE  Sound(n) /\ Others(n, m)
<1> DEFINE N == 3 * MaxPolys
           x0 == {[m |-> m, open |-> {}]}
           All == [m : Meshes, open : SUBSET Ends]
           S(k, ss) == UNION {ComputeLink(s, NthEdge(k + 1)) : s \in ss}
           T == [k \in 0 .. N |-> SUBSET {s \in All : Computing(s, m, k)}]
           F == [k \in 0 .. N - 1 |-> [ss \in T[k] |-> S(k, ss)]]
<1>0. N \in Nat
  BY BoundsAssumption
<1>1. ASSUME NEW s, NEW k, Computing(s, m, k) PROVE s \in All
  <2>1. Sound(s.m) /\ s = [m |-> s.m, open |-> s.open] /\ s.open \subseteq Open(s.m)
    BY <1>1 DEF Computing
  <2>2. s.m \in Meshes /\ s.open \subseteq Ends
    BY <2>1, WholeIn, EndsOfAre DEF Sound, Open
  <2> QED BY <2>1, <2>2
<1> HIDE DEF All
<1>2. ASSUME NEW k \in 0 .. N - 1, NEW ss \in T[k] PROVE S(k, ss) \in T[k + 1]
  <2>1. k \in Nat /\ k \in 0 .. N /\ k + 1 \in 0 .. N
    BY <1>0
  <2>2. \A s \in ss : Computing(s, m, k)
    BY <2>1
  <2>3. ASSUME NEW t \in S(k, ss) PROVE t \in All /\ Computing(t, m, k + 1)
    <3>1. PICK s \in ss : t \in ComputeLink(s, NthEdge(k + 1))
      OBVIOUS
    <3>2. Computing(t, m, k + 1)
      BY <2>1, <2>2, <3>1, ComputeLinkKeeps
    <3> QED BY <3>2, <1>1
  <2> HIDE DEF S
  <2> QED BY <2>1, <2>3
<1>3. x0 \in T[0]
  <2> DEFINE s0 == [m |-> m, open |-> {}]
  <2>1. s0.m = m /\ s0.open = {} /\ s0 = [m |-> s0.m, open |-> s0.open]
    OBVIOUS
  <2> HIDE DEF s0
  <2>2. Computing(s0, m, 0)
    BY <2>1 DEF Computing, Others
  <2>3. s0 \in All
    BY <2>2, <1>1
  <2> QED BY <1>0, <2>2, <2>3 DEF s0
<1> HIDE DEF S, T
<1>4. \A k \in 0 .. N - 1 : \A ss \in T[k] : F[k][ss] = S(k, ss)
  OBVIOUS
<1> HIDE DEF F
<1>5. Takes(T, N, F)
  BY <1>2, <1>4 DEF Takes
<1>6. PICK g : AreTurns(g, N, x0, F) /\ \A k \in 0 .. N : g[k] \in T[k]
  <2> HIDE DEF x0, N
  <2> QED BY <1>0, <1>3, <1>5, LoopRuns
<1> DEFINE Is(h) == h = [k \in 0 .. N |->
                           IF k = 0 THEN x0
                           ELSE UNION {ComputeLink(s, NthEdge(k)) : s \in h[k - 1]}]
<1>7. Is(g)
  <2>1. g[0] = x0 /\ g = [k \in 0 .. N |-> g[k]]
    BY <1>6 DEF AreTurns
  <2>2. ASSUME NEW k \in 0 .. N, k # 0
        PROVE  g[k] = UNION {ComputeLink(s, NthEdge(k)) : s \in g[k - 1]}
    <3>1. k - 1 \in 0 .. N - 1 /\ k - 1 \in 0 .. N /\ (k - 1) + 1 = k
      BY <1>0, <2>2
    <3>2. g[k] = S(k - 1, g[k - 1])
      BY <1>4, <1>6, <3>1 DEF AreTurns
    <3> QED BY <3>1, <3>2 DEF S
  <2> HIDE DEF x0, N
  <2> QED BY <2>1, <2>2
<1>8. PICK h : Is(h) /\ WithComputedLinks(m) = {s.m : s \in h[N]}
  <2>1. WithComputedLinks(m) = {s.m : s \in (CHOOSE h : Is(h))[N]}
    BY DEF WithComputedLinks
  <2>2. Is(CHOOSE h : Is(h))
    <3> HIDE DEF Is
    <3> QED BY <1>7
  <2> HIDE DEF Is
  <2> QED BY <2>1, <2>2
<1>9. \A k \in 0 .. N : h[k] \in T[k]
  <2>1. h[0] = x0
    BY <1>0, <1>8
  <2>2. ASSUME NEW k \in 0 .. N - 1 PROVE h[k + 1] = S(k, h[k])
    <3>1. k + 1 \in 0 .. N /\ k + 1 # 0 /\ (k + 1) - 1 = k
      BY <1>0
    <3> QED BY <1>8, <3>1 DEF S
  <2>3. \A k \in 0 .. N - 1 : h[k] \in T[k] => h[k + 1] \in T[k + 1]
    BY <1>2, <2>2
  <2> HIDE DEF x0, N, Is
  <2> QED BY <1>0, <1>3, <2>1, <2>3, TurnsStay
<1>10. h[N] \in T[N] /\ N \in 0 .. N
  BY <1>0, <1>9
<1>11. \A s \in h[N] : Computing(s, m, N)
  BY <1>10 DEF T
<1> HIDE DEF Is, N
<1>12. PICK s \in h[N] : n = s.m
  BY <1>8
<1> QED BY <1>11, <1>12 DEF Computing

----------------------------------------------------------------------------
(* mesh_append_inplace() into an empty mesh *)

CornersIn(triangles) == UNION {{t[1], t[2], t[3]} : t \in ToSet(triangles)}

\* The mesh after the first k triangles.
Appending(n, triangles, k) ==
  /\ Unlinked(n) /\ n.verts = CornersIn(triangles)
  /\ IsFiniteSet(PolysOf(n)) /\ Cardinality(PolysOf(n)) = k

\* One turn of mesh_append_inplace() keeps what the loop relies on.
LEMMA AppendKeeps ==
  ASSUME NEW triangles \in Seq(Verts \X Verts \X Verts), Len(triangles) <= MaxPolys,
         NEW k \in 0 .. Len(triangles) - 1, NEW n, Appending(n, triangles, k)
  PROVE  Appending(WithPoly(n, FirstNew(n), triangles[k + 1]), triangles, k + 1)
<1> DEFINE p == FirstNew(n)
           t == triangles[k + 1]
           q == WithPoly(n, p, t)
<1>0. /\ Unlinked(n) /\ Surface(n) /\ n.verts = CornersIn(triangles)
      /\ IsFiniteSet(PolysOf(n)) /\ Cardinality(PolysOf(n)) = k /\ n.ok
      /\ n.link = [e \in Ends |-> NoEdge]
  BY DEF Appending, Unlinked
<1>1. MaxPolys \in Nat /\ Len(triangles) \in Nat /\ k \in Nat /\ k < MaxPolys
  BY BoundsAssumption
<1>2. NewPolys(n) # {}
  <2> SUFFICES ASSUME NewPolys(n) = {} PROVE FALSE
    OBVIOUS
  <2>1. PolysOf(n) = 0 .. MaxPolys - 1
    BY DEF NewPolys, PolysOf, Polys
  <2>2. Cardinality(0 .. MaxPolys - 1) = IF 0 > MaxPolys - 1 THEN 0 ELSE MaxPolys - 1 - 0 + 1
    <3>1. 0 \in Int /\ MaxPolys - 1 \in Int
      BY <1>1
    <3> QED BY <3>1, FS_Interval
  <2> QED BY <1>0, <1>1, <2>1, <2>2
<1>3. p \in NewPolys(n)
  BY <1>2, FirstNewIs
<1>4. t[1] \in n.verts /\ t[2] \in n.verts /\ t[3] \in n.verts
  <2>1. k + 1 \in 1 .. Len(triangles)
    BY <1>1
  <2>2. t \in ToSet(triangles)
    BY <2>1 DEF ToSet
  <2> HIDE DEF t
  <2>3. {t[1], t[2], t[3]} \subseteq CornersIn(triangles)
    BY <2>2 DEF CornersIn
  <2> QED BY <1>0, <2>3
<1> HIDE DEF p, t
<1>5. Added(q, n, p, t)
  BY <1>0, <1>3, <1>4, WithPolyKeeps
<1> HIDE DEF q
<1>6. Surface(q) /\ q.link = n.link /\ q.verts = n.verts /\ q.ok /\ PolysOf(q) = PolysOf(n) \cup {p}
  BY <1>0, <1>5 DEF Added
<1>7. p \notin PolysOf(n)
  BY <1>3 DEF NewPolys
<1>8. IsFiniteSet(PolysOf(q)) /\ Cardinality(PolysOf(q)) = k + 1
  <2> DEFINE P == PolysOf(n)
  <2>1. IsFiniteSet(P \cup {p}) /\ Cardinality(P \cup {p}) = Cardinality(P) + 1
    <3>1. IsFiniteSet(P) /\ p \notin P
      BY <1>0, <1>7
    <3> HIDE DEF P
    <3> QED BY <3>1, FS_AddElement
  <2> QED BY <1>0, <1>6, <2>1
<1>9. Appending(q, triangles, k + 1)
  BY <1>0, <1>6, <1>8 DEF Appending, Unlinked
<1> QED BY <1>9 DEF q, p, t

\* It begins with what it relies on.
LEMMA EmptyAppending ==
  ASSUME NEW triangles \in Seq(Verts \X Verts \X Verts)
  PROVE  Appending([EmptyMesh EXCEPT !.verts = @ \cup CornersIn(triangles)], triangles, 0)
<1> DEFINE C == CornersIn(triangles)
           n == [EmptyMesh EXCEPT !.verts = @ \cup C]
<1>1. C \subseteq Verts
  <2>1. \A i \in 1 .. Len(triangles) : triangles[i] \in Verts \X Verts \X Verts
    OBVIOUS
  <2>2. \A t \in ToSet(triangles) : t \in Verts \X Verts \X Verts
    BY <2>1 DEF ToSet
  <2>3. \A t \in Verts \X Verts \X Verts : t[1] \in Verts /\ t[2] \in Verts /\ t[3] \in Verts
    OBVIOUS
  <2> QED BY <2>2, <2>3 DEF CornersIn
<1> HIDE DEF C
<1>2. n = [verts |-> C, corners |-> [p \in Polys |-> NoVerts],
           link |-> [e \in Ends |-> NoEdge], poly_links |-> [v \in Verts |-> {}], ok |-> TRUE]
  <2> DEFINE E == EmptyMesh
  <2>1. /\ E.verts = {} /\ E.corners = [p \in Polys |-> NoVerts]
        /\ E.link = [e \in Ends |-> NoEdge] /\ E.poly_links = [v \in Verts |-> {}] /\ E.ok = TRUE
    BY DEF EmptyMesh
  <2>2. IsMesh(E)
    BY <2>1 DEF EmptyMesh, IsMesh, Has
  <2> HIDE DEF E
  <2>3. n = [E EXCEPT !.verts = C]
    BY <2>1 DEF E
  <2>4. Has([E EXCEPT !.verts = C], C, E.corners, E.link, E.poly_links)
        /\ [E EXCEPT !.verts = C].ok = E.ok
    BY <2>2, SetVerts, Zenon
  <2> QED BY <2>1, <2>3, <2>4 DEF Has
<1> HIDE DEF n
<1>3. /\ n.verts = C /\ n.corners = [p \in Polys |-> NoVerts] /\ n.link = [e \in Ends |-> NoEdge]
      /\ n.poly_links = [v \in Verts |-> {}] /\ n.ok
  BY <1>2
<1>4. PolysOf(n) = {} /\ EndsOf(n) = {}
  BY <1>3 DEF PolysOf, EndsOf
<1>5. IsMesh(n)
  BY <1>2, <1>3 DEF IsMesh, Has
<1>6. Surface(n)
  BY <1>1, <1>3, <1>4, <1>5 DEF Surface
<1>7. Appending(n, triangles, 0)
  BY <1>3, <1>4, <1>6, FS_EmptySet DEF Appending, Unlinked, C
<1> QED BY <1>7 DEF n, C

\* mesh_append_inplace() of triangles makes a sound mesh of an empty one.
LEMMA AppendedSound ==
  ASSUME NEW triangles \in Seq(Verts \X Verts \X Verts), Len(triangles) <= MaxPolys
  PROVE  Sound(Appended(EmptyMesh, triangles))
<1> DEFINE N == Len(triangles)
           x0 == [EmptyMesh EXCEPT !.verts = @ \cup CornersIn(triangles)]
           S(k, n) == WithPoly(n, FirstNew(n), triangles[k + 1])
           T == [k \in 0 .. N |-> {n \in Meshes : Appending(n, triangles, k)}]
           F == [k \in 0 .. N - 1 |-> [n \in T[k] |-> S(k, n)]]
<1>0. N \in Nat
  OBVIOUS
<1>1. ASSUME NEW n, NEW k, Appending(n, triangles, k) PROVE n \in Meshes
  BY <1>1, UnlinkedSound, WholeIn DEF Appending, Sound
<1>2. ASSUME NEW k \in 0 .. N - 1, NEW n \in T[k] PROVE S(k, n) \in T[k + 1]
  <2>1. k \in 0 .. N /\ k + 1 \in 0 .. N
    BY <1>0
  <2>2. Appending(n, triangles, k)
    BY <2>1
  <2>3. Appending(S(k, n), triangles, k + 1)
    BY <2>2, AppendKeeps
  <2> HIDE DEF S
  <2>4. S(k, n) \in Meshes
    BY <2>3, <1>1
  <2> QED BY <2>1, <2>3, <2>4
<1>3. x0 \in T[0]
  <2>1. Appending(x0, triangles, 0)
    BY EmptyAppending
  <2> HIDE DEF x0
  <2> QED BY <1>0, <1>1, <2>1
<1> HIDE DEF S, T
<1>4. \A k \in 0 .. N - 1 : \A n \in T[k] : F[k][n] = S(k, n)
  OBVIOUS
<1> HIDE DEF F
<1>5. Takes(T, N, F)
  BY <1>2, <1>4 DEF Takes
<1>6. PICK g : AreTurns(g, N, x0, F) /\ \A k \in 0 .. N : g[k] \in T[k]
  <2> HIDE DEF x0, N
  <2> QED BY <1>0, <1>3, <1>5, LoopRuns
<1> DEFINE Is(h) == h = [k \in 0 .. N |->
                           IF k = 0 THEN x0
                           ELSE LET n == h[k - 1] IN WithPoly(n, FirstNew(n), triangles[k])]
<1>7. Is(g)
  <2>1. g[0] = x0 /\ g = [k \in 0 .. N |-> g[k]]
    BY <1>6 DEF AreTurns
  <2>2. ASSUME NEW k \in 0 .. N, k # 0
        PROVE  g[k] = WithPoly(g[k - 1], FirstNew(g[k - 1]), triangles[k])
    <3>1. k - 1 \in 0 .. N - 1 /\ k - 1 \in 0 .. N /\ (k - 1) + 1 = k
      BY <1>0, <2>2
    <3>2. g[k] = S(k - 1, g[k - 1])
      BY <1>4, <1>6, <3>1 DEF AreTurns
    <3> QED BY <3>1, <3>2 DEF S
  <2> HIDE DEF x0, N
  <2> QED BY <2>1, <2>2
<1>8. PICK h : Is(h) /\ Appended(EmptyMesh, triangles) = h[N]
  <2>1. Appended(EmptyMesh, triangles) = (CHOOSE h : Is(h))[N]
    BY DEF Appended, CornersIn
  <2>2. Is(CHOOSE h : Is(h))
    <3> HIDE DEF Is
    <3> QED BY <1>7
  <2> HIDE DEF Is
  <2> QED BY <2>1, <2>2
<1>9. \A k \in 0 .. N : h[k] \in T[k]
  <2>1. h[0] = x0
    BY <1>0, <1>8
  <2>2. ASSUME NEW k \in 0 .. N - 1 PROVE h[k + 1] = S(k, h[k])
    <3>1. k + 1 \in 0 .. N /\ k + 1 # 0 /\ (k + 1) - 1 = k
      BY <1>0
    <3> QED BY <1>8, <3>1 DEF S
  <2>3. \A k \in 0 .. N - 1 : h[k] \in T[k] => h[k + 1] \in T[k + 1]
    BY <1>2, <2>2
  <2> HIDE DEF x0, N, Is
  <2> QED BY <1>0, <1>3, <2>1, <2>3, TurnsStay
<1>10. h[N] \in T[N] /\ N \in 0 .. N
  BY <1>0, <1>9
<1>11. Appending(h[N], triangles, N)
  BY <1>10 DEF T
<1> HIDE DEF Is, N
<1> QED BY <1>8, <1>11, UnlinkedSound DEF Appending

----------------------------------------------------------------------------
\* remove_inverted() leaves a sound mesh, whichever parts it takes out.
LEMMA RemoveInvertedSound ==
  ASSUME NEW m, Sound(m), NEW n \in WithComputedLinks(m), NEW ps \in LinkedParts(n)
  PROVE  Sound(WithoutPolys(n, ps))
<1>1. Sound(n)
  BY ComputedSound
<1>2. ps \in SUBSET PolysOf(n)
  BY DEF LinkedParts
<1> QED BY <1>1, <1>2, WithoutPolysSound

\* remove_2sided_and_double() leaves a sound mesh.
LEMMA Remove2sidedSound ==
  ASSUME NEW m, Sound(m)
  PROVE  Sound(WithoutPolys(m, RemovedBy2sided(m)))
<1>1. RemovedBy2sided(m) \in SUBSET PolysOf(m)
  BY DEF RemovedBy2sided
<1> QED BY <1>1, WithoutPolysSound

\* The edges of a polygon by number.
LEMMA EdgesAre ==
  ASSUME NEW p \in Polys
  PROVE  /\ {<<p, 0>>, <<p, 1>>, <<p, 2>>} \subseteq Ends
         /\ <<p, 0>> # <<p, 1>> /\ <<p, 0>> # <<p, 2>> /\ <<p, 1>> # <<p, 2>>
         /\ Turn(<<p, 0>>, 1) = <<p, 1>> /\ Turn(<<p, 1>>, 1) = <<p, 2>>
         /\ Turn(<<p, 2>>, 1) = <<p, 0>>
         /\ <<p, 0>>[1] = p /\ <<p, 1>>[1] = p /\ <<p, 2>>[1] = p
         /\ \A x \in Ends : x[1] = p <=> x \in {<<p, 0>>, <<p, 1>>, <<p, 2>>}
<1>1. {<<p, 0>>, <<p, 1>>, <<p, 2>>} \subseteq Ends
  BY DEF Ends
<1>2. /\ Turn(<<p, 0>>, 1) = <<p, 1>> /\ Turn(<<p, 1>>, 1) = <<p, 2>>
      /\ Turn(<<p, 2>>, 1) = <<p, 0>>
  BY DEF Turn
<1>3. \A x \in Ends : x[2] \in {0, 1, 2} /\ x = <<x[1], x[2]>>
  BY EndsAre
<1> QED BY <1>1, <1>2, <1>3

\* Where the corners of a polygon are.
LEMMA LabelsAre ==
  ASSUME NEW m, NEW x \in Ends
  PROVE  Froms(m)[x] = Vert(m, x) /\ Tos(m)[x] = Vert(m, Turn(x, 1))
BY DEF Froms, Tos, From, To

\* Only what is linked is joined.
LEMMA Relabelled ==
  ASSUME NEW m, Mutual(m), NEW from, NEW to, JoinedBy(m, from, to), NEW f, NEW t,
         \A e \in Ends : m.link[e] # NoEdge => f[e] = from[e] /\ t[e] = to[e]
  PROVE  JoinedBy(m, f, t)
<1> SUFFICES ASSUME NEW e \in Ends, m.link[e] # NoEdge PROVE f[m.link[e]] = t[e]
  BY DEF JoinedBy
<1>1. m.link[e] \in Ends /\ m.link[m.link[e]] = e
  BY EndsOfAre DEF Mutual
<1>2. m.link[m.link[e]] # NoEdge
  BY <1>1, NoneAssumption
<1> QED BY <1>1, <1>2 DEF JoinedBy

\* What there is to know of a sound mesh.
LEMMA SoundJoins ==
  ASSUME NEW m, Sound(m)
  PROVE  Whole(m) /\ Surface(m) /\ Mutual(m) /\ JoinedBy(m, Froms(m), Tos(m))
BY DEF Sound, Whole, Joins

\* change_vert() leaves a whole mesh, though what its links join may differ.
LEMMA ChangeVertWhole ==
  ASSUME NEW m, Whole(m), NEW c \in EndsOf(m), NEW v \in m.verts
  PROVE  Whole(ChangeVert(m, c, v)) /\ Changed(ChangeVert(m, c, v), m, c, v)
<1> DEFINE n == ChangeVert(m, c, v)
<1>1. Changed(n, m, c, v)
  BY ChangeVertKeeps DEF Whole
<1> HIDE DEF n
<1>2. Surface(n) /\ n.link = m.link /\ (m.ok => n.ok) /\ EndsOf(n) = EndsOf(m)
  BY <1>1 DEF Changed
<1>3. Mutual(n)
  BY <1>2 DEF Whole, Mutual
<1>4. Whole(n) /\ Changed(n, m, c, v)
  BY <1>1, <1>2, <1>3 DEF Whole
<1> QED BY <1>4 DEF n

----------------------------------------------------------------------------
----------------------------------------------------------------------------
(* Relink() *)

\* What m is with the link of one edge moved to another.
Relinked(n, m, old, new) ==
  /\ Whole(n) /\ Others(n, m)
  /\ n.link[old] = NoEdge
  /\ \A x \in Ends : x # new /\ m.link[x] = NoEdge => n.link[x] = NoEdge
  /\ \A x \in Ends : x \notin {old, new} /\ m.link[x] # old => n.link[x] = m.link[x]

\* A link moves to another edge between the same ends.
LEMMA RelinkKeeps ==
  ASSUME NEW m, Whole(m), NEW old \in EndsOf(m), NEW new \in EndsOf(m), old # new,
         m.link[new] = NoEdge, NEW from, NEW to, JoinedBy(m, from, to),
         from[new] = from[old], to[new] = to[old]
  PROVE  /\ Relinked(Relink(m, old, new), m, old, new)
         /\ JoinedBy(Relink(m, old, new), from, to)
<1> DEFINE other == m.link[old]
<1>0. old \in Ends /\ new \in Ends
  BY EndsOfAre
<1>1. CASE other = NoEdge
  <2>1. Relink(m, old, new) = m
    BY <1>1 DEF Relink
  <2> QED BY <1>1, <2>1 DEF Relinked, Others
<1>2. CASE other # NoEdge
  <2> DEFINE u == Unlink(m, old)
             n == Link(u, other, new)
  <2>1. Relink(m, old, new) = n
    BY <1>2 DEF Relink
  <2>2. other \in EndsOf(m) /\ other \in Ends /\ other # old /\ m.link[other] = old
    BY <1>0, <1>2, EndsOfAre DEF Whole, Mutual
  <2>3. other # new
    BY <1>0, <2>2, NoneAssumption
  <2>4. from[other] = to[old] /\ from[old] = to[other]
    BY <1>0, <1>2, <2>2, NoneAssumption DEF JoinedBy
  <2> HIDE DEF n
  <2>5. /\ Whole(u) /\ Others(u, m)
        /\ u.link[old] = NoEdge /\ u.link[other] = NoEdge
        /\ \A x \in Ends \ {old, other} : u.link[x] = m.link[x]
        /\ JoinedBy(u, from, to)
    BY <1>0, <1>2, UnlinkKeeps, UnlinkJoins
  <2> HIDE DEF u, other
  <2>6. EndsOf(u) = EndsOf(m)
    BY <2>5, SurfaceKept DEF Whole, Surface
  <2>7. u.link[new] = NoEdge
    BY <1>0, <2>3, <2>5
  <2>8. /\ Whole(n) /\ Others(n, u)
        /\ n.link[other] = new /\ n.link[new] = other
        /\ \A x \in Ends \ {other, new} : n.link[x] = u.link[x]
    BY <2>2, <2>3, <2>5, <2>6, <2>7, LinkKeeps DEF n
  <2>9. JoinedBy(n, from, to)
    BY <2>2, <2>3, <2>4, <2>5, <2>6, <2>7, LinkJoins DEF n
  <2>10. Relinked(n, m, old, new)
    <3>1. Others(n, m)
      BY <2>5, <2>8 DEF Others
    <3>2. n.link[old] = NoEdge
      BY <1>0, <2>2, <2>5, <2>8
    <3>3. \A x \in Ends : x # new /\ m.link[x] = NoEdge => n.link[x] = NoEdge
      BY <1>0, <2>2, <2>5, <2>8, NoneAssumption
    <3>4. \A x \in Ends : x \notin {old, new} /\ m.link[x] # old => n.link[x] = m.link[x]
      BY <1>0, <2>2, <2>5, <2>8
    <3> QED BY <2>8, <3>1, <3>2, <3>3, <3>4 DEF Relinked
  <2> QED BY <2>1, <2>9, <2>10
<1> QED BY <1>1, <1>2

----------------------------------------------------------------------------
----------------------------------------------------------------------------
(* split_edge() *)

\* m with the polygon of ab split at p: ab's own link has still to be split.
SplitOnce(n, m, ab, p, q) ==
  /\ Whole(n) /\ n.verts = m.verts
  /\ PolysOf(n) = PolysOf(m) \cup {q}
  /\ n.link[ab] = m.link[ab] /\ n.link[<<q, 0>>] = NoEdge
  /\ JoinedBy(n, Froms(n), [Tos(n) EXCEPT ![ab] = To(m, ab)])
  /\ \A x \in EndsOf(m) : x # Turn(ab, 1) => Vert(n, x) = Vert(m, x)
  /\ Vert(n, Turn(ab, 1)) = p
  /\ Vert(n, <<q, 0>>) = p /\ Vert(n, <<q, 1>>) = To(m, ab) /\ Vert(n, <<q, 2>>) = Opposite(m, ab)

\* The upper half of split_edge() leaves all but the edge itself joined.
LEMMA SplitAboveKeeps ==
  ASSUME NEW m, Sound(m), NEW ab \in EndsOf(m), From(m, ab) # Opposite(m, ab),
         NEW p \in m.verts, NEW q \in NewPolys(m)
  PROVE  SplitOnce(SplitAbove(m, ab, p, q), m, ab, p, q)
<1> DEFINE bc == Turn(ab, 1)
           q0 == <<q, 0>>
           q1 == <<q, 1>>
           q2 == <<q, 2>>
           B == To(m, ab)
           C == Opposite(m, ab)
           t == <<p, B, C>>
           m1 == WithPoly(m, q, t)
           m2 == ChangeVert(m1, bc, p)
           m3 == Relink(m2, bc, q1)
           n == Link(m3, bc, q2)
           f1 == Froms(m1)
           t1 == Tos(m1)
           f2 == Froms(m2)
           t2 == [Tos(m2) EXCEPT ![ab] = B]
<1>1. SplitAbove(m, ab, p, q) = n
  BY DEF SplitAbove
<1>2. /\ ab \in Ends /\ bc \in Ends /\ bc \in EndsOf(m) /\ bc # ab
      /\ Turn(bc, 1) = Turn(ab, 2) /\ Turn(bc, 1) # bc /\ Turn(bc, 1) \in EndsOf(m)
      /\ \A x \in Ends : Turn(x, 1) = bc => x = ab
      /\ B \in m.verts /\ C \in m.verts
      /\ Vert(m, ab) = From(m, ab) /\ Vert(m, bc) = B /\ Vert(m, Turn(bc, 1)) = C
  <2>1. ab \in Ends /\ bc \in EndsOf(m) /\ bc \in Ends
    BY EndsOfAre
  <2>2. \A x \in Ends : Turn(Turn(x, 1), 2) = x
    BY TurnsAre
  <2>3. bc # ab /\ Turn(bc, 1) = Turn(ab, 2) /\ Turn(bc, 1) # bc /\ Turn(bc, 2) = ab
        /\ Turn(bc, 1) \in EndsOf(m)
    BY <2>1, TurnsAre, EndsOfAre
  <2>4. Surface(m)
    BY SoundJoins
  <2>5. {B, C} \subseteq m.verts /\ B = Vert(m, bc) /\ C = Vert(m, Turn(ab, 2))
        /\ From(m, ab) = Vert(m, ab)
    BY <2>4, SurfaceHas
  <2> QED BY <2>1, <2>2, <2>3, <2>5
<1>3. /\ q \in Polys /\ q \notin PolysOf(m) /\ {q0, q1, q2} \subseteq Ends
      /\ q0 # q1 /\ q0 # q2 /\ q1 # q2
      /\ Turn(q0, 1) = q1 /\ Turn(q1, 1) = q2 /\ Turn(q2, 1) = q0
      /\ \A x \in EndsOf(m) : x \in Ends /\ x[1] # q /\ x \notin {q0, q1, q2}
      /\ q0[1] = q /\ q1[1] = q /\ q2[1] = q
  <2>1. q \in Polys /\ q \notin PolysOf(m) /\ m.corners[q] = NoVerts
    BY DEF NewPolys, PolysOf
  <2>2. \A x \in EndsOf(m) : x \in Ends /\ x[1] # q
    BY <2>1, EndsOfAre
  <2> QED BY <2>1, <2>2, EdgesAre
<1>4. Whole(m) /\ Surface(m) /\ Mutual(m)
  BY SoundJoins
<1> HIDE DEF bc, q0, q1, q2, B, C
<1>5. t[1] = p /\ t[2] = B /\ t[3] = C
  OBVIOUS
<1>6. Sound(m1) /\ Added(m1, m, q, t)
  <2>1. t[1] \in m.verts /\ t[2] \in m.verts /\ t[3] \in m.verts
    BY <1>2, <1>5
  <2> HIDE DEF t
  <2> QED BY <1>4, <2>1, WithPolySound, WithPolyKeeps
<1> HIDE DEF m1, t
<1>7. /\ Whole(m1) /\ Mutual(m1) /\ JoinedBy(m1, f1, t1)
      /\ m1.link = m.link /\ m1.verts = m.verts /\ PolysOf(m1) = PolysOf(m) \cup {q}
      /\ EndsOf(m) \subseteq EndsOf(m1) /\ {q0, q1, q2} \subseteq EndsOf(m1)
      /\ \A x \in EndsOf(m) : Vert(m1, x) = Vert(m, x)
      /\ Vert(m1, q0) = p /\ Vert(m1, q1) = B /\ Vert(m1, q2) = C
  <2>1. Whole(m1) /\ Mutual(m1) /\ JoinedBy(m1, f1, t1)
    BY <1>6, SoundJoins
  <2>2. /\ m1.link = m.link /\ m1.verts = m.verts /\ PolysOf(m1) = PolysOf(m) \cup {q}
        /\ \A x \in Ends : x \in EndsOf(m1) <=> x \in EndsOf(m) \/ x[1] = q
        /\ \A x \in Ends : x[1] # q => Vert(m1, x) = Vert(m, x)
        /\ Vert(m1, q0) = p /\ Vert(m1, q1) = B /\ Vert(m1, q2) = C
    BY <1>5, <1>6 DEF Added, q0, q1, q2
  <2> QED BY <1>3, <2>1, <2>2
<1>8. m.link[q0] = NoEdge /\ m.link[q1] = NoEdge /\ m.link[q2] = NoEdge
      /\ \A x \in Ends : m.link[x] \notin {q0, q1, q2}
  BY <1>3, <1>4, NewOpen
<1>9. Whole(m2) /\ Changed(m2, m1, bc, p)
  BY <1>2, <1>7, ChangeVertWhole
<1> HIDE DEF m2
<1>10. /\ Whole(m2) /\ m2.link = m.link /\ m2.verts = m.verts /\ PolysOf(m2) = PolysOf(m1)
       /\ EndsOf(m2) = EndsOf(m1) /\ Vert(m2, bc) = p
       /\ \A x \in Ends : x # bc => Vert(m2, x) = Vert(m1, x)
       /\ JoinedBy(m2, f1, t1)
  BY <1>7, <1>9 DEF Changed, JoinedBy
<1>11. Relinked(m3, m2, bc, q1) /\ JoinedBy(m3, f1, t1)
  <2>1. f1[q1] = f1[bc] /\ t1[q1] = t1[bc]
    BY <1>2, <1>3, <1>7, LabelsAre
  <2>2. bc \in EndsOf(m2) /\ q1 \in EndsOf(m2) /\ bc # q1 /\ m2.link[q1] = NoEdge
    BY <1>2, <1>3, <1>7, <1>8, <1>10
  <2> HIDE DEF f1, t1
  <2> QED BY <1>10, <2>1, <2>2, RelinkKeeps
<1> HIDE DEF m3
<1>12. m.link[ab] # bc
  <2> SUFFICES ASSUME m.link[ab] = bc PROVE FALSE
    OBVIOUS
  <2>1. m.link[bc] = ab /\ ab # NoEdge
    BY <1>2, <1>4, NoneAssumption DEF Mutual
  <2>2. From(m, ab) = To(m, bc)
    BY <1>2, <1>4, <2>1, JoinsIs DEF Sound
  <2> QED BY <1>2, <2>2 DEF To, C
<1>13. /\ Whole(m3) /\ Mutual(m3) /\ Others(m3, m2)
       /\ m3.link[bc] = NoEdge /\ m3.link[q0] = NoEdge /\ m3.link[q2] = NoEdge
       /\ m3.link[ab] = m.link[ab]
  <2>1. /\ Whole(m3) /\ Others(m3, m2)
        /\ m3.link[bc] = NoEdge
        /\ \A x \in Ends : x # q1 /\ m.link[x] = NoEdge => m3.link[x] = NoEdge
        /\ \A x \in Ends : x \notin {bc, q1} /\ m.link[x] # bc => m3.link[x] = m.link[x]
    BY <1>10, <1>11 DEF Relinked
  <2> QED BY <1>2, <1>3, <1>8, <1>12, <2>1 DEF Whole
<1>14. JoinedBy(m3, f2, t2)
  <2> SUFFICES \A e \in Ends : m3.link[e] # NoEdge => f2[e] = f1[e] /\ t2[e] = t1[e]
    <3> HIDE DEF f1, t1, f2, t2
    <3> QED BY <1>11, <1>13, Relabelled
  <2> SUFFICES ASSUME NEW e \in Ends, m3.link[e] # NoEdge
               PROVE  f2[e] = f1[e] /\ t2[e] = t1[e]
    OBVIOUS
  <2>1. e # bc
    BY <1>13
  <2>2. f2[e] = f1[e]
    BY <1>10, <2>1, LabelsAre
  <2>3. CASE e = ab
    <3>1. t2[ab] = B
      BY <1>2 DEF Tos
    <3>2. t1[ab] = B
      BY <1>2, <1>7, LabelsAre DEF bc
    <3> QED BY <2>2, <2>3, <3>1, <3>2
  <2>4. CASE e # ab
    <3>1. Turn(e, 1) # bc /\ Turn(e, 1) \in Ends
      BY <1>2, <2>4, TurnsAre
    <3>2. t2[e] = Tos(m2)[e]
      BY <2>4 DEF Tos
    <3> QED BY <1>10, <2>2, <3>1, <3>2, LabelsAre
  <2> QED BY <2>3, <2>4
<1>15. EndsOf(m3) = EndsOf(m2) /\ Froms(m3) = f2 /\ Tos(m3) = Tos(m2)
  BY <1>10, <1>13, SurfaceKept DEF Whole, Surface
<1>16. f2[q2] = t2[bc] /\ f2[bc] = t2[q2]
  <2>1. t2[bc] = Tos(m2)[bc] /\ t2[q2] = Tos(m2)[q2]
    BY <1>2, <1>3 DEF Tos
  <2>2. Tos(m2)[bc] = C
    BY <1>2, <1>3, <1>7, <1>10, LabelsAre
  <2>3. Tos(m2)[q2] = p
    BY <1>2, <1>3, <1>7, <1>10, LabelsAre
  <2>4. f2[q2] = C /\ f2[bc] = p
    BY <1>2, <1>3, <1>7, <1>10, LabelsAre
  <2> QED BY <2>1, <2>2, <2>3, <2>4
<1>17. bc \in EndsOf(m3) /\ q2 \in EndsOf(m3) /\ bc # q2
  BY <1>2, <1>3, <1>7, <1>10, <1>15
<1>18. JoinedBy(n, f2, t2)
  <2> HIDE DEF f2, t2
  <2> QED BY <1>13, <1>14, <1>16, <1>17, LinkJoins
<1>19. Whole(n) /\ Others(n, m3) /\ \A x \in Ends \ {bc, q2} : n.link[x] = m3.link[x]
  <2> HIDE DEF f2, t2
  <2> QED BY <1>13, <1>17, LinkKeeps
<1> HIDE DEF n
<1>20. /\ PolysOf(n) = PolysOf(m3) /\ Froms(n) = Froms(m3) /\ Tos(n) = Tos(m3)
       /\ \A e : Vert(n, e) = Vert(m3, e)
  BY <1>13, <1>19, SurfaceKept DEF Whole, Surface
<1>21. PolysOf(m3) = PolysOf(m2) /\ \A e : Vert(m3, e) = Vert(m2, e)
  BY <1>10, <1>13, SurfaceKept DEF Whole, Surface
<1>22. JoinedBy(n, Froms(n), [Tos(n) EXCEPT ![ab] = To(m, ab)])
  BY <1>15, <1>18, <1>20 DEF B
<1>23. n.link[ab] = m.link[ab] /\ n.link[q0] = NoEdge /\ n.verts = m.verts
  BY <1>2, <1>3, <1>10, <1>13, <1>19 DEF Others
<1>24. /\ \A x \in EndsOf(m) : x # bc => Vert(n, x) = Vert(m, x)
       /\ Vert(n, bc) = p /\ Vert(n, q0) = p /\ Vert(n, q1) = B /\ Vert(n, q2) = C
  BY <1>2, <1>3, <1>7, <1>10, <1>20, <1>21
<1>25. PolysOf(n) = PolysOf(m) \cup {q}
  BY <1>7, <1>10, <1>20, <1>21
<1>26. SplitOnce(n, m, ab, p, q)
  BY <1>19, <1>22, <1>23, <1>24, <1>25 DEF SplitOnce, bc, q0, q1, q2, B, C
<1> QED BY <1>1, <1>26

\* A new polygon, with its own edges and what comes with it.
NewIs(m, q) ==
  /\ q \in Polys /\ q \notin PolysOf(m) /\ {<<q, 0>>, <<q, 1>>, <<q, 2>>} \subseteq Ends
  /\ <<q, 0>> # <<q, 1>> /\ <<q, 0>> # <<q, 2>> /\ <<q, 1>> # <<q, 2>>
  /\ Turn(<<q, 0>>, 1) = <<q, 1>> /\ Turn(<<q, 1>>, 1) = <<q, 2>> /\ Turn(<<q, 2>>, 1) = <<q, 0>>
  /\ \A x \in EndsOf(m) : x \in Ends /\ x[1] # q /\ x \notin {<<q, 0>>, <<q, 1>>, <<q, 2>>}
  /\ <<q, 0>>[1] = q /\ <<q, 1>>[1] = q /\ <<q, 2>>[1] = q
  /\ m.link[<<q, 0>>] = NoEdge /\ m.link[<<q, 1>>] = NoEdge /\ m.link[<<q, 2>>] = NoEdge

\* The edges of a new polygon are linked to nothing.
LEMMA NewHas ==
  ASSUME NEW m, Mutual(m), NEW q \in NewPolys(m)
  PROVE  NewIs(m, q)
<1>1. q \in Polys /\ q \notin PolysOf(m) /\ m.corners[q] = NoVerts
  BY DEF NewPolys, PolysOf
<1>2. \A x \in EndsOf(m) : x \in Ends /\ x[1] # q
  BY <1>1, EndsOfAre
<1>3. /\ {<<q, 0>>, <<q, 1>>, <<q, 2>>} \subseteq Ends
      /\ <<q, 0>> # <<q, 1>> /\ <<q, 0>> # <<q, 2>> /\ <<q, 1>> # <<q, 2>>
      /\ Turn(<<q, 0>>, 1) = <<q, 1>> /\ Turn(<<q, 1>>, 1) = <<q, 2>>
      /\ Turn(<<q, 2>>, 1) = <<q, 0>>
      /\ <<q, 0>>[1] = q /\ <<q, 1>>[1] = q /\ <<q, 2>>[1] = q
  BY <1>1, EdgesAre
<1>4. m.link[<<q, 0>>] = NoEdge /\ m.link[<<q, 1>>] = NoEdge /\ m.link[<<q, 2>>] = NoEdge
  BY <1>3, NewOpen
<1>5. \A x \in EndsOf(m) : x \notin {<<q, 0>>, <<q, 1>>, <<q, 2>>}
  BY <1>2, <1>3
<1> QED BY <1>1, <1>2, <1>3, <1>4, <1>5 DEF NewIs

\* Links join as before, by labels that the new polygon does not change.
LEMMA WithPolyLabelled ==
  ASSUME NEW m, Whole(m), NEW q \in NewPolys(m), NEW t,
         t[1] \in m.verts, t[2] \in m.verts, t[3] \in m.verts,
         NEW ab \in Ends, NEW b, JoinedBy(m, Froms(m), [Tos(m) EXCEPT ![ab] = b])
  PROVE  LET n == WithPoly(m, q, t)
         IN  /\ Whole(n) /\ Added(n, m, q, t)
             /\ JoinedBy(n, Froms(n), [Tos(n) EXCEPT ![ab] = b])
<1> DEFINE n == WithPoly(m, q, t)
           f == Froms(m)
           to == [Tos(m) EXCEPT ![ab] = b]
           g == Froms(n)
           tn == [Tos(n) EXCEPT ![ab] = b]
<1>1. Whole(n) /\ Added(n, m, q, t)
  BY WithPolyWhole, WithPolyKeeps DEF Whole
<1> HIDE DEF n
<1>2. n.link = m.link /\ \A x \in Ends : x[1] # q => Vert(n, x) = Vert(m, x)
  BY <1>1 DEF Added
<1>3. Mutual(n) /\ Mutual(m)
  BY <1>1 DEF Whole
<1>4. \A x \in EndsOf(m) : x[1] # q
  <2>1. NewIs(m, q)
    BY <1>3, NewHas
  <2> QED BY <2>1 DEF NewIs
<1>5. ASSUME NEW e \in Ends, n.link[e] # NoEdge PROVE g[e] = f[e] /\ tn[e] = to[e]
  <2>1. e \in EndsOf(m)
    BY <1>2, <1>3, <1>5 DEF Mutual
  <2>2. Turn(e, 1) \in EndsOf(m) /\ Turn(e, 1) \in Ends
    BY <2>1, EndsOfAre
  <2>3. Vert(n, e) = Vert(m, e) /\ Vert(n, Turn(e, 1)) = Vert(m, Turn(e, 1))
    BY <1>2, <1>4, <2>1, <2>2
  <2>4. Froms(n)[e] = Froms(m)[e] /\ Tos(n)[e] = Tos(m)[e]
    BY <2>3, LabelsAre
  <2>5. tn[e] = (IF e = ab THEN b ELSE Tos(n)[e]) /\ to[e] = (IF e = ab THEN b ELSE Tos(m)[e])
    BY DEF Tos
  <2> QED BY <2>4, <2>5
<1>6. JoinedBy(n, f, to)
  BY <1>2 DEF JoinedBy
<1>7. JoinedBy(n, g, tn)
  <2> HIDE DEF f, to, g, tn
  <2> QED BY <1>3, <1>5, <1>6, Relabelled
<1> QED BY <1>1, <1>7 DEF n

\* n is a with the polygon of ba split at p, too; the new polygon is q.
SplitTwice(n, a, ba, p, b, q) ==
  /\ PolysOf(n) = PolysOf(a) \cup {q}
  /\ \A x \in EndsOf(a) : x # ba => Vert(n, x) = Vert(a, x)
  /\ Vert(n, ba) = p
  /\ Vert(n, <<q, 0>>) = p /\ Vert(n, <<q, 1>>) = Opposite(a, ba) /\ Vert(n, <<q, 2>>) = b

\* The other side of ab, too.
LEMMA SplitBelowSound ==
  ASSUME NEW a, Whole(a), NEW ab \in EndsOf(a), NEW ba \in EndsOf(a), a.link[ab] = ba,
         NEW p \in a.verts, Vert(a, Turn(ab, 1)) = p,
         NEW b, Vert(a, ba) = b, JoinedBy(a, Froms(a), [Tos(a) EXCEPT ![ab] = b]),
         NEW pb \in EndsOf(a), a.link[pb] = NoEdge, Vert(a, pb) = p, Vert(a, Turn(pb, 1)) = b,
         ba[1] # ab[1], ba[1] # pb[1],
         NEW q \in NewPolys(a)
  PROVE  LET n == SplitBelow(a, ba, p, b, q, pb) IN Sound(n) /\ SplitTwice(n, a, ba, p, b, q)
<1> DEFINE db == Turn(ba, 2)
           q0 == <<q, 0>>
           q1 == <<q, 1>>
           q2 == <<q, 2>>
           D == Opposite(a, ba)
           t == <<p, D, b>>
           m1 == WithPoly(a, q, t)
           m2 == ChangeVert(m1, ba, p)
           m3 == Relink(m2, db, q1)
           m4 == Link(m3, db, q0)
           n == Link(m4, pb, q2)
           f1 == Froms(m1)
           t1 == [Tos(m1) EXCEPT ![ab] = b]
           f2 == Froms(m2)
           t2 == Tos(m2)
<1>1. SplitBelow(a, ba, p, b, q, pb) = n
  BY DEF SplitBelow
<1>2. Surface(a) /\ Mutual(a) /\ NewIs(a, q)
  BY NewHas DEF Whole
<1>3. /\ ab \in Ends /\ ba \in Ends /\ db \in Ends /\ pb \in Ends
      /\ Turn(ab, 1) \in Ends /\ Turn(pb, 1) \in Ends
      /\ ab # NoEdge /\ ba # NoEdge
      /\ db \in EndsOf(a) /\ Turn(ab, 1) \in EndsOf(a) /\ Turn(pb, 1) \in EndsOf(a)
      /\ db # ba /\ Turn(db, 1) = ba
      /\ \A x \in Ends : Turn(x, 1) = ba => x = db
      /\ ab # ba /\ ab # db /\ pb # ba /\ pb # db /\ Turn(ab, 1) # ba /\ Turn(pb, 1) # ba
      /\ D = Vert(a, db) /\ D \in a.verts /\ b \in a.verts
      /\ a.link[ba] = ab
  <2>1. ab \in Ends /\ ba \in Ends /\ db \in EndsOf(a) /\ db \in Ends /\ pb \in Ends
    BY EndsOfAre
  <2>2. \A x \in Ends : Turn(x, 1) \in Ends /\ Turn(Turn(x, 1), 2) = x /\ Turn(x, 1)[1] = x[1]
    BY TurnsAre
  <2>3. db # ba /\ Turn(db, 1) = ba /\ db[1] = ba[1]
    BY <2>1, TurnsAre
  <2>4. D = Vert(a, db) /\ D \in a.verts /\ b \in a.verts
    BY <1>2, SurfaceHas
  <2>5. ab # NoEdge /\ ba # NoEdge /\ a.link[ba] = ab
    BY <1>2, <2>1, NoneAssumption DEF Mutual
  <2>6. Turn(ab, 1) \in EndsOf(a) /\ Turn(pb, 1) \in EndsOf(a)
    BY EndsOfAre
  <2> QED BY <2>1, <2>2, <2>3, <2>4, <2>5, <2>6
<1>4. /\ q \in Polys /\ q \notin PolysOf(a) /\ {q0, q1, q2} \subseteq Ends
      /\ q0 # q1 /\ q0 # q2 /\ q1 # q2
      /\ Turn(q0, 1) = q1 /\ Turn(q1, 1) = q2 /\ Turn(q2, 1) = q0
      /\ \A x \in EndsOf(a) : x \in Ends /\ x[1] # q /\ x \notin {q0, q1, q2}
      /\ q0[1] = q /\ q1[1] = q /\ q2[1] = q
      /\ a.link[q0] = NoEdge /\ a.link[q1] = NoEdge /\ a.link[q2] = NoEdge
  BY <1>2 DEF NewIs
<1> HIDE DEF db, q0, q1, q2, D
<1>5. t[1] = p /\ t[2] = D /\ t[3] = b
  OBVIOUS
<1>6. Whole(m1) /\ Added(m1, a, q, t) /\ JoinedBy(m1, f1, t1)
  <2>1. t[1] \in a.verts /\ t[2] \in a.verts /\ t[3] \in a.verts
    BY <1>3, <1>5
  <2> HIDE DEF t
  <2> QED BY <1>3, <2>1, WithPolyLabelled
<1> HIDE DEF m1, t
<1>7. /\ m1.link = a.link /\ m1.verts = a.verts /\ PolysOf(m1) = PolysOf(a) \cup {q}
      /\ EndsOf(a) \subseteq EndsOf(m1) /\ {q0, q1, q2} \subseteq EndsOf(m1)
      /\ \A x \in EndsOf(a) : Vert(m1, x) = Vert(a, x)
      /\ Vert(m1, q0) = p /\ Vert(m1, q1) = D /\ Vert(m1, q2) = b
  <2>1. /\ m1.link = a.link /\ m1.verts = a.verts /\ PolysOf(m1) = PolysOf(a) \cup {q}
        /\ \A x \in Ends : x \in EndsOf(m1) <=> x \in EndsOf(a) \/ x[1] = q
        /\ \A x \in Ends : x[1] # q => Vert(m1, x) = Vert(a, x)
        /\ Vert(m1, q0) = p /\ Vert(m1, q1) = D /\ Vert(m1, q2) = b
    BY <1>5, <1>6 DEF Added, q0, q1, q2
  <2> QED BY <1>4, <2>1
<1>9. Whole(m2) /\ Changed(m2, m1, ba, p)
  BY <1>3, <1>6, <1>7, ChangeVertWhole
<1> HIDE DEF m2
<1>10. /\ Whole(m2) /\ m2.link = a.link /\ PolysOf(m2) = PolysOf(m1)
       /\ EndsOf(m2) = EndsOf(m1) /\ Vert(m2, ba) = p
       /\ \A x \in Ends : x # ba => Vert(m2, x) = Vert(m1, x)
       /\ JoinedBy(m2, f1, t1)
  <2> HIDE DEF f1, t1
  <2> QED BY <1>6, <1>7, <1>9 DEF Changed, JoinedBy
<1>11. Relinked(m3, m2, db, q1) /\ JoinedBy(m3, f1, t1)
  <2>1. f1[q1] = f1[db]
    BY <1>3, <1>4, <1>7, LabelsAre
  <2>2. t1[q1] = Tos(m1)[q1] /\ t1[db] = Tos(m1)[db]
    BY <1>3, <1>4 DEF Tos
  <2>3. Tos(m1)[q1] = b /\ Tos(m1)[db] = b
    BY <1>3, <1>4, <1>7, LabelsAre
  <2>4. db \in EndsOf(m2) /\ q1 \in EndsOf(m2) /\ db # q1 /\ m2.link[q1] = NoEdge
    BY <1>3, <1>4, <1>7, <1>10
  <2> HIDE DEF f1, t1
  <2> QED BY <1>10, <2>1, <2>2, <2>3, <2>4, RelinkKeeps
<1> HIDE DEF m3
<1>12. /\ Whole(m3) /\ Mutual(m3) /\ Others(m3, m2)
       /\ m3.link[db] = NoEdge /\ m3.link[q0] = NoEdge /\ m3.link[q2] = NoEdge
       /\ m3.link[pb] = NoEdge /\ m3.link[ab] = ba
  <2>1. /\ Whole(m3) /\ Others(m3, m2)
        /\ m3.link[db] = NoEdge
        /\ \A x \in Ends : x # q1 /\ a.link[x] = NoEdge => m3.link[x] = NoEdge
        /\ \A x \in Ends : x \notin {db, q1} /\ a.link[x] # db => m3.link[x] = a.link[x]
    BY <1>10, <1>11 DEF Relinked
  <2> QED BY <1>3, <1>4, <2>1 DEF Whole
<1>13. EndsOf(m3) = EndsOf(m2) /\ Froms(m3) = f2 /\ Tos(m3) = t2
  BY <1>10, <1>12, SurfaceKept DEF Whole, Surface
<1>14. JoinedBy(m3, f2, t2)
  <2> SUFFICES ASSUME NEW e \in Ends, m3.link[e] # NoEdge
               PROVE  f2[m3.link[e]] = t2[e]
    BY DEF JoinedBy
  <2>1. m3.link[e] \in Ends /\ m3.link[m3.link[e]] = e /\ e # db
    BY <1>12, EndsOfAre DEF Mutual
  <2>2. CASE e = ab
    BY <1>3, <1>7, <1>10, <1>12, <2>2, LabelsAre
  <2>3. CASE e # ab
    <3>1. m3.link[e] # ba
      <4>1. m3.link[ba] = ab
        BY <1>3, <1>12 DEF Mutual
      <4> QED BY <2>1, <2>3, <4>1
    <3>2. Turn(e, 1) # ba /\ Turn(e, 1) \in Ends
      BY <1>3, <2>1, TurnsAre
    <3>3. f2[m3.link[e]] = f1[m3.link[e]]
      BY <1>10, <2>1, <3>1, LabelsAre
    <3>4. t2[e] = Tos(m1)[e]
      BY <1>10, <3>2, LabelsAre
    <3>5. t1[e] = Tos(m1)[e]
      BY <2>3 DEF Tos
    <3>6. f1[m3.link[e]] = t1[e]
      BY <1>11 DEF JoinedBy
    <3> QED BY <3>3, <3>4, <3>5, <3>6
  <2> QED BY <2>2, <2>3
<1>15. /\ f2[q0] = t2[db] /\ f2[db] = t2[q0]
       /\ f2[q2] = t2[pb] /\ f2[pb] = t2[q2]
  <2>1. f2[q0] = p /\ f2[q2] = b /\ f2[db] = D /\ f2[pb] = p
    BY <1>3, <1>4, <1>7, <1>10, LabelsAre
  <2>2. t2[db] = p /\ t2[q0] = D /\ t2[q2] = p
    BY <1>3, <1>4, <1>7, <1>10, LabelsAre
  <2>3. t2[pb] = b
    BY <1>3, <1>4, <1>7, <1>10, LabelsAre
  <2> QED BY <2>1, <2>2, <2>3
<1>16. /\ db \in EndsOf(m3) /\ q0 \in EndsOf(m3) /\ db # q0
       /\ pb \in EndsOf(m3) /\ q2 \in EndsOf(m3) /\ pb # q2
       /\ pb \notin {db, q0} /\ q2 \notin {db, q0}
  BY <1>3, <1>4, <1>7, <1>10, <1>13
<1> HIDE DEF f2, t2
<1>17. /\ Whole(m4) /\ Others(m4, m3) /\ JoinedBy(m4, f2, t2)
       /\ \A x \in Ends \ {db, q0} : m4.link[x] = m3.link[x]
  BY <1>12, <1>14, <1>15, <1>16, LinkJoins, LinkKeeps
<1> HIDE DEF m4
<1>18. EndsOf(m4) = EndsOf(m3) /\ Froms(m4) = f2 /\ Tos(m4) = t2
  BY <1>12, <1>13, <1>17, SurfaceKept DEF Whole, Surface
<1>19. m4.link[pb] = NoEdge /\ m4.link[q2] = NoEdge
  BY <1>3, <1>4, <1>12, <1>16, <1>17
<1>20. Whole(n) /\ Others(n, m4) /\ JoinedBy(n, f2, t2)
  <2>1. pb \in EndsOf(m4) /\ q2 \in EndsOf(m4)
    BY <1>16, <1>18
  <2> QED BY <1>15, <1>16, <1>17, <1>19, <2>1, LinkJoins, LinkKeeps
<1> HIDE DEF n
<1>21. Froms(n) = f2 /\ Tos(n) = t2
  BY <1>17, <1>18, <1>20, SurfaceKept DEF Whole, Surface
<1>22. Sound(n)
  BY <1>20, <1>21 DEF Sound, Joins
<1>23. SplitTwice(n, a, ba, p, b, q)
  <2>1. PolysOf(n) = PolysOf(m2) /\ \A x : Vert(n, x) = Vert(m2, x)
    BY <1>12, <1>17, <1>20 DEF Others, PolysOf, Vert
  <2>2. Opposite(a, ba) = D
    BY DEF D
  <2> QED BY <1>3, <1>4, <1>7, <1>10, <2>1, <2>2 DEF SplitTwice, q0, q1, q2
<1> QED BY <1>1, <1>22, <1>23

\* Three elements of a set of three differ.
LEMMA ThreeDistinct ==
  ASSUME NEW a, NEW b, NEW c, Cardinality({a, b, c}) = 3
  PROVE  a # b /\ a # c /\ b # c
<1>1. ASSUME NEW x, NEW y PROVE Cardinality({x, y}) # 3
  <2>1. IsFiniteSet({x}) /\ Cardinality({x}) = 1
    BY FS_Singleton
  <2>2. CASE x = y
    <3>1. {x, y} = {x}
      BY <2>2
    <3> QED BY <2>1, <3>1
  <2>3. CASE x # y
    <3>1. {x, y} = {x} \cup {y} /\ y \notin {x}
      BY <2>3
    <3>2. Cardinality({x} \cup {y}) = Cardinality({x}) + 1
      BY <2>1, <3>1, FS_AddElement
    <3> QED BY <2>1, <3>1, <3>2
  <2> QED BY <2>2, <2>3
<1>2. a = b => {a, b, c} = {b, c}
  OBVIOUS
<1>3. a = c => {a, b, c} = {a, b}
  OBVIOUS
<1>4. b = c => {a, b, c} = {a, b}
  OBVIOUS
<1> QED BY <1>1, <1>2, <1>3, <1>4

\* The handles of two new polygons differ.
LEMMA TwoNew ==
  ASSUME NEW m, Cardinality(NewPolys(m)) >= 2
  PROVE  /\ FirstNew(m) \in NewPolys(m) /\ SecondNew(m) \in NewPolys(m)
         /\ FirstNew(m) # SecondNew(m)
<1> DEFINE N == NewPolys(m)
           a == FirstNew(m)
           M == N \ {a}
<1>1. N \subseteq Polys /\ Polys \subseteq Nat /\ IsFiniteSet(Polys)
  <2>1. MaxPolys \in Nat
    BY BoundsAssumption
  <2>2. IsFiniteSet(0 .. MaxPolys - 1)
    <3>1. 0 \in Int /\ MaxPolys - 1 \in Int
      BY <2>1
    <3> QED BY <3>1, FS_Interval
  <2> QED BY <2>1, <2>2 DEF NewPolys, Polys
<1>2. IsFiniteSet(N)
  BY <1>1, FS_Subset
<1>3. N # {}
  <2>1. Cardinality({}) = 0
    BY FS_EmptySet
  <2> QED BY <2>1
<1>4. a \in N
  BY <1>3, FirstNewIs
<1>5. M # {}
  <2> SUFFICES ASSUME M = {} PROVE FALSE
    OBVIOUS
  <2>1. N = {a}
    BY <1>4
  <2> HIDE DEF a
  <2>2. Cardinality({a}) = 1
    BY FS_Singleton
  <2> QED BY <2>1, <2>2
<1>6. SecondNew(m) = Min(M)
  BY DEF SecondNew
<1>7. Min(M) \in M
  <2>1. M \subseteq Nat
    BY <1>1
  <2> HIDE DEF M
  <2> QED BY <1>5, <2>1, MinIs
<1> QED BY <1>4, <1>6, <1>7

\* The corners of a polygon that has three.
LEMMA CornersDiffer ==
  ASSUME NEW m, NEW e \in EndsOf(m), Cardinality(VertSet(m, e[1])) = 3
  PROVE  /\ From(m, e) # To(m, e) /\ From(m, e) # Opposite(m, e) /\ To(m, e) # Opposite(m, e)
<1> DEFINE c == m.corners[e[1]]
<1>1. 0 .. 2 = {0, 1, 2}
  OBVIOUS
<1>2. VertSet(m, e[1]) = {c[0], c[1], c[2]}
  <2> HIDE DEF c
  <2> QED BY <1>1 DEF VertSet, c
<1>3. c[0] # c[1] /\ c[0] # c[2] /\ c[1] # c[2]
  <2> HIDE DEF c
  <2> QED BY <1>2, ThreeDistinct
<1>4. e \in Ends
  BY EndsOfAre
<1>5. /\ e[2] \in {0, 1, 2}
      /\ Turn(e, 1)[1] = e[1] /\ Turn(e, 2)[1] = e[1]
      /\ Turn(e, 1)[2] = (IF e[2] = 0 THEN 1 ELSE IF e[2] = 1 THEN 2 ELSE 0)
      /\ Turn(e, 2)[2] = (IF e[2] = 0 THEN 2 ELSE IF e[2] = 1 THEN 0 ELSE 1)
  BY <1>4, EndsAre
<1>6. From(m, e) = c[e[2]] /\ To(m, e) = c[Turn(e, 1)[2]] /\ Opposite(m, e) = c[Turn(e, 2)[2]]
  BY <1>5 DEF From, To, Opposite, Vert
<1> HIDE DEF c
<1> QED BY <1>3, <1>5, <1>6

\* n is m with the two polygons of ab, which are linked there, split at p; q and r are
\* the new ones.
SplitInto(n, m, ab, p, q, r) ==
  LET ba == m.link[ab]
  IN  /\ ba \in EndsOf(m) /\ ba[1] # ab[1] /\ From(m, ba) = To(m, ab) /\ To(m, ba) = From(m, ab)
      /\ PolysOf(n) = PolysOf(m) \cup {q, r}
      /\ \A x \in EndsOf(m) : x \notin {Turn(ab, 1), ba} => Vert(n, x) = Vert(m, x)
      /\ Vert(n, Turn(ab, 1)) = p /\ Vert(n, ba) = p
      /\ Vert(n, <<q, 0>>) = p /\ Vert(n, <<q, 1>>) = To(m, ab)
      /\ Vert(n, <<q, 2>>) = Opposite(m, ab)
      /\ Vert(n, <<r, 0>>) = p /\ Vert(n, <<r, 1>>) = Opposite(m, ba)
      /\ Vert(n, <<r, 2>>) = To(m, ab)

\* split_edge() leaves a sound mesh.
LEMMA SplitSound ==
  ASSUME NEW m, Sound(m), Cardinality(NewPolys(m)) >= 2,
         NEW ab \in EndsOf(m), Cardinality(VertSet(m, ab[1])) = 3, NEW p \in m.verts
  PROVE  LET n == Split(m, ab, p, FirstNew(m), SecondNew(m))
         IN  /\ Sound(n)
             /\ m.link[ab] # NoEdge => SplitInto(n, m, ab, p, FirstNew(m), SecondNew(m))
<1> DEFINE q == FirstNew(m)
           r == SecondNew(m)
           a == SplitAbove(m, ab, p, q)
           ba == a.link[ab]
           B == To(m, ab)
           pb == <<q, 0>>
<1>1. q \in NewPolys(m) /\ r \in NewPolys(m) /\ q # r
  BY TwoNew
<1> HIDE DEF q, r
<1>2. From(m, ab) # To(m, ab) /\ From(m, ab) # Opposite(m, ab) /\ To(m, ab) # Opposite(m, ab)
  BY CornersDiffer
<1>3. Split(m, ab, p, q, r) = IF ba = NoEdge THEN a ELSE SplitBelow(a, ba, p, B, r, pb)
  BY DEF Split
<1>4. SplitOnce(a, m, ab, p, q)
  BY <1>1, <1>2, SplitAboveKeeps
<1> HIDE DEF a
<1>5. /\ Whole(a) /\ a.verts = m.verts /\ PolysOf(a) = PolysOf(m) \cup {q}
      /\ a.link[ab] = m.link[ab] /\ a.link[<<q, 0>>] = NoEdge
      /\ JoinedBy(a, Froms(a), [Tos(a) EXCEPT ![ab] = B])
      /\ \A x \in EndsOf(m) : x # Turn(ab, 1) => Vert(a, x) = Vert(m, x)
      /\ Vert(a, Turn(ab, 1)) = p
      /\ Vert(a, <<q, 0>>) = p /\ Vert(a, <<q, 1>>) = B /\ Vert(a, <<q, 2>>) = Opposite(m, ab)
  BY <1>4 DEF SplitOnce
<1>6. Whole(m) /\ Mutual(m) /\ Mutual(a)
  BY <1>5, SoundJoins DEF Whole
<1>7. NewIs(m, q)
  BY <1>1, <1>6, NewHas
<1>8. ab \in Ends /\ EndsOf(m) \subseteq EndsOf(a)
  BY <1>5, EndsOfAre DEF EndsOf
<1>9. CASE ba = NoEdge
  <2> DEFINE f == Froms(a)
             t == [Tos(a) EXCEPT ![ab] = B]
  <2>1. \A e \in Ends : a.link[e] # NoEdge => Tos(a)[e] = t[e]
    BY <1>9 DEF Tos
  <2>2. JoinedBy(a, f, t)
    BY <1>5
  <2> HIDE DEF f, t
  <2>3. JoinedBy(a, f, Tos(a))
    BY <1>6, <2>1, <2>2, Relabelled
  <2>4. Sound(a)
    BY <1>5, <2>3 DEF Sound, Joins, f
  <2> QED BY <1>3, <1>5, <1>9, <2>4 DEF q, r
<1>10. CASE ba # NoEdge
  <2>1. ba \in EndsOf(m) /\ ba \in Ends /\ ba # ab /\ m.link[ba] = ab /\ m.link[ab] = ba
    BY <1>5, <1>6, <1>8, <1>10, EndsOfAre DEF Mutual
  <2> HIDE DEF ba
  <2>2. From(m, ba) = To(m, ab) /\ From(m, ab) = To(m, ba)
    BY <1>6, <1>8, <2>1, JoinsIs, NoneAssumption DEF Sound
  <2>3. /\ \A x \in Ends : x[1] = ab[1] <=> x \in {ab, Turn(ab, 1), Turn(ab, 2)}
        /\ Turn(Turn(ab, 1), 1) = Turn(ab, 2) /\ Turn(Turn(ab, 2), 1) = ab
    BY <1>8, TurnsAre
  <2>4. ba[1] # ab[1]
    <3> SUFFICES ASSUME ba[1] = ab[1] PROVE FALSE
      OBVIOUS
    <3>1. ba \in {Turn(ab, 1), Turn(ab, 2)}
      BY <2>1, <2>3
    <3>2. CASE ba = Turn(ab, 1)
      <4>1. To(m, ba) = Opposite(m, ab)
        BY <2>3, <3>2 DEF To, Opposite
      <4> QED BY <1>2, <2>2, <4>1
    <3>3. CASE ba = Turn(ab, 2)
      <4>1. From(m, ba) = Opposite(m, ab)
        BY <3>3 DEF From, Opposite
      <4> QED BY <1>2, <2>2, <4>1
    <3> QED BY <3>1, <3>2, <3>3
  <2>5. ba # Turn(ab, 1)
    BY <1>8, <2>4, TurnsAre
  <2>6. Vert(a, ba) = B
    BY <1>5, <2>1, <2>2, <2>5 DEF From
  <2>7. /\ pb \in EndsOf(a) /\ pb[1] = q /\ Turn(pb, 1) = <<q, 1>> /\ ba[1] # q
        /\ q \notin PolysOf(m)
    <3>1. pb \in Ends /\ pb[1] = q /\ Turn(pb, 1) = <<q, 1>> /\ ba[1] # q /\ q \notin PolysOf(m)
      BY <1>7, <2>1 DEF NewIs
    <3>2. pb \in EndsOf(a)
      BY <1>5 DEF EndsOf
    <3> QED BY <3>1, <3>2
  <2>8. r \in NewPolys(a)
    BY <1>1, <1>5 DEF NewPolys
  <2> DEFINE n == SplitBelow(a, ba, p, B, r, pb)
  <2>9. Sound(n) /\ SplitTwice(n, a, ba, p, B, r)
    <3>1. ab \in EndsOf(a) /\ ba \in EndsOf(a) /\ a.link[ab] = ba /\ p \in a.verts
      BY <1>5, <1>8, <2>1
    <3>2. /\ a.link[pb] = NoEdge /\ Vert(a, pb) = p /\ Vert(a, Turn(pb, 1)) = B
          /\ ba[1] # pb[1]
      BY <1>5, <2>7
    <3> HIDE DEF pb, B
    <3> QED BY <1>5, <2>4, <2>6, <2>7, <2>8, <3>1, <3>2, SplitBelowSound
  <2> HIDE DEF n
  <2>10. SplitInto(n, m, ab, p, q, r)
    <3>1. Opposite(a, ba) = Opposite(m, ba)
      <4>1. Turn(ba, 2) \in EndsOf(m) /\ Turn(ba, 2)[1] = ba[1] /\ Turn(ab, 1)[1] = ab[1]
        BY <1>8, <2>1, EndsOfAre, TurnsAre
      <4>2. Turn(ba, 2) # Turn(ab, 1)
        BY <2>4, <4>1
      <4> QED BY <1>5, <4>1, <4>2 DEF Opposite
    <3>2. /\ PolysOf(n) = PolysOf(a) \cup {r}
          /\ \A x \in EndsOf(a) : x # ba => Vert(n, x) = Vert(a, x)
          /\ Vert(n, ba) = p
          /\ Vert(n, <<r, 0>>) = p /\ Vert(n, <<r, 1>>) = Opposite(m, ba) /\ Vert(n, <<r, 2>>) = B
      BY <2>9, <3>1 DEF SplitTwice
    <3>3. \A x \in EndsOf(m) : x \notin {Turn(ab, 1), ba} => Vert(n, x) = Vert(m, x)
      BY <1>5, <1>8, <3>2
    <3>4. Turn(ab, 1) \in EndsOf(a) /\ Turn(ab, 1) # ba
      BY <1>8, <2>5, EndsOfAre
    <3>5. /\ <<q, 0>> \in EndsOf(a) /\ <<q, 1>> \in EndsOf(a) /\ <<q, 2>> \in EndsOf(a)
          /\ ba \notin {<<q, 0>>, <<q, 1>>, <<q, 2>>}
      <4>1. q \in PolysOf(a)
        BY <1>5
      <4>2. <<q, 0>> \in EndsOf(a) /\ <<q, 1>> \in EndsOf(a) /\ <<q, 2>> \in EndsOf(a)
        BY <4>1 DEF EndsOf
      <4> QED BY <1>7, <2>1, <4>2 DEF NewIs
    <3>6. /\ Vert(n, <<q, 0>>) = p /\ Vert(n, <<q, 1>>) = B /\ Vert(n, <<q, 2>>) = Opposite(m, ab)
          /\ Vert(n, Turn(ab, 1)) = p
      BY <1>5, <3>2, <3>4, <3>5
    <3>7. PolysOf(n) = PolysOf(m) \cup {q, r}
      BY <1>5, <3>2
    <3> QED BY <2>1, <2>2, <2>4, <3>2, <3>3, <3>6, <3>7 DEF SplitInto, B
  <2> QED BY <1>3, <1>10, <2>9, <2>10 DEF q, r, ba, n
<1> QED BY <1>9, <1>10 DEF q, r

\* n is m with polygon c cut into three at p; the two new ones are q and r.
CutInto(n, m, c, p, q, r) ==
  /\ PolysOf(n) = PolysOf(m) \cup {q, r}
  /\ \A x \in EndsOf(m) : x # <<c, 2>> => Vert(n, x) = Vert(m, x)
  /\ Vert(n, <<c, 2>>) = p
  /\ Vert(n, <<q, 0>>) = Vert(m, <<c, 1>>) /\ Vert(n, <<q, 1>>) = Vert(m, <<c, 2>>)
  /\ Vert(n, <<q, 2>>) = p
  /\ Vert(n, <<r, 0>>) = Vert(m, <<c, 2>>) /\ Vert(n, <<r, 1>>) = Vert(m, <<c, 0>>)
  /\ Vert(n, <<r, 2>>) = p

\* Whatever links are there, a new polygon changes none of the labels they join by.
LEMMA CutSound ==
  ASSUME NEW m, Sound(m), NEW c \in PolysOf(m), NEW p \in m.verts,
         NEW q \in NewPolys(m), NEW r \in NewPolys(m), q # r
  PROVE  Sound(Cut(m, c, p, q, r)) /\ CutInto(Cut(m, c, p, q, r), m, c, p, q, r)
<1> DEFINE e0 == <<c, 0>>
           e1 == <<c, 1>>
           e2 == <<c, 2>>
           q0 == <<q, 0>>
           q1 == <<q, 1>>
           q2 == <<q, 2>>
           r0 == <<r, 0>>
           r1 == <<r, 1>>
           r2 == <<r, 2>>
           v0 == m.corners[c][0]
           v1 == m.corners[c][1]
           v2 == m.corners[c][2]
           t == <<v1, v2, p>>
           u == <<v2, v0, p>>
           m1 == ChangeVert(m, e2, p)
           ma == WithPoly(m1, q, t)
           m2 == WithPoly(ma, r, u)
           mb == Relink(m2, e1, q0)
           m3 == Relink(mb, e2, r0)
           m4 == Link(m3, e1, q2)
           m5 == Link(m4, q1, r2)
           n == Link(m5, r1, e2)
           f == [Froms(m2) EXCEPT ![e2] = v2]
           g == [Tos(m2) EXCEPT ![e1] = v2]
           F == Froms(m2)
           G == Tos(m2)
<1>1. Cut(m, c, p, q, r) = n
  BY DEF Cut
<1>2. Whole(m) /\ Surface(m) /\ Mutual(m) /\ NewIs(m, q) /\ NewIs(m, r)
      /\ JoinedBy(m, Froms(m), Tos(m))
  BY SoundJoins, NewHas
<1>3. /\ c \in Polys /\ {e0, e1, e2} \subseteq EndsOf(m) /\ {e0, e1, e2} \subseteq Ends
      /\ e0 # e1 /\ e0 # e2 /\ e1 # e2
      /\ Turn(e0, 1) = e1 /\ Turn(e1, 1) = e2 /\ Turn(e2, 1) = e0
      /\ \A x \in Ends : Turn(x, 1) = e2 => x = e1
      /\ v0 = Vert(m, e0) /\ v1 = Vert(m, e1) /\ v2 = Vert(m, e2)
      /\ {v0, v1, v2} \subseteq m.verts
  <2>1. c \in Polys
    BY DEF PolysOf
  <2>2. {e0, e1, e2} \subseteq EndsOf(m)
    BY DEF EndsOf
  <2>3. /\ {e0, e1, e2} \subseteq Ends /\ e0 # e1 /\ e0 # e2 /\ e1 # e2
        /\ Turn(e0, 1) = e1 /\ Turn(e1, 1) = e2 /\ Turn(e2, 1) = e0
    BY <2>1, EdgesAre
  <2>4. v0 = Vert(m, e0) /\ v1 = Vert(m, e1) /\ v2 = Vert(m, e2)
    BY DEF Vert
  <2>5. \A x \in Ends : Turn(Turn(x, 1), 2) = x
    BY TurnsAre
  <2>6. \A x \in EndsOf(m) : Vert(m, x) \in m.verts
    BY <1>2 DEF Surface
  <2>7. \A x \in Ends : Turn(x, 1) = e2 => x = e1
    BY <2>3, <2>5
  <2> HIDE DEF e0, e1, e2, v0, v1, v2
  <2>8. {v0, v1, v2} \subseteq m.verts
    BY <2>2, <2>4, <2>6
  <2> QED BY <2>1, <2>2, <2>3, <2>4, <2>7, <2>8
<1>4. /\ {q0, q1, q2} \subseteq Ends /\ q0 # q1 /\ q0 # q2 /\ q1 # q2
      /\ Turn(q0, 1) = q1 /\ Turn(q1, 1) = q2 /\ Turn(q2, 1) = q0
      /\ \A x \in EndsOf(m) : x \in Ends /\ x[1] # q /\ x \notin {q0, q1, q2}
      /\ q0[1] = q /\ q1[1] = q /\ q2[1] = q
      /\ m.link[q0] = NoEdge /\ m.link[q1] = NoEdge /\ m.link[q2] = NoEdge
  BY <1>2 DEF NewIs
<1>5. /\ {r0, r1, r2} \subseteq Ends /\ r0 # r1 /\ r0 # r2 /\ r1 # r2
      /\ Turn(r0, 1) = r1 /\ Turn(r1, 1) = r2 /\ Turn(r2, 1) = r0
      /\ \A x \in EndsOf(m) : x \in Ends /\ x[1] # r /\ x \notin {r0, r1, r2}
      /\ r0[1] = r /\ r1[1] = r /\ r2[1] = r
      /\ m.link[r0] = NoEdge /\ m.link[r1] = NoEdge /\ m.link[r2] = NoEdge
  BY <1>2 DEF NewIs
<1>6. t[1] = v1 /\ t[2] = v2 /\ t[3] = p /\ u[1] = v2 /\ u[2] = v0 /\ u[3] = p
  OBVIOUS
<1> HIDE DEF e0, e1, e2, q0, q1, q2, r0, r1, r2, v0, v1, v2, t, u
<1>7. {q0, q1, q2} \cap {r0, r1, r2} = {}
  BY <1>4, <1>5
<1>8. Whole(m1) /\ Changed(m1, m, e2, p)
  BY <1>2, <1>3, ChangeVertWhole
<1> HIDE DEF m1
<1>9. /\ Surface(m1) /\ m1.link = m.link /\ m1.verts = m.verts /\ PolysOf(m1) = PolysOf(m)
      /\ EndsOf(m1) = EndsOf(m) /\ Vert(m1, e2) = p
      /\ \A x \in Ends : x # e2 => Vert(m1, x) = Vert(m, x)
  BY <1>8 DEF Changed
<1>10. Whole(ma) /\ Added(ma, m1, q, t)
  <2>1. q \in NewPolys(m1) /\ t[1] \in m1.verts /\ t[2] \in m1.verts /\ t[3] \in m1.verts
    BY <1>3, <1>6, <1>9 DEF NewPolys
  <2> QED BY <1>8, <1>9, <2>1, WithPolyWhole, WithPolyKeeps
<1> HIDE DEF ma
<1>11. /\ Surface(ma) /\ ma.link = m.link /\ ma.verts = m.verts /\ PolysOf(ma) = PolysOf(m) \cup {q}
       /\ \A x \in Ends : x \in EndsOf(ma) <=> x \in EndsOf(m) \/ x[1] = q
       /\ \A x \in Ends : x[1] # q => Vert(ma, x) = Vert(m1, x)
       /\ Vert(ma, q0) = v1 /\ Vert(ma, q1) = v2 /\ Vert(ma, q2) = p
  BY <1>6, <1>9, <1>10 DEF Added, q0, q1, q2
<1>12. Whole(m2) /\ Added(m2, ma, r, u)
  <2>1. r \in NewPolys(ma) /\ u[1] \in ma.verts /\ u[2] \in ma.verts /\ u[3] \in ma.verts
    BY <1>3, <1>6, <1>11 DEF NewPolys
  <2> QED BY <1>10, <1>11, <2>1, WithPolyWhole, WithPolyKeeps
<1> HIDE DEF m2
<1>13. /\ m2.link = m.link
       /\ \A x \in Ends : x \in EndsOf(m2) <=> x \in EndsOf(m) \/ x[1] \in {q, r}
       /\ \A x \in EndsOf(m) : x # e2 => Vert(m2, x) = Vert(m, x)
       /\ Vert(m2, e0) = v0 /\ Vert(m2, e1) = v1 /\ Vert(m2, e2) = p
       /\ Vert(m2, q0) = v1 /\ Vert(m2, q1) = v2 /\ Vert(m2, q2) = p
       /\ Vert(m2, r0) = v2 /\ Vert(m2, r1) = v0 /\ Vert(m2, r2) = p
  <2>1. /\ m2.link = ma.link
        /\ \A x \in Ends : x \in EndsOf(m2) <=> x \in EndsOf(ma) \/ x[1] = r
        /\ \A x \in Ends : x[1] # r => Vert(m2, x) = Vert(ma, x)
        /\ Vert(m2, r0) = v2 /\ Vert(m2, r1) = v0 /\ Vert(m2, r2) = p
    BY <1>6, <1>12 DEF Added, r0, r1, r2
  <2>2. \A x \in EndsOf(m) : x # e2 => Vert(m2, x) = Vert(m, x)
    BY <1>4, <1>5, <1>9, <1>11, <2>1
  <2>3. Vert(m2, e2) = p
    BY <1>3, <1>4, <1>5, <1>9, <1>11, <2>1
  <2> QED BY <1>3, <1>4, <1>5, <1>11, <2>1, <2>2, <2>3
<1>14. {e1, e2, q0, q1, q2, r0, r1, r2} \subseteq EndsOf(m2)
  BY <1>3, <1>4, <1>5, <1>13
<1>15. {q0, q1, q2, r0, r1, r2} \cap {e0, e1, e2} = {}
  BY <1>3, <1>4, <1>5
<1>16. JoinedBy(m2, f, g)
  <2>1. JoinedBy(m2, Froms(m), Tos(m)) /\ Mutual(m2)
    BY <1>2, <1>12, <1>13 DEF JoinedBy, Whole
  <2>2. \A x \in Ends : m2.link[x] # NoEdge => f[x] = Froms(m)[x] /\ g[x] = Tos(m)[x]
    <3> SUFFICES ASSUME NEW x \in Ends, m2.link[x] # NoEdge
                 PROVE  f[x] = Froms(m)[x] /\ g[x] = Tos(m)[x]
      OBVIOUS
    <3>1. x \in EndsOf(m) /\ Turn(x, 1) \in EndsOf(m)
      BY <1>2, <1>13, EndsOfAre DEF Mutual
    <3>2. /\ f[x] = (IF x = e2 THEN v2 ELSE Vert(m2, x))
          /\ g[x] = (IF x = e1 THEN v2 ELSE Vert(m2, Turn(x, 1)))
      BY DEF Froms, Tos, From, To
    <3>3. f[x] = Vert(m, x)
      BY <1>3, <1>13, <3>1, <3>2
    <3>4. g[x] = Vert(m, Turn(x, 1))
      BY <1>3, <1>13, <3>1, <3>2
    <3> QED BY <3>3, <3>4, LabelsAre
  <2> HIDE DEF f, g
  <2> QED BY <2>1, <2>2, Relabelled
<1>17. /\ f[q0] = f[e1] /\ g[q0] = g[e1] /\ f[r0] = f[e2] /\ g[r0] = g[e2]
       /\ \A x \in Ends : x # e2 => f[x] = F[x]
       /\ \A x \in Ends : x # e1 => g[x] = G[x]
  <2>1. \A x \in Ends : /\ f[x] = (IF x = e2 THEN v2 ELSE Vert(m2, x))
                        /\ g[x] = (IF x = e1 THEN v2 ELSE Vert(m2, Turn(x, 1)))
                        /\ F[x] = Vert(m2, x) /\ G[x] = Vert(m2, Turn(x, 1))
    BY DEF Froms, Tos, From, To
  <2> HIDE DEF f, g, F, G
  <2>2. f[q0] = v1 /\ f[e1] = v1 /\ f[r0] = v2 /\ f[e2] = v2
    BY <1>3, <1>4, <1>5, <1>13, <1>15, <2>1
  <2>3. g[q0] = v2 /\ g[e1] = v2 /\ g[r0] = v0 /\ g[e2] = v0
    BY <1>3, <1>4, <1>5, <1>13, <1>15, <2>1
  <2> QED BY <2>1, <2>2, <2>3
<1>18. /\ F[q2] = G[e1] /\ F[e1] = G[q2] /\ F[r2] = G[q1] /\ F[q1] = G[r2]
       /\ F[e2] = G[r1] /\ F[r1] = G[e2]
  <2>1. \A x \in Ends : F[x] = Vert(m2, x) /\ G[x] = Vert(m2, Turn(x, 1))
    BY DEF Froms, Tos, From, To
  <2> HIDE DEF F, G
  <2> QED BY <1>3, <1>4, <1>5, <1>13, <2>1
<1> HIDE DEF f, g, F, G
<1>19. Relinked(mb, m2, e1, q0) /\ JoinedBy(mb, f, g)
  <2>1. /\ Whole(m2) /\ e1 \in EndsOf(m2) /\ q0 \in EndsOf(m2) /\ e1 # q0
        /\ m2.link[q0] = NoEdge
    BY <1>4, <1>12, <1>13, <1>14, <1>15
  <2> QED BY <1>16, <1>17, <2>1, RelinkKeeps
<1> HIDE DEF mb
<1>20. /\ Whole(mb) /\ Others(mb, m2) /\ mb.link[e1] = NoEdge /\ EndsOf(mb) = EndsOf(m2)
       /\ \A x \in {q1, q2, r0, r1, r2} : mb.link[x] = NoEdge
  <2>1. /\ Whole(mb) /\ Others(mb, m2) /\ mb.link[e1] = NoEdge
        /\ \A x \in Ends : x # q0 /\ m2.link[x] = NoEdge => mb.link[x] = NoEdge
    BY <1>19 DEF Relinked
  <2>2. EndsOf(mb) = EndsOf(m2)
    BY <1>12, <2>1, SurfaceKept DEF Whole, Surface
  <2> QED BY <1>4, <1>5, <1>7, <1>13, <2>1, <2>2
<1>21. Relinked(m3, mb, e2, r0) /\ JoinedBy(m3, f, g)
  <2>1. e2 \in EndsOf(mb) /\ r0 \in EndsOf(mb) /\ e2 # r0 /\ mb.link[r0] = NoEdge
    BY <1>14, <1>15, <1>20
  <2> QED BY <1>17, <1>19, <1>20, <2>1, RelinkKeeps
<1> HIDE DEF m3
<1>22. /\ Whole(m3) /\ Others(m3, m2) /\ EndsOf(m3) = EndsOf(m2) /\ Mutual(m3)
       /\ \A x \in {e1, e2, q1, q2, r1, r2} : m3.link[x] = NoEdge
  <2>1. /\ Whole(m3) /\ Others(m3, mb) /\ m3.link[e2] = NoEdge
        /\ \A x \in Ends : x # r0 /\ mb.link[x] = NoEdge => m3.link[x] = NoEdge
    BY <1>21 DEF Relinked
  <2>2. EndsOf(m3) = EndsOf(m2) /\ Others(m3, m2)
    <3>1. EndsOf(m3) = EndsOf(mb)
      BY <1>20, <2>1, SurfaceKept DEF Whole, Surface
    <3> QED BY <1>20, <2>1, <3>1 DEF Others
  <2>3. \A x \in {e1, q1, q2, r1, r2} : x \in Ends /\ x # r0
    BY <1>3, <1>4, <1>5, <1>7, <1>15
  <2> QED BY <1>20, <2>1, <2>2, <2>3 DEF Whole
<1>23. JoinedBy(m3, F, G)
  <2>1. \A x \in Ends : m3.link[x] # NoEdge => F[x] = f[x] /\ G[x] = g[x]
    BY <1>17, <1>22
  <2> QED BY <1>21, <1>22, <2>1, Relabelled
<1>24. /\ Whole(m4) /\ Others(m4, m2) /\ JoinedBy(m4, F, G) /\ EndsOf(m4) = EndsOf(m2)
       /\ \A x \in {e2, q1, r1, r2} : m4.link[x] = NoEdge
  <2>1. e1 \in EndsOf(m3) /\ q2 \in EndsOf(m3) /\ e1 # q2
    BY <1>14, <1>15, <1>22
  <2>2. /\ Whole(m4) /\ Others(m4, m3) /\ JoinedBy(m4, F, G)
        /\ \A x \in Ends \ {e1, q2} : m4.link[x] = m3.link[x]
    BY <1>18, <1>22, <1>23, <2>1, LinkKeeps, LinkJoins
  <2> HIDE DEF m4
  <2>3. EndsOf(m4) = EndsOf(m2)
    BY <1>22, <2>2, SurfaceKept DEF Whole, Surface
  <2>4. \A x \in {e2, q1, r1, r2} : x \in Ends \ {e1, q2}
    BY <1>3, <1>4, <1>5, <1>7, <1>15
  <2> QED BY <1>22, <2>2, <2>3, <2>4 DEF Others
<1> HIDE DEF m4
<1>25. /\ Whole(m5) /\ Others(m5, m2) /\ JoinedBy(m5, F, G) /\ EndsOf(m5) = EndsOf(m2)
       /\ \A x \in {e2, r1} : m5.link[x] = NoEdge
  <2>1. q1 \in EndsOf(m4) /\ r2 \in EndsOf(m4) /\ q1 # r2
    BY <1>7, <1>14, <1>24
  <2>2. /\ Whole(m5) /\ Others(m5, m4) /\ JoinedBy(m5, F, G)
        /\ \A x \in Ends \ {q1, r2} : m5.link[x] = m4.link[x]
    BY <1>18, <1>24, <2>1, LinkKeeps, LinkJoins
  <2> HIDE DEF m5
  <2>3. EndsOf(m5) = EndsOf(m2)
    BY <1>24, <2>2, SurfaceKept DEF Whole, Surface
  <2>4. \A x \in {e2, r1} : x \in Ends \ {q1, r2}
    BY <1>3, <1>5, <1>7, <1>15
  <2> QED BY <1>24, <2>2, <2>3, <2>4 DEF Others
<1> HIDE DEF m5
<1>26. Whole(n) /\ Others(n, m2) /\ JoinedBy(n, F, G)
  <2>1. r1 \in EndsOf(m5) /\ e2 \in EndsOf(m5) /\ r1 # e2
    BY <1>14, <1>15, <1>25
  <2>2. /\ Whole(n) /\ Others(n, m5) /\ JoinedBy(n, F, G)
    BY <1>18, <1>25, <2>1, LinkKeeps, LinkJoins
  <2> QED BY <1>25, <2>2 DEF Others
<1> HIDE DEF n
<1>27. Froms(n) = F /\ Tos(n) = G
  BY <1>12, <1>26, SurfaceKept DEF Whole, Surface, F, G
<1>28. Sound(n)
  BY <1>26, <1>27 DEF Sound, Joins
<1>29. CutInto(n, m, c, p, q, r)
  <2>1. PolysOf(n) = PolysOf(m2) /\ \A x : Vert(n, x) = Vert(m2, x)
    BY <1>26 DEF Others, PolysOf, Vert
  <2>2. PolysOf(m2) = PolysOf(m) \cup {q, r}
    BY <1>11, <1>12 DEF Added
  <2> QED BY <1>3, <1>13, <2>1, <2>2 DEF CutInto, e0, e1, e2, q0, q1, q2, r0, r1, r2
<1> QED BY <1>1, <1>28, <1>29

----------------------------------------------------------------------------
(* erase_poly_if_degenerate() *)

\* What m is with some edges, e among them, not linked any more.
Freed(n, m, e) ==
  /\ Whole(n) /\ Others(n, m)
  /\ n.link[e] = NoEdge
  /\ \A x \in Ends : n.link[x] \in {NoEdge, m.link[x]}

\* An edge is unlinked if it is linked.
LEMMA UnlinkFrees ==
  ASSUME NEW m, Whole(m), NEW e \in Ends, NEW from, NEW to, JoinedBy(m, from, to)
  PROVE  Freed(UnlinkIfLinked(m, e), m, e) /\ JoinedBy(UnlinkIfLinked(m, e), from, to)
<1>1. CASE m.link[e] = NoEdge
  BY <1>1 DEF UnlinkIfLinked, Freed, Others
<1>2. CASE m.link[e] # NoEdge
  <2> DEFINE n == Unlink(m, e)
  <2>1. /\ Whole(n) /\ Others(n, m)
        /\ n.link[e] = NoEdge /\ n.link[m.link[e]] = NoEdge
        /\ \A x \in Ends \ {e, m.link[e]} : n.link[x] = m.link[x]
        /\ JoinedBy(n, from, to)
    BY <1>2, UnlinkKeeps, UnlinkJoins
  <2> HIDE DEF n
  <2>2. Freed(n, m, e)
    BY <2>1 DEF Freed
  <2>3. UnlinkIfLinked(m, e) = n
    BY <1>2 DEF UnlinkIfLinked, n
  <2> QED BY <2>1, <2>2, <2>3
<1> QED BY <1>1, <1>2

\* The link of e is given up by the edge on the other side.
LEMMA OtherFrees ==
  ASSUME NEW m, Whole(m), NEW e \in Ends, NEW from, NEW to, JoinedBy(m, from, to),
         m.link[e] # NoEdge
  PROVE  /\ Freed(Unlink(m, m.link[e]), m, e) /\ JoinedBy(Unlink(m, m.link[e]), from, to)
         /\ Unlink(m, m.link[e]).link[m.link[e]] = NoEdge
<1> DEFINE v == m.link[e]
           n == Unlink(m, v)
<1>1. v \in Ends /\ m.link[v] = e /\ m.link[v] # NoEdge /\ v \in EndsOf(m)
  BY EndsOfAre, NoneAssumption DEF Whole, Mutual
<1> HIDE DEF v
<1>2. /\ Whole(n) /\ Others(n, m)
      /\ n.link[v] = NoEdge /\ n.link[e] = NoEdge
      /\ \A x \in Ends \ {v, e} : n.link[x] = m.link[x]
      /\ JoinedBy(n, from, to)
  BY <1>1, UnlinkKeeps, UnlinkJoins
<1> HIDE DEF n
<1>3. Freed(n, m, e)
  BY <1>2 DEF Freed
<1> QED BY <1>2, <1>3 DEF n, v

\* What m is without the polygon p.
Gone(n, m, p) ==
  /\ n.verts \subseteq m.verts
  /\ PolysOf(n) = PolysOf(m) \ {p}
  /\ \A x \in Ends : x \in EndsOf(n) <=> x \in EndsOf(m) /\ x[1] # p
  /\ \A x \in Ends : x[1] # p => Vert(n, x) = Vert(m, x)

IsDegenerate(m, p) == \E e \in EndsOf(m) : e[1] = p /\ From(m, e) = To(m, e)

\* erase_poly_if_degenerate() leaves a whole mesh, in which the links join the
\* same ends, and without the polygon if it was degenerate.
LEMMA EraseIfDegenerateKeeps ==
  ASSUME NEW m, Whole(m), NEW p \in PolysOf(m),
         NEW from, NEW to, JoinedBy(m, from, to),
         \A e \in Ends : e[1] = p => to[e] = from[Turn(e, 1)],
         \A e \in Ends : e[1] = p /\ From(m, e) = To(m, e) => from[e] = to[e]
  PROVE  LET n == EraseIfDegenerate(m, p)
         IN  /\ Whole(n) /\ JoinedBy(n, from, to)
             /\ IF IsDegenerate(m, p) THEN Gone(n, m, p) ELSE n = m
<1> DEFINE same == {i \in 0 .. 2 : From(m, <<p, i>>) = To(m, <<p, i>>)}
           pv == <<p, Min(same)>>
           next == Turn(pv, 1)
           prev == Turn(pv, 2)
           m1 == UnlinkIfLinked(m, pv)
           vv == m1.link[prev]
           m2 == IF vv # NoEdge THEN Unlink(m1, vv) ELSE m1
           ww == m2.link[next]
           m3 == IF ww # NoEdge THEN Unlink(m2, ww) ELSE m2
           m4 == IF vv # NoEdge /\ ww # NoEdge THEN Link(m3, vv, ww) ELSE m3
           n == WithoutPoly(m4, p, FALSE, TRUE)
<1>1. EraseIfDegenerate(m, p) = IF same = {} THEN m ELSE n
  BY DEF EraseIfDegenerate
<1>2. IsDegenerate(m, p) <=> same # {}
  <2>1. \A i \in 0 .. 2 : <<p, i>> \in EndsOf(m) /\ <<p, i>>[1] = p
    BY DEF EndsOf
  <2>2. \A e \in EndsOf(m) : e[1] = p => e[2] \in 0 .. 2 /\ e = <<p, e[2]>>
    BY DEF EndsOf
  <2>3. ASSUME IsDegenerate(m, p)
        PROVE  same # {}
    <3>1. PICK e \in EndsOf(m) : e[1] = p /\ From(m, e) = To(m, e)
      BY <2>3 DEF IsDegenerate
    <3>2. e[2] \in same
      BY <2>2, <3>1
    <3> QED BY <3>2
  <2>4. ASSUME same # {}
        PROVE  IsDegenerate(m, p)
    <3>1. PICK i \in 0 .. 2 : From(m, <<p, i>>) = To(m, <<p, i>>)
      BY <2>4
    <3> QED BY <2>1, <3>1 DEF IsDegenerate
  <2> QED BY <2>3, <2>4
<1>3. CASE same = {}
  BY <1>1, <1>2, <1>3
<1>4. CASE same # {}
  <2>1. Min(same) \in same
    <3>1. same \subseteq Nat
      OBVIOUS
    <3> HIDE DEF same
    <3> QED BY <1>4, <3>1, MinIs
  <2>2. /\ pv \in EndsOf(m) /\ pv[1] = p /\ From(m, pv) = To(m, pv)
    BY <2>1 DEF EndsOf
  <2> HIDE DEF same, pv
  <2>3. /\ pv \in Ends /\ next \in Ends /\ prev \in Ends
        /\ next # pv /\ prev # pv /\ next # prev
        /\ next[1] = p /\ prev[1] = p /\ Turn(next, 1) = prev /\ Turn(prev, 1) = pv
        /\ \A x \in Ends : x[1] = p <=> x \in {pv, next, prev}
    BY <2>2, EndsOfAre, TurnsAre
  <2>4. to[prev] = from[pv] /\ to[pv] = from[next] /\ to[next] = from[prev] /\ from[pv] = to[pv]
    BY <2>2, <2>3
  <2> HIDE DEF next, prev
  <2>5. Freed(m1, m, pv) /\ JoinedBy(m1, from, to)
    BY <2>3, UnlinkFrees
  <2> HIDE DEF m1
  <2>6. Whole(m1) /\ m1.link[pv] = NoEdge /\ Others(m1, m)
    BY <2>5 DEF Freed
  <2>7. /\ Freed(m2, m1, prev) /\ JoinedBy(m2, from, to)
        /\ vv # NoEdge => m2.link[vv] = NoEdge
    <3>1. CASE vv = NoEdge
      BY <2>3, <2>5, <2>6, <3>1 DEF Freed, Others
    <3>2. CASE vv # NoEdge
      BY <2>3, <2>5, <2>6, <3>2, OtherFrees
    <3> QED BY <3>1, <3>2
  <2>8. vv # NoEdge => /\ vv \in EndsOf(m1) /\ vv \in Ends /\ m1.link[vv] = prev
                       /\ vv # pv /\ vv # prev /\ from[vv] = to[prev] /\ from[prev] = to[vv]
    <3> SUFFICES ASSUME vv # NoEdge
                 PROVE  /\ vv \in EndsOf(m1) /\ vv \in Ends /\ m1.link[vv] = prev
                        /\ vv # pv /\ vv # prev /\ from[vv] = to[prev] /\ from[prev] = to[vv]
      OBVIOUS
    <3>1. vv \in EndsOf(m1) /\ vv \in Ends /\ m1.link[vv] = prev /\ vv # prev
      BY <2>3, <2>6, EndsOfAre DEF Whole, Mutual
    <3>2. vv # pv
      BY <2>3, <2>6, <3>1, NoneAssumption
    <3>3. from[vv] = to[prev] /\ from[prev] = to[vv]
      BY <2>3, <2>5, <3>1, NoneAssumption DEF JoinedBy
    <3> QED BY <3>1, <3>2, <3>3
  <2> HIDE DEF vv, m2
  <2>9. Whole(m2) /\ Others(m2, m) /\ m2.link[pv] = NoEdge /\ m2.link[prev] = NoEdge
    <3>1. /\ Whole(m2) /\ Others(m2, m1)
          /\ m2.link[prev] = NoEdge /\ m2.link[pv] \in {NoEdge, m1.link[pv]}
      BY <2>3, <2>7 DEF Freed
    <3> QED BY <2>6, <3>1 DEF Others
  <2>10. /\ Freed(m3, m2, next) /\ JoinedBy(m3, from, to)
         /\ ww # NoEdge => m3.link[ww] = NoEdge
    <3>1. CASE ww = NoEdge
      BY <2>3, <2>7, <2>9, <3>1 DEF Freed, Others
    <3>2. CASE ww # NoEdge
      BY <2>3, <2>7, <2>9, <3>2, OtherFrees
    <3> QED BY <3>1, <3>2
  <2>11. ww # NoEdge => /\ ww \in EndsOf(m2) /\ ww \in Ends /\ m2.link[ww] = next
                        /\ ww # pv /\ ww # prev /\ ww # next
                        /\ from[ww] = to[next] /\ from[next] = to[ww]
    <3> SUFFICES ASSUME ww # NoEdge
                 PROVE  /\ ww \in EndsOf(m2) /\ ww \in Ends /\ m2.link[ww] = next
                        /\ ww # pv /\ ww # prev /\ ww # next
                        /\ from[ww] = to[next] /\ from[next] = to[ww]
      OBVIOUS
    <3>1. ww \in EndsOf(m2) /\ ww \in Ends /\ m2.link[ww] = next /\ ww # next
      BY <2>3, <2>9, EndsOfAre DEF Whole, Mutual
    <3>2. ww # pv /\ ww # prev
      BY <2>3, <2>9, <3>1, NoneAssumption
    <3>3. from[ww] = to[next] /\ from[next] = to[ww]
      BY <2>3, <2>7, <3>1, NoneAssumption DEF JoinedBy
    <3> QED BY <3>1, <3>2, <3>3
  <2>12. vv # NoEdge /\ ww # NoEdge => vv # next /\ vv # ww
    BY <2>3, <2>7, <2>11, NoneAssumption DEF ww
  <2> HIDE DEF ww, m3
  <2>13. /\ Whole(m3) /\ Others(m3, m)
         /\ m3.link[pv] = NoEdge /\ m3.link[prev] = NoEdge /\ m3.link[next] = NoEdge
         /\ vv # NoEdge => m3.link[vv] = NoEdge
    <3>1. /\ Whole(m3) /\ Others(m3, m2) /\ m3.link[next] = NoEdge
          /\ \A x \in Ends : m3.link[x] \in {NoEdge, m2.link[x]}
      BY <2>10 DEF Freed
    <3> QED BY <2>3, <2>7, <2>8, <2>9, <3>1 DEF Others
  <2>14. /\ Whole(m4) /\ Others(m4, m) /\ JoinedBy(m4, from, to)
         /\ m4.link[pv] = NoEdge /\ m4.link[prev] = NoEdge /\ m4.link[next] = NoEdge
    <3>1. CASE ~(vv # NoEdge /\ ww # NoEdge)
      BY <2>10, <2>13, <3>1
    <3>2. CASE vv # NoEdge /\ ww # NoEdge
      <4>1. m4 = Link(m3, vv, ww)
        BY <3>2
      <4>2. EndsOf(m3) = EndsOf(m) /\ EndsOf(m1) = EndsOf(m) /\ EndsOf(m2) = EndsOf(m)
        BY <2>6, <2>9, <2>13 DEF Others, EndsOf, PolysOf
      <4>3. /\ vv \in EndsOf(m3) /\ ww \in EndsOf(m3) /\ vv # ww
            /\ m3.link[vv] = NoEdge /\ m3.link[ww] = NoEdge
            /\ from[ww] = to[vv] /\ from[vv] = to[ww]
        <5>1. /\ from[vv] = to[prev] /\ from[prev] = to[vv]
              /\ from[ww] = to[next] /\ from[next] = to[ww]
          BY <3>2, <2>8, <2>11
        <5>2. from[ww] = to[vv] /\ from[vv] = to[ww]
          BY <2>4, <5>1
        <5> QED BY <3>2, <4>2, <5>2, <2>8, <2>10, <2>11, <2>12, <2>13
      <4> HIDE DEF m4
      <4>4. /\ Whole(m4) /\ Others(m4, m3) /\ JoinedBy(m4, from, to)
            /\ \A x \in Ends \ {vv, ww} : m4.link[x] = m3.link[x]
        BY <2>10, <2>13, <4>1, <4>3, LinkKeeps, LinkJoins
      <4> QED BY <2>3, <2>8, <2>11, <2>12, <2>13, <3>2, <4>4 DEF Others
    <3> QED BY <3>1, <3>2
  <2> HIDE DEF m4
  <2>15. /\ PolysOf(m4) = PolysOf(m) /\ EndsOf(m4) = EndsOf(m) /\ m4.verts = m.verts
         /\ \A x : Vert(m4, x) = Vert(m, x)
    BY <2>14 DEF Others, PolysOf, EndsOf, Vert
  <2>16. /\ Whole(n) /\ \A x \in Ends : n.link[x] \in {NoEdge, m4.link[x]}
    <3>1. p \in PolysOf(m4) /\ FALSE \in BOOLEAN /\ \A e \in Ends : e[1] = p => m4.link[e] = NoEdge
      BY <2>3, <2>14, <2>15
    <3> QED BY <2>14, <3>1, WithoutPolyKeeps
  <2>17. Erased(n, m4, p, FALSE)
    <3>1. p \in PolysOf(m4) /\ FALSE \in BOOLEAN /\ Surface(m4)
      BY <2>14, <2>15 DEF Whole
    <3> QED BY <3>1, WithoutPolySurface
  <2> HIDE DEF n
  <2>18. Gone(n, m, p)
    BY <2>15, <2>17 DEF Erased, Gone
  <2>19. JoinedBy(n, from, to)
    BY <2>14, <2>16 DEF JoinedBy
  <2> QED BY <1>1, <1>2, <1>4, <2>16, <2>18, <2>19
<1> QED BY <1>3, <1>4

----------------------------------------------------------------------------
(* merge_verts() *)

\* The ends of the edges as they are when b has become a.
As(v, a, b) == IF v = b THEN a ELSE v
FromsAs(n, a, b) == [e \in Ends |-> As(Vert(n, e), a, b)]
TosAs(n, a, b) == [e \in Ends |-> As(Vert(n, Turn(e, 1)), a, b)]

\* While b is merged into a: b has k corners left, and a is not without one
\* before b is.
Merging(n, a, b, k) ==
  /\ Whole(n) /\ ~HasDegeneratePolys(n)
  /\ JoinedBy(n, FromsAs(n, a, b), TosAs(n, a, b))
  /\ Cardinality(n.poly_links[b]) = k
  /\ Cardinality(n.poly_links[a]) >= k

\* There are finitely many edges.
LEMMA EndsFinite ==
  ASSUME NEW T \in SUBSET Ends
  PROVE  IsFiniteSet(T) /\ Cardinality(T) \in Nat
<1>1. IsFiniteSet(Polys) /\ IsFiniteSet(0 .. 2)
  <2>1. 0 \in Int /\ 2 \in Int /\ MaxPolys - 1 \in Int
    BY BoundsAssumption
  <2> QED BY <2>1, FS_Interval DEF Polys
<1>2. IsFiniteSet(Polys \X (0 .. 2))
  BY <1>1, FS_Product
<1> QED BY <1>2, FS_Subset, FS_CardinalityType DEF Ends

\* The corners of a polygon differ if no edge runs from a vertex to itself.
LEMMA ThreeCorners ==
  ASSUME NEW m, Surface(m), ~HasDegeneratePolys(m), NEW e \in EndsOf(m)
  PROVE  /\ Vert(m, e) # Vert(m, Turn(e, 1)) /\ Vert(m, e) # Vert(m, Turn(e, 2))
         /\ Vert(m, Turn(e, 1)) # Vert(m, Turn(e, 2))
<1>1. e \in Ends /\ Turn(e, 1) \in EndsOf(m) /\ Turn(e, 2) \in EndsOf(m)
  BY EndsOfAre
<1>2. Turn(Turn(e, 1), 1) = Turn(e, 2) /\ Turn(Turn(e, 2), 1) = e
  BY <1>1, TurnsAre
<1>3. \A x \in EndsOf(m) : Vert(m, x) # Vert(m, Turn(x, 1))
  BY DEF HasDegeneratePolys, From, To
<1> QED BY <1>1, <1>2, <1>3

\* One turn of merge_verts() keeps what the loop relies on.
LEMMA MoveKeeps ==
  ASSUME NEW n, NEW a \in Verts, NEW b \in Verts, a # b, NEW k \in Nat,
         Merging(n, a, b, k + 1), NEW c \in n.poly_links[b]
  PROVE  Merging(MoveCorner(n, c, a), a, b, k)
<1> DEFINE p == c[1]
           m1 == ChangeVert(n, c, a)
           m2 == EraseIfDegenerate(m1, p)
           from == FromsAs(n, a, b)
           to == TosAs(n, a, b)
<1>1. /\ Whole(n) /\ Surface(n) /\ Mutual(n) /\ JoinedBy(n, from, to)
      /\ \A v \in Verts : n.poly_links[v] = {x \in EndsOf(n) : Vert(n, x) = v}
      /\ n.poly_links[b] \in SUBSET Ends /\ n.poly_links[a] \in SUBSET Ends
  BY DEF Merging, Whole, Surface
<1>2. /\ IsFiniteSet(n.poly_links[b]) /\ Cardinality(n.poly_links[b]) = k + 1
      /\ IsFiniteSet(n.poly_links[a]) /\ Cardinality(n.poly_links[a]) \in Nat
      /\ Cardinality(n.poly_links[a]) >= k + 1
  BY <1>1, EndsFinite DEF Merging
<1>3. c \in EndsOf(n) /\ Vert(n, c) = b /\ c \in Ends /\ p \in PolysOf(n)
  BY <1>1, EndsOfAre DEF EndsOf
<1>4. a \in n.verts
  <2>1. n.poly_links[a] # {}
    <3>1. Cardinality({}) = 0
      BY FS_EmptySet
    <3> QED BY <1>2, <3>1
  <2>2. PICK x \in EndsOf(n) : Vert(n, x) = a
    BY <1>1, <2>1
  <2> QED BY <1>1, <2>2 DEF Surface
<1>5. Whole(m1) /\ Changed(m1, n, c, a)
  BY <1>1, <1>3, <1>4, ChangeVertWhole
<1> HIDE DEF m1
<1>6. /\ Surface(m1) /\ m1.link = n.link /\ m1.verts = n.verts
      /\ PolysOf(m1) = PolysOf(n) /\ EndsOf(m1) = EndsOf(n)
      /\ Vert(m1, c) = a
      /\ \A x \in Ends \ {c} : Vert(m1, x) = Vert(n, x)
  BY <1>5 DEF Changed
<1>7. \A x \in Ends : /\ from[x] = As(Vert(m1, x), a, b)
                      /\ to[x] = As(Vert(m1, Turn(x, 1)), a, b)
  <2>1. \A x \in Ends : As(Vert(m1, x), a, b) = As(Vert(n, x), a, b)
    BY <1>3, <1>6 DEF As
  <2>2. \A x \in Ends : Turn(x, 1) \in Ends
    BY TurnsAre
  <2> QED BY <2>1, <2>2 DEF FromsAs, TosAs
<1>8. JoinedBy(m1, from, to)
  BY <1>1, <1>6 DEF JoinedBy
<1>9. /\ \A e \in Ends : e[1] = p => to[e] = from[Turn(e, 1)]
      /\ \A e \in Ends : e[1] = p /\ From(m1, e) = To(m1, e) => from[e] = to[e]
  BY <1>7, TurnsAre DEF From, To
<1> HIDE DEF from, to
<1>10. /\ Whole(m2) /\ JoinedBy(m2, from, to)
       /\ IF IsDegenerate(m1, p) THEN Gone(m2, m1, p) ELSE m2 = m1
  BY <1>3, <1>5, <1>6, <1>8, <1>9, EraseIfDegenerateKeeps
<1> HIDE DEF m2
<1>11. ~HasDegeneratePolys(m2) /\ \A x \in EndsOf(m2) : x \in EndsOf(n) /\ Vert(m2, x) = Vert(m1, x)
                               /\ Vert(m2, Turn(x, 1)) = Vert(m1, Turn(x, 1))
  <2>1. ASSUME NEW x \in EndsOf(n), x[1] # p
        PROVE  From(m1, x) # To(m1, x)
    <3>1. x \in Ends /\ Turn(x, 1) \in Ends /\ x # c /\ Turn(x, 1) # c
      BY <2>1, EndsOfAre, TurnsAre
    <3> QED BY <1>6, <3>1 DEF Merging, HasDegeneratePolys, From, To
  <2>2. CASE IsDegenerate(m1, p)
    <3>1. /\ \A x \in Ends : x \in EndsOf(m2) <=> x \in EndsOf(n) /\ x[1] # p
          /\ \A x \in Ends : x[1] # p => Vert(m2, x) = Vert(m1, x)
      BY <1>6, <1>10, <2>2 DEF Gone
    <3>2. \A x \in EndsOf(m2) : x \in Ends /\ Turn(x, 1) \in Ends /\ Turn(x, 1)[1] = x[1]
      BY EndsOfAre, TurnsAre
    <3> QED BY <2>1, <3>1, <3>2 DEF HasDegeneratePolys, From, To
  <2>3. CASE ~IsDegenerate(m1, p)
    BY <1>6, <1>10, <2>1, <2>3 DEF HasDegeneratePolys, IsDegenerate
  <2> QED BY <2>2, <2>3
<1>12. JoinedBy(m2, FromsAs(m2, a, b), TosAs(m2, a, b))
  <2>1. Mutual(m2)
    BY <1>10 DEF Whole
  <2>2. ASSUME NEW e \in Ends, m2.link[e] # NoEdge
        PROVE  FromsAs(m2, a, b)[e] = from[e] /\ TosAs(m2, a, b)[e] = to[e]
    <3>1. e \in EndsOf(m2)
      BY <2>1, <2>2 DEF Mutual
    <3> QED BY <1>7, <1>11, <3>1 DEF FromsAs, TosAs
  <2> QED BY <1>10, <2>1, <2>2, Relabelled
<1>13. \A v \in Verts : m2.poly_links[v] = {x \in EndsOf(m2) : Vert(m2, x) = v}
  BY <1>10 DEF Whole, Surface
<1>14. m2.poly_links[b] = n.poly_links[b] \ {c}
  <2>1. CASE IsDegenerate(m1, p)
    <3>1. /\ \A x \in Ends : x \in EndsOf(m2) <=> x \in EndsOf(n) /\ x[1] # p
          /\ \A x \in Ends : x[1] # p => Vert(m2, x) = Vert(m1, x)
      BY <1>6, <1>10, <2>1 DEF Gone
    <3>2. \A x \in EndsOf(n) : x[1] = p /\ Vert(n, x) = b => x = c
      BY <1>1, <1>3, EndsOfAre, TurnsAre, ThreeCorners DEF Merging
    <3> QED BY <1>1, <1>3, <1>6, <1>13, <3>1, <3>2, EndsOfAre
  <2>2. CASE ~IsDegenerate(m1, p)
    BY <1>1, <1>3, <1>6, <1>10, <1>13, <2>2, EndsOfAre
  <2> QED BY <2>1, <2>2
<1>15. Cardinality(m2.poly_links[b]) = k
  <2>1. Cardinality(n.poly_links[b] \ {c}) = Cardinality(n.poly_links[b]) - 1
    BY <1>2, FS_RemoveElement
  <2> QED BY <1>2, <1>14, <2>1
<1>16. Cardinality(m2.poly_links[a]) >= k
  <2>1. CASE IsDegenerate(m1, p)
    <3>1. /\ \A x \in Ends : x \in EndsOf(m2) <=> x \in EndsOf(n) /\ x[1] # p
          /\ \A x \in Ends : x[1] # p => Vert(m2, x) = Vert(m1, x)
      BY <1>6, <1>10, <2>1 DEF Gone
    <3>2. PICK x \in EndsOf(n) : x[1] = p /\ Vert(n, x) = a
      <4>1. PICK e \in EndsOf(n) : e[1] = p /\ Vert(m1, e) = Vert(m1, Turn(e, 1))
        BY <1>6, <2>1 DEF IsDegenerate, From, To
      <4>2. e \in Ends /\ Turn(e, 1) \in EndsOf(n) /\ Turn(e, 1) \in Ends /\ Turn(e, 1)[1] = p
            /\ Turn(e, 1) # e
        BY <4>1, EndsOfAre, TurnsAre
      <4>3. Vert(n, e) # Vert(n, Turn(e, 1))
        BY <1>1, ThreeCorners DEF Merging
      <4> QED BY <1>6, <4>1, <4>2, <4>3
    <3>3. \A y \in EndsOf(n) : y[1] = p /\ Vert(n, y) = a => y = x
      BY <1>1, <3>2, EndsOfAre, TurnsAre, ThreeCorners DEF Merging
    <3>4. m2.poly_links[a] = n.poly_links[a] \ {x} /\ x \in n.poly_links[a]
      BY <1>1, <1>3, <1>6, <1>13, <3>1, <3>2, <3>3, EndsOfAre
    <3>5. Cardinality(m2.poly_links[a]) = Cardinality(n.poly_links[a]) - 1
      BY <1>2, <3>4, FS_RemoveElement
    <3> QED BY <1>2, <3>5
  <2>2. CASE ~IsDegenerate(m1, p)
    <3>1. m2.poly_links[a] = n.poly_links[a] \cup {c} /\ c \notin n.poly_links[a]
      BY <1>1, <1>3, <1>6, <1>10, <1>13, <2>2, EndsOfAre
    <3>2. Cardinality(m2.poly_links[a]) = Cardinality(n.poly_links[a]) + 1
      BY <1>2, <3>1, FS_AddElement
    <3> QED BY <1>2, <3>2
  <2> QED BY <2>1, <2>2
<1> QED BY <1>10, <1>11, <1>12, <1>15, <1>16 DEF Merging, MoveCorner, m1, m2, p

\* A mesh that is sound and has no edge from a vertex to itself.
Proper(m) == Sound(m) /\ ~HasDegeneratePolys(m)

\* An assertion that holds leaves a sound mesh.
LEMMA RequireHolds ==
  ASSUME NEW m, Sound(m), NEW x \in BOOLEAN, x
  PROVE  Sound(Require(m, x)) /\ Others(Require(m, x), m) /\ Require(m, x).link = m.link
<1> DEFINE n == Require(m, x)
<1>1. IsMesh(m) /\ Whole(m) /\ Surface(m) /\ Mutual(m) /\ Joins(m) /\ m.ok
  BY DEF Sound, Whole, Surface, Mutual
<1>2. Has(n, m.verts, m.corners, m.link, m.poly_links) /\ n.ok
  BY <1>1, RequireIs
<1> HIDE DEF n
<1>3. IsMesh(n) /\ n.link = m.link /\ Others(n, m)
  BY <1>2, Fields, Zenon DEF Others
<1>4. /\ Surface(n) /\ PolysOf(n) = PolysOf(m) /\ EndsOf(n) = EndsOf(m)
      /\ \A e : Vert(n, e) = Vert(m, e)
      /\ Froms(n) = Froms(m) /\ Tos(n) = Tos(m)
  BY <1>1, <1>3, SurfaceKept
<1>5. Mutual(n)
  BY <1>1, <1>2, <1>3, <1>4 DEF Mutual
<1>6. Joins(n)
  BY <1>1, <1>3, <1>4 DEF Joins, JoinedBy
<1> QED BY <1>3, <1>4, <1>5, <1>6 DEF Sound, Whole, n

\* When b has no corners any more.
LEMMA MergingEnds ==
  ASSUME NEW n, NEW a \in Verts, NEW b \in Verts, Merging(n, a, b, 0)
  PROVE  Proper(Require([n EXCEPT !.verts = @ \ {b}], n.poly_links[b] = {}))
<1>1. /\ Whole(n) /\ Surface(n) /\ Mutual(n) /\ JoinedBy(n, FromsAs(n, a, b), TosAs(n, a, b))
      /\ n.poly_links[b] = {x \in EndsOf(n) : Vert(n, x) = b}
      /\ n.poly_links[b] \in SUBSET Ends
  BY DEF Merging, Whole, Surface
<1>2. n.poly_links[b] = {}
  BY <1>1, EndsFinite, FS_EmptySet DEF Merging
<1>3. \A x \in EndsOf(n) : x \in Ends /\ Turn(x, 1) \in EndsOf(n) /\ Vert(n, x) # b
                           /\ Vert(n, x) \in n.verts
  BY <1>1, <1>2, EndsOfAre DEF Surface
<1>4. Sound(n)
  <2>1. ASSUME NEW e \in Ends, n.link[e] # NoEdge
        PROVE  Froms(n)[e] = FromsAs(n, a, b)[e] /\ Tos(n)[e] = TosAs(n, a, b)[e]
    <3>1. e \in EndsOf(n)
      BY <1>1, <2>1 DEF Mutual
    <3> QED BY <1>3, <3>1, LabelsAre DEF FromsAs, TosAs, As
  <2>2. JoinedBy(n, Froms(n), Tos(n))
    BY <1>1, <2>1, Relabelled
  <2> QED BY <1>1, <2>2 DEF Sound, Joins
<1> DEFINE vs == n.verts \ {b}
           m == [n EXCEPT !.verts = vs]
           x == n.poly_links[b] = {}
<1>5. vs \in SUBSET Verts /\ \A c \in EndsOf(n) : Vert(n, c) \in vs
  BY <1>1, <1>3 DEF Surface
<1>6. [n EXCEPT !.verts = @ \ {b}] = m
  OBVIOUS
<1>7. x \in BOOLEAN /\ x
  BY <1>2
<1> HIDE DEF vs, x
<1>8. Sound(m) /\ m.corners = n.corners
  <2>1. Has(m, vs, n.corners, n.link, n.poly_links)
    BY <1>1, SetVerts, Zenon DEF Surface
  <2>2. Sound(m)
    BY <1>4, <1>5, VertsSound
  <2> HIDE DEF m
  <2> QED BY <2>1, <2>2, Fields, Zenon
<1> HIDE DEF m
<1>9. Sound(Require(m, x)) /\ Require(m, x).corners = n.corners
  BY <1>7, <1>8, RequireHolds DEF Others
<1>10. ~HasDegeneratePolys(Require(m, x))
  BY <1>9 DEF Merging, HasDegeneratePolys, EndsOf, PolysOf, From, To, Vert
<1> QED BY <1>6, <1>9, <1>10 DEF Proper, x

\* merge_verts() begins with what its loop relies on.
LEMMA MergingBegins ==
  ASSUME NEW n, Proper(n), NEW a \in Verts, NEW b \in Verts,
         Cardinality(n.poly_links[a]) >= Cardinality(n.poly_links[b])
  PROVE  Merging(n, a, b, Cardinality(n.poly_links[b]))
<1>1. Whole(n) /\ Surface(n) /\ Mutual(n) /\ JoinedBy(n, Froms(n), Tos(n))
  BY SoundJoins DEF Proper
<1>2. JoinedBy(n, FromsAs(n, a, b), TosAs(n, a, b))
  <2>1. ASSUME NEW e \in Ends, n.link[e] # NoEdge
        PROVE  FromsAs(n, a, b)[n.link[e]] = TosAs(n, a, b)[e]
    <3>1. n.link[e] \in Ends
      BY <1>1, <2>1, EndsOfAre DEF Mutual
    <3>2. Vert(n, n.link[e]) = Vert(n, Turn(e, 1))
      BY <1>1, <2>1, <3>1, LabelsAre DEF JoinedBy
    <3> QED BY <3>1, <3>2 DEF FromsAs, TosAs
  <2> QED BY <2>1 DEF JoinedBy
<1> QED BY <1>1, <1>2 DEF Merging, Proper

\* Merging into the vertex with no fewer polygons leaves a proper mesh.
LEMMA MergedIntoProper ==
  ASSUME NEW m, Proper(m), NEW a \in Verts, NEW b \in Verts, a # b,
         Cardinality(m.poly_links[a]) >= Cardinality(m.poly_links[b]),
         NEW n \in MergedInto(m, a, b)
  PROVE  Proper(n)
<1> DEFINE N == Cardinality(m.poly_links[b])
           x0 == {m}
           S(ss) == UNION {{MoveCorner(s, c, a) : c \in s.poly_links[b]} : s \in ss}
           T == [k \in 0 .. N |-> SUBSET {s \in Meshes : Merging(s, a, b, N - k)}]
           F == [k \in 0 .. N - 1 |-> [ss \in T[k] |-> S(ss)]]
<1>0. N \in Nat
  <2>1. m.poly_links[b] \in SUBSET Ends
    BY DEF Proper, Sound, Whole, Surface
  <2> QED BY <2>1, EndsFinite
<1>a. Merging(m, a, b, N)
  BY MergingBegins
<1> HIDE DEF N
<1>1. ASSUME NEW s, NEW k, Merging(s, a, b, k) PROVE s \in Meshes
  BY <1>1, WholeIn DEF Merging
<1>2. ASSUME NEW k \in 0 .. N - 1, NEW ss \in T[k] PROVE S(ss) \in T[k + 1]
  <2>1. k \in 0 .. N /\ k + 1 \in 0 .. N /\ N - (k + 1) \in Nat /\ (N - (k + 1)) + 1 = N - k
    BY <1>0
  <2>2. \A s \in ss : Merging(s, a, b, N - k)
    BY <2>1
  <2>3. ASSUME NEW t \in S(ss) PROVE t \in Meshes /\ Merging(t, a, b, N - (k + 1))
    <3>1. PICK s \in ss : \E c \in s.poly_links[b] : t = MoveCorner(s, c, a)
      OBVIOUS
    <3>2. PICK c \in s.poly_links[b] : t = MoveCorner(s, c, a)
      BY <3>1
    <3> DEFINE j == N - (k + 1)
    <3>3. j \in Nat /\ Merging(s, a, b, j + 1)
      BY <2>1, <2>2
    <3> HIDE DEF j
    <3>4. Merging(t, a, b, j)
      BY <3>2, <3>3, MoveKeeps
    <3> QED BY <3>4, <1>1 DEF j
  <2> HIDE DEF S
  <2> QED BY <2>1, <2>3
<1>3. x0 \in T[0]
  <2>1. m \in Meshes /\ N - 0 = N
    BY <1>0, <1>1, <1>a
  <2> QED BY <1>0, <1>a, <2>1
<1> HIDE DEF S, T
<1>4. \A k \in 0 .. N - 1 : \A ss \in T[k] : F[k][ss] = S(ss)
  OBVIOUS
<1> HIDE DEF F
<1>5. Takes(T, N, F)
  BY <1>2, <1>4 DEF Takes
<1>6. PICK g : AreTurns(g, N, x0, F) /\ \A k \in 0 .. N : g[k] \in T[k]
  <2> HIDE DEF x0, N
  <2> QED BY <1>0, <1>3, <1>5, LoopRuns
<1> DEFINE Is(h) == h = [k \in 0 .. N |->
                           IF k = 0 THEN x0
                           ELSE UNION {{MoveCorner(s, c, a) : c \in s.poly_links[b]}
                                         : s \in h[k - 1]}]
<1>7. Is(g)
  <2>1. g[0] = x0 /\ g = [k \in 0 .. N |-> g[k]]
    BY <1>6 DEF AreTurns
  <2>2. ASSUME NEW k \in 0 .. N, k # 0
        PROVE  g[k] = UNION {{MoveCorner(s, c, a) : c \in s.poly_links[b]} : s \in g[k - 1]}
    <3>1. k - 1 \in 0 .. N - 1 /\ k - 1 \in 0 .. N /\ (k - 1) + 1 = k
      BY <1>0, <2>2
    <3>2. g[k] = S(g[k - 1])
      BY <1>4, <1>6, <3>1 DEF AreTurns
    <3> QED BY <3>1, <3>2 DEF S
  <2> HIDE DEF x0, N
  <2> QED BY <2>1, <2>2
<1>8. PICK h : Is(h) /\ MergedInto(m, a, b)
                        = {Require([s EXCEPT !.verts = @ \ {b}], s.poly_links[b] = {}) : s \in h[N]}
  <2>1. MergedInto(m, a, b) = {Require([s EXCEPT !.verts = @ \ {b}], s.poly_links[b] = {}) :
                                 s \in (CHOOSE h : Is(h))[N]}
    BY DEF MergedInto, N
  <2>2. Is(CHOOSE h : Is(h))
    <3> HIDE DEF Is
    <3> QED BY <1>7
  <2> HIDE DEF Is
  <2> QED BY <2>1, <2>2
<1>9. \A k \in 0 .. N : h[k] \in T[k]
  <2>1. h[0] = x0
    BY <1>0, <1>8
  <2>2. ASSUME NEW k \in 0 .. N - 1 PROVE h[k + 1] = S(h[k])
    <3>1. k + 1 \in 0 .. N /\ k + 1 # 0 /\ (k + 1) - 1 = k
      BY <1>0
    <3> QED BY <1>8, <3>1 DEF S
  <2>3. \A k \in 0 .. N - 1 : h[k] \in T[k] => h[k + 1] \in T[k + 1]
    BY <1>2, <2>2
  <2> HIDE DEF x0, N, Is
  <2> QED BY <1>0, <1>3, <2>1, <2>3, TurnsStay
<1>10. h[N] \in T[N] /\ N \in 0 .. N /\ N - N = 0
  BY <1>0, <1>9
<1>11. \A s \in h[N] : Merging(s, a, b, 0)
  BY <1>10 DEF T
<1> HIDE DEF Is
<1>12. PICK s \in h[N] : n = Require([s EXCEPT !.verts = @ \ {b}], s.poly_links[b] = {})
  BY <1>8
<1> QED BY <1>11, <1>12, MergingEnds

\* merge_verts() leaves a proper mesh, whatever the order of its loop.
LEMMA MergedProper ==
  ASSUME NEW m, Proper(m), NEW a \in Verts, NEW b \in Verts, a # b, NEW n \in Merged(m, a, b)
  PROVE  Proper(n)
<1>1. /\ Cardinality(m.poly_links[a]) \in Nat /\ Cardinality(m.poly_links[b]) \in Nat
  <2>1. m.poly_links[a] \in SUBSET Ends /\ m.poly_links[b] \in SUBSET Ends
    BY DEF Proper, Sound, Whole, Surface
  <2> QED BY <2>1, EndsFinite
<1>2. CASE Cardinality(m.poly_links[a]) < Cardinality(m.poly_links[b])
  <2>1. n \in MergedInto(m, b, a)
    BY <1>2 DEF Merged, FewerPolysInto
  <2>2. Cardinality(m.poly_links[b]) >= Cardinality(m.poly_links[a])
    BY <1>1, <1>2
  <2> QED BY <2>1, <2>2, MergedIntoProper
<1>3. CASE ~(Cardinality(m.poly_links[a]) < Cardinality(m.poly_links[b]))
  <2>1. n \in MergedInto(m, a, b)
    BY <1>3 DEF Merged, FewerPolysInto
  <2>2. Cardinality(m.poly_links[a]) >= Cardinality(m.poly_links[b])
    BY <1>1, <1>3
  <2> QED BY <2>1, <2>2, MergedIntoProper
<1> QED BY <1>2, <1>3

----------------------------------------------------------------------------
(* clean_flat_surfaces_on_edges() *)

Sealed(m) == Proper(m) /\ Open(m) = {}

\* What becomes of the links when the neighbours of e and f are joined.
Joined(n, m, e, f) ==
  /\ Sound(n) /\ Others(n, m)
  /\ n.link[e] \in {NoEdge, f} /\ n.link[f] \in {NoEdge, e}
  /\ \A x \in Ends \ {e, f} : m.link[x] # NoEdge => n.link[x] # NoEdge
  /\ \A x \in Ends : x \notin {e, f} /\ m.link[x] \notin {e, f} => n.link[x] = m.link[x]

\* The neighbours of two edges are joined, unless the edges are each other's.
LEMMA JoinKeeps ==
  ASSUME NEW m, Sound(m), NEW e \in EndsOf(m), NEW f \in EndsOf(m), e # f,
         m.link[e] # NoEdge, m.link[f] # NoEdge,
         From(m, e) = To(m, f), To(m, e) = From(m, f),
         NEW skip \in BOOLEAN, skip <=> m.link[e] = f
  PROVE  Joined(Join(m, e, f, skip), m, e, f)
<1> DEFINE x == m.link[e]
           y == m.link[f]
           m1 == Unlink(m, x)
           m2 == Unlink(m1, y)
           n == Link(m2, x, y)
<1>1. /\ Whole(m) /\ Surface(m) /\ Mutual(m) /\ JoinedBy(m, Froms(m), Tos(m))
      /\ e \in Ends /\ f \in Ends
  BY SoundJoins, EndsOfAre
<1>2. /\ x \in EndsOf(m) /\ y \in EndsOf(m) /\ x \in Ends /\ y \in Ends
      /\ m.link[x] = e /\ m.link[y] = f /\ x # e /\ y # f /\ x # y
      /\ m.link[x] # NoEdge /\ m.link[y] # NoEdge
  BY <1>1, EndsOfAre, NoneAssumption DEF Mutual
<1>3. CASE skip
  <2>1. Join(m, e, f, skip) = m
    BY <1>3 DEF Join
  <2>2. m.link[e] = f /\ m.link[f] = e
    BY <1>1, <1>2, <1>3
  <2> QED BY <2>1, <2>2, <1>1 DEF Joined, Others
<1>4. CASE ~skip
  <2>1. Join(m, e, f, skip) = n
    BY <1>4 DEF Join
  <2>2. x # f /\ y # e
    BY <1>2, <1>4
  <2>3. Froms(m)[y] = Tos(m)[x] /\ Froms(m)[x] = Tos(m)[y]
    <3>1. /\ Froms(m)[x] = Tos(m)[e] /\ Froms(m)[e] = Tos(m)[x]
          /\ Froms(m)[y] = Tos(m)[f] /\ Froms(m)[f] = Tos(m)[y]
      BY <1>1, <1>2 DEF JoinedBy
    <3>2. Froms(m)[e] = Tos(m)[f] /\ Tos(m)[e] = Froms(m)[f]
      BY <1>1 DEF Froms, Tos
    <3> QED BY <3>1, <3>2
  <2> DEFINE from == Froms(m)
             to == Tos(m)
  <2>a. JoinedBy(m, from, to) /\ from[y] = to[x] /\ from[x] = to[y]
    BY <1>1, <2>3
  <2> HIDE DEF x, y, from, to
  <2>4. /\ Whole(m1) /\ Others(m1, m) /\ m1.link[x] = NoEdge /\ m1.link[e] = NoEdge
        /\ \A z \in Ends \ {x, e} : m1.link[z] = m.link[z]
        /\ JoinedBy(m1, from, to)
    BY <1>1, <1>2, <2>a, UnlinkKeeps, UnlinkJoins
  <2> HIDE DEF m1
  <2>5. m1.link[y] = f /\ m1.link[y] # NoEdge
    BY <1>2, <2>2, <2>4
  <2>6. /\ Whole(m2) /\ Others(m2, m1) /\ m2.link[y] = NoEdge /\ m2.link[f] = NoEdge
        /\ \A z \in Ends \ {y, f} : m2.link[z] = m1.link[z]
        /\ JoinedBy(m2, from, to)
    BY <1>2, <2>4, <2>5, UnlinkKeeps, UnlinkJoins
  <2> HIDE DEF m2
  <2>7. /\ x \in EndsOf(m2) /\ y \in EndsOf(m2) /\ x # y
        /\ m2.link[x] = NoEdge /\ m2.link[y] = NoEdge
    BY <1>2, <2>2, <2>4, <2>6 DEF Others, EndsOf, PolysOf
  <2>8. /\ Whole(n) /\ Others(n, m2) /\ n.link[x] = y /\ n.link[y] = x
        /\ \A z \in Ends \ {x, y} : n.link[z] = m2.link[z]
        /\ JoinedBy(n, from, to)
    BY <2>6, <2>7, <2>a, LinkKeeps, LinkJoins
  <2> HIDE DEF n
  <2>9. Others(n, m)
    BY <2>4, <2>6, <2>8 DEF Others
  <2>10. Sound(n)
    <3>1. Froms(n) = Froms(m) /\ Tos(n) = Tos(m)
      BY <2>9 DEF Others, Froms, Tos, From, To, Vert
    <3> QED BY <2>8, <3>1 DEF Sound, Joins, from, to
  <2>11. n.link[e] = NoEdge /\ n.link[f] = NoEdge
    BY <1>1, <1>2, <2>2, <2>4, <2>6, <2>8
  <2>12. ASSUME NEW z \in Ends, z \notin {e, f}, m.link[z] # NoEdge PROVE n.link[z] # NoEdge
    BY <1>2, <2>4, <2>6, <2>8, <2>12, NoneAssumption
  <2>13. ASSUME NEW z \in Ends, z \notin {e, f}, m.link[z] \notin {e, f}
         PROVE n.link[z] = m.link[z]
    BY <1>2, <2>4, <2>6, <2>8, <2>13
  <2> QED BY <2>1, <2>9, <2>10, <2>11, <2>12, <2>13 DEF Joined
<1> QED BY <1>3, <1>4

\* Two polygons may be erased without a look at their links if those stay between
\* the two.
LEMMA TwoErased ==
  ASSUME NEW m, Sound(m), NEW p \in PolysOf(m), NEW q \in PolysOf(m), p # q,
         \A x \in Ends : x[1] \in {p, q} /\ m.link[x] # NoEdge => m.link[x][1] \in {p, q}
  PROVE  LET n == WithoutPoly(WithoutPoly(m, p, FALSE, TRUE), q, FALSE, TRUE)
         IN  /\ Sound(n)
             /\ \A x \in Ends : x \in EndsOf(n) <=> x \in EndsOf(m) /\ x[1] \notin {p, q}
             /\ \A x \in Ends : x[1] \notin {p, q} =>
                  n.link[x] = m.link[x] /\ Vert(n, x) = Vert(m, x)
<1> DEFINE m1 == WithoutPoly(m, p, FALSE, TRUE)
           n == WithoutPoly(m1, q, FALSE, TRUE)
<1>1. Whole(m) /\ Surface(m) /\ Mutual(m) /\ JoinedBy(m, Froms(m), Tos(m)) /\ FALSE \in BOOLEAN
  BY SoundJoins
<1>2. Erased(m1, m, p, FALSE)
  BY <1>1, WithoutPolySurface
<1> HIDE DEF m1
<1>3. /\ Surface(m1) /\ m1.ok /\ q \in PolysOf(m1)
      /\ \A x \in Ends : x \in EndsOf(m1) <=> x \in EndsOf(m) /\ x[1] # p
      /\ \A x \in Ends : x[1] # p => Vert(m1, x) = Vert(m, x)
      /\ m1.link = LinkLeft(m, p, FALSE)
  BY <1>1, <1>2 DEF Erased, Mutual
<1>4. Erased(n, m1, q, FALSE)
  BY <1>1, <1>3, WithoutPolySurface
<1> HIDE DEF n
<1>5. /\ Surface(n) /\ n.ok
      /\ \A x \in Ends : x \in EndsOf(n) <=> x \in EndsOf(m1) /\ x[1] # q
      /\ \A x \in Ends : x[1] # q => Vert(n, x) = Vert(m1, x)
      /\ n.link = LinkLeft(m1, q, FALSE)
  BY <1>3, <1>4 DEF Erased
<1>6. /\ \A x \in Ends : x[1] \in {p, q} => n.link[x] = NoEdge
      /\ \A x \in Ends : x[1] \notin {p, q} => n.link[x] = m.link[x]
      /\ n.link \in [Ends -> Ends \cup {NoEdge}]
  <2>1. \A r \in Polys : \A x \in Ends : x \in OwnOf(r) <=> x[1] = r
    BY DEF OwnOf, Ends
  <2>2. \A x \in Ends : m1.link[x] = IF x[1] = p THEN NoEdge ELSE m.link[x]
    BY <1>3, <2>1 DEF LinkLeft, PolysOf
  <2>3. \A x \in Ends : n.link[x] = IF x[1] = q THEN NoEdge ELSE m1.link[x]
    BY <1>5, <2>1 DEF LinkLeft, PolysOf
  <2>4. n.link = [x \in Ends |-> n.link[x]]
    BY <1>5 DEF LinkLeft
  <2>5. \A x \in Ends : n.link[x] \in Ends \cup {NoEdge}
    BY <1>1, <2>2, <2>3 DEF Mutual
  <2> QED BY <2>2, <2>3, <2>4, <2>5
<1>7. /\ \A x \in Ends : x \in EndsOf(n) <=> x \in EndsOf(m) /\ x[1] \notin {p, q}
      /\ \A x \in Ends : x[1] \notin {p, q} => Vert(n, x) = Vert(m, x)
  BY <1>3, <1>5
<1>8. ASSUME NEW x \in Ends, n.link[x] # NoEdge
      PROVE  /\ x[1] \notin {p, q} /\ n.link[x] = m.link[x] /\ x \in EndsOf(m)
             /\ m.link[x] \in Ends /\ m.link[x][1] \notin {p, q}
  <2>1. x[1] \notin {p, q} /\ n.link[x] = m.link[x]
    BY <1>6, <1>8
  <2>2. x \in EndsOf(m) /\ m.link[x] \in Ends /\ m.link[m.link[x]] = x
    BY <1>1, <1>8, <2>1, EndsOfAre DEF Mutual
  <2>3. m.link[m.link[x]] # NoEdge
    BY <2>2, NoneAssumption
  <2> QED BY <2>1, <2>2, <2>3
<1>9. Mutual(n)
  <2>1. ASSUME NEW x \in Ends, n.link[x] # NoEdge
        PROVE  /\ x \in EndsOf(n) /\ n.link[x] \in EndsOf(n)
               /\ n.link[x] # x /\ n.link[n.link[x]] = x
    <3> DEFINE y == m.link[x]
    <3>1. x[1] \notin {p, q} /\ n.link[x] = y /\ x \in EndsOf(m) /\ y \in Ends /\ y[1] \notin {p, q}
      BY <1>8, <2>1
    <3>2. y \in EndsOf(m) /\ y # x /\ m.link[y] = x
      BY <1>1, <2>1, <3>1 DEF Mutual
    <3> HIDE DEF y
    <3> QED BY <1>6, <1>7, <3>1, <3>2
  <2> QED BY <1>5, <1>6, <2>1 DEF Mutual
<1>10. JoinedBy(n, Froms(n), Tos(n))
  <2>1. ASSUME NEW x \in Ends, n.link[x] # NoEdge
        PROVE  Froms(n)[n.link[x]] = Tos(n)[x]
    <3>1. Vert(n, m.link[x]) = Vert(m, m.link[x]) /\ Vert(n, Turn(x, 1)) = Vert(m, Turn(x, 1))
      BY <1>7, <1>8, <2>1, TurnsAre
    <3>2. Froms(m)[m.link[x]] = Tos(m)[x]
      BY <1>1, <1>8, <2>1 DEF JoinedBy
    <3> QED BY <1>8, <2>1, <3>1, <3>2, LabelsAre
  <2> QED BY <2>1 DEF JoinedBy
<1> QED BY <1>5, <1>6, <1>7, <1>9, <1>10 DEF Sound, Whole, Joins, n, m1

\* An edge of a polygon is known by the vertex that it begins at.
LEMMA SameFrom ==
  ASSUME NEW m, Proper(m), NEW e \in EndsOf(m), NEW x \in EndsOf(m), x[1] = e[1],
         From(m, x) = From(m, e)
  PROVE  x = e
<1>1. Surface(m) /\ ~HasDegeneratePolys(m) /\ e \in Ends /\ x \in Ends
  BY EndsOfAre DEF Proper, Sound, Whole
<1>2. x \in {e, Turn(e, 1), Turn(e, 2)}
  BY <1>1, TurnsAre
<1> QED BY <1>1, <1>2, ThreeCorners DEF From

\* The polygons of a flat edge: ab and ba are linked, and the corners opposite to
\* them are the same vertex.
Flat(m, ab) == m.link[ab] # NoEdge /\ Opposite(m, m.link[ab]) = Opposite(m, ab)

\* The four sides of two polygons that lie on each other are two pairs.
LEMMA FlatHas ==
  ASSUME NEW m, Proper(m), NEW ab \in EndsOf(m), Flat(m, ab)
  PROVE  LET ba == m.link[ab]
         IN  /\ ba \in EndsOf(m) /\ ba[1] # ab[1]
             /\ {Turn(ab, 1), Turn(ab, 2), Turn(ba, 1), Turn(ba, 2)} \subseteq EndsOf(m)
             /\ From(m, Turn(ab, 1)) = To(m, Turn(ba, 2))
             /\ To(m, Turn(ab, 1)) = From(m, Turn(ba, 2))
             /\ From(m, Turn(ab, 2)) = To(m, Turn(ba, 1))
             /\ To(m, Turn(ab, 2)) = From(m, Turn(ba, 1))
<1> DEFINE ba == m.link[ab]
<1>1. /\ Surface(m) /\ Mutual(m) /\ JoinedBy(m, Froms(m), Tos(m)) /\ ~HasDegeneratePolys(m)
      /\ ab \in Ends
  BY SoundJoins, EndsOfAre DEF Proper
<1>2. ba \in EndsOf(m) /\ ba \in Ends /\ m.link[ba] = ab /\ ba # NoEdge /\ m.link[ba] # NoEdge
      /\ Opposite(m, ba) = Opposite(m, ab) /\ ba # ab
  BY <1>1, EndsOfAre, NoneAssumption DEF Mutual, Flat
<1>3. From(m, ba) = To(m, ab) /\ From(m, ab) = To(m, ba)
  BY <1>1, <1>2 DEF JoinedBy, Froms, Tos
<1> HIDE DEF ba
<1>4. \A e \in EndsOf(m) : /\ From(m, e) = Vert(m, e) /\ To(m, e) = Vert(m, Turn(e, 1))
                           /\ Opposite(m, e) = Vert(m, Turn(e, 2))
                           /\ Turn(e, 1) \in EndsOf(m) /\ Turn(e, 2) \in EndsOf(m)
  BY <1>1, SurfaceHas
<1>5. \A e \in EndsOf(m) : /\ From(m, Turn(e, 1)) = Vert(m, Turn(e, 1))
                           /\ To(m, Turn(e, 1)) = Vert(m, Turn(e, 2))
                           /\ From(m, Turn(e, 2)) = Vert(m, Turn(e, 2))
                           /\ To(m, Turn(e, 2)) = Vert(m, e)
  BY EndsOfAre, TurnsAre DEF From, To
<1>6. ba[1] # ab[1]
  <2> SUFFICES ASSUME ba[1] = ab[1] PROVE FALSE
    OBVIOUS
  <2>1. ba \in {Turn(ab, 1), Turn(ab, 2)}
    BY <1>1, <1>2, TurnsAre
  <2>2. Turn(Turn(ab, 1), 2) = ab /\ Turn(Turn(ab, 2), 2) = Turn(ab, 1)
    BY <1>1, TurnsAre
  <2> QED BY <1>1, <1>2, <1>4, <1>5, <1>3, <2>1, <2>2, ThreeCorners
<1>7. /\ From(m, Turn(ab, 1)) = To(m, Turn(ba, 2)) /\ To(m, Turn(ab, 1)) = From(m, Turn(ba, 2))
      /\ From(m, Turn(ab, 2)) = To(m, Turn(ba, 1)) /\ To(m, Turn(ab, 2)) = From(m, Turn(ba, 1))
  BY <1>2, <1>3, <1>4, <1>5
<1> QED BY <1>2, <1>4, <1>6, <1>7 DEF ba

\* What a mesh with other links has of a proper mesh.
LEMMA ProperKept ==
  ASSUME NEW m, Proper(m), NEW n, Sound(n), Others(n, m)
  PROVE  /\ Proper(n) /\ EndsOf(n) = EndsOf(m) /\ PolysOf(n) = PolysOf(m)
         /\ \A e : From(n, e) = From(m, e) /\ To(n, e) = To(m, e)
BY DEF Proper, Others, HasDegeneratePolys, EndsOf, PolysOf, From, To, Vert

\* The side e of one polygon and the side f of another one, between the same
\* vertices: e is linked to the other polygon only as f.
LEMMA SideIs ==
  ASSUME NEW m, Proper(m), NEW e \in EndsOf(m), NEW f \in EndsOf(m), m.link[e] # NoEdge,
         To(m, e) = From(m, f)
  PROVE  m.link[e][1] = f[1] <=> m.link[e] = f
<1>1. m.link[e] \in EndsOf(m) /\ From(m, m.link[e]) = To(m, e)
  BY SoundJoins, EndsOfAre DEF Proper, Mutual, JoinedBy, Froms, Tos
<1> QED BY <1>1, SameFrom

\* n is m without the two polygons of ab.
FlatWithout(n, m, ab) ==
  /\ \A x \in Ends : x \in EndsOf(n) <=> x \in EndsOf(m) /\ x[1] \notin {ab[1], m.link[ab][1]}
  /\ \A x \in EndsOf(n) : Vert(n, x) = Vert(m, x)

\* Taking two polygons out that lie on each other opens no hole.
LEMMA FlattenedSealed ==
  ASSUME NEW m, Sealed(m), NEW ab \in EndsOf(m), Flat(m, ab)
  PROVE  Sealed(Flattened(m, ab)) /\ FlatWithout(Flattened(m, ab), m, ab)
<1> DEFINE ba == m.link[ab]
           p == ab[1]
           q == ba[1]
           a1 == Turn(ab, 1)
           a2 == Turn(ab, 2)
           b1 == Turn(ba, 1)
           b2 == Turn(ba, 2)
           skip1 == m.link[a1][1] = q
           m1 == Join(m, a1, b2, skip1)
           skip2 == m1.link[b1][1] = p
           m2 == Join(m1, a2, b1, skip2)
           n == WithoutPoly(WithoutPoly(m2, p, FALSE, TRUE), q, FALSE, TRUE)
<1>1. Flattened(m, ab) = n
  BY DEF Flattened
<1>2. Proper(m) /\ Sound(m) /\ Mutual(m) /\ \A e \in EndsOf(m) : e \in Ends /\ m.link[e] # NoEdge
  BY EndsOfAre, SoundJoins DEF Sealed, Proper, Open
<1>3. /\ ba \in EndsOf(m) /\ p # q
      /\ a1 \in EndsOf(m) /\ a2 \in EndsOf(m) /\ b1 \in EndsOf(m) /\ b2 \in EndsOf(m)
      /\ From(m, a1) = To(m, b2) /\ To(m, a1) = From(m, b2)
      /\ From(m, a2) = To(m, b1) /\ To(m, a2) = From(m, b1)
  BY <1>2, FlatHas
<1>4. m.link[ba] = ab
  BY <1>2 DEF Mutual
<1>5. /\ ab \in Ends /\ ba \in Ends
      /\ \A x \in Ends : x[1] = p <=> x \in {ab, a1, a2}
      /\ \A x \in Ends : x[1] = q <=> x \in {ba, b1, b2}
      /\ a1 # ab /\ a2 # ab /\ a1 # a2 /\ b1 # ba /\ b2 # ba /\ b1 # b2
      /\ {a1, a2, b1, b2} \subseteq Ends
      /\ a1[1] = p /\ a2[1] = p /\ b1[1] = q /\ b2[1] = q
  BY <1>2, <1>3, TurnsAre
<1>6. p \in PolysOf(m) /\ q \in PolysOf(m)
  BY <1>3 DEF EndsOf
<1>7. m.link[ab] = ba
  OBVIOUS
<1> HIDE DEF a1, a2, b1, b2, ba, p, q
<1>8. skip1 \in BOOLEAN /\ (skip1 <=> m.link[a1] = b2)
  BY <1>2, <1>3, <1>5, SideIs
<1> HIDE DEF skip1
<1>9. Joined(m1, m, a1, b2)
  BY <1>2, <1>3, <1>5, <1>8, JoinKeeps
<1> HIDE DEF m1
<1>10. /\ Sound(m1) /\ Others(m1, m)
       /\ m1.link[a1] \in {NoEdge, b2} /\ m1.link[b2] \in {NoEdge, a1}
       /\ \A x \in Ends \ {a1, b2} : m.link[x] # NoEdge => m1.link[x] # NoEdge
       /\ \A x \in Ends : x \notin {a1, b2} /\ m.link[x] \notin {a1, b2} => m1.link[x] = m.link[x]
  BY <1>9 DEF Joined
<1>11. /\ Proper(m1) /\ EndsOf(m1) = EndsOf(m) /\ PolysOf(m1) = PolysOf(m)
       /\ \A e : From(m1, e) = From(m, e) /\ To(m1, e) = To(m, e)
  BY <1>2, <1>10, ProperKept
<1>12. m1.link[a2] # NoEdge /\ m1.link[b1] # NoEdge
  BY <1>2, <1>3, <1>5, <1>10
<1>13. skip2 \in BOOLEAN /\ (skip2 <=> m1.link[a2] = b1)
  <2>1. skip2 <=> m1.link[b1] = a2
    BY <1>3, <1>5, <1>11, <1>12, SideIs
  <2>2. Mutual(m1)
    BY <1>10, SoundJoins
  <2>3. m1.link[b1] = a2 <=> m1.link[a2] = b1
    BY <1>5, <1>12, <2>2 DEF Mutual
  <2> QED BY <2>1, <2>3
<1> HIDE DEF skip2
<1>14. Joined(m2, m1, a2, b1)
  BY <1>3, <1>5, <1>10, <1>11, <1>12, <1>13, JoinKeeps
<1> HIDE DEF m2
<1>15. /\ Sound(m2) /\ Others(m2, m1)
       /\ m2.link[a2] \in {NoEdge, b1} /\ m2.link[b1] \in {NoEdge, a2}
       /\ \A x \in Ends \ {a2, b1} : m1.link[x] # NoEdge => m2.link[x] # NoEdge
       /\ \A x \in Ends : x \notin {a2, b1} /\ m1.link[x] \notin {a2, b1} => m2.link[x] = m1.link[x]
  BY <1>14 DEF Joined
<1>16. /\ Proper(m2) /\ EndsOf(m2) = EndsOf(m) /\ PolysOf(m2) = PolysOf(m)
  BY <1>11, <1>15, ProperKept
<1>17. /\ m2.link[a1] \in {NoEdge, b2} /\ m2.link[b2] \in {NoEdge, a1}
       /\ m2.link[ab] = ba /\ m2.link[ba] = ab
  <2>1. /\ a1 \notin {a2, b1, ab, ba} /\ b2 \notin {a2, b1, ab, ba}
        /\ ab \notin {a2, b1} /\ ba \notin {a2, b1}
        /\ NoEdge \notin {a1, a2, b1, b2}
    BY <1>3, <1>5, NoneAssumption
  <2>2. m1.link[ab] = ba /\ m1.link[ba] = ab
    BY <1>4, <1>5, <1>7, <1>10, <2>1
  <2> QED BY <1>5, <1>10, <1>15, <2>1, <2>2
<1>18. \A x \in Ends : x[1] \in {p, q} /\ m2.link[x] # NoEdge => m2.link[x][1] \in {p, q}
  BY <1>5, <1>15, <1>17
<1>19. \A x \in EndsOf(m) : x[1] \notin {p, q} => m2.link[x] # NoEdge
  BY <1>2, <1>5, <1>10, <1>15
<1>20. /\ Sound(n)
       /\ \A x \in Ends : x \in EndsOf(n) <=> x \in EndsOf(m2) /\ x[1] \notin {p, q}
       /\ \A x \in Ends : x[1] \notin {p, q} =>
            n.link[x] = m2.link[x] /\ Vert(n, x) = Vert(m2, x)
  BY <1>3, <1>6, <1>15, <1>16, <1>18, TwoErased
<1> HIDE DEF n
<1>21. Open(n) = {}
  BY <1>16, <1>19, <1>20, EndsOfAre DEF Open
<1>22. ~HasDegeneratePolys(n)
  <2>1. ASSUME NEW x \in EndsOf(n) PROVE From(n, x) # To(n, x)
    <3>1. x \in Ends /\ x \in EndsOf(m2) /\ x[1] \notin {p, q} /\ Turn(x, 1) \in Ends
          /\ Turn(x, 1)[1] = x[1]
      BY <1>20, EndsOfAre, TurnsAre
    <3> QED BY <1>16, <1>20, <3>1 DEF Proper, HasDegeneratePolys, From, To
  <2> QED BY <2>1 DEF HasDegeneratePolys
<1>23. FlatWithout(n, m, ab)
  <2>1. EndsOf(m2) = EndsOf(m) /\ \A x : Vert(m2, x) = Vert(m, x)
    BY <1>10, <1>15, <1>16 DEF Others, Vert
  <2>2. \A x \in EndsOf(n) : x \in Ends
    BY EndsOfAre
  <2> QED BY <1>20, <2>1, <2>2 DEF FlatWithout, p, q, ba
<1> QED BY <1>1, <1>20, <1>21, <1>22, <1>23 DEF Sealed, Proper

----------------------------------------------------------------------------
(* cap_hole(): the walk *)

\* The edge that the walk comes to after x, around a vertex or along the hole.
Around(m, x) == IF m.link[Turn(x, 1)] # NoEdge THEN m.link[Turn(x, 1)] ELSE Turn(x, 1)

\* The walk around a hole comes to an edge from one edge only.
LEMMA AroundIs ==
  ASSUME NEW m, Whole(m), NEW x \in EndsOf(m), NEW y \in EndsOf(m)
  PROVE  /\ Around(m, x) \in EndsOf(m)
         /\ Around(m, x) = Around(m, y) => x = y
<1>1. /\ x \in Ends /\ y \in Ends /\ Turn(x, 1) \in EndsOf(m) /\ Turn(y, 1) \in EndsOf(m)
      /\ Turn(x, 1) \in Ends /\ Turn(y, 1) \in Ends
      /\ Turn(Turn(x, 1), 2) = x /\ Turn(Turn(y, 1), 2) = y
  BY EndsOfAre, TurnsAre
<1>2. Mutual(m)
  BY DEF Whole
<1> DEFINE e == Turn(x, 1)
           f == Turn(y, 1)
<1> HIDE DEF e, f
<1>3. Around(m, x) = (IF m.link[e] # NoEdge THEN m.link[e] ELSE e)
      /\ Around(m, y) = (IF m.link[f] # NoEdge THEN m.link[f] ELSE f)
  BY DEF Around, e, f
<1>4. e \in Ends /\ f \in Ends /\ e \in EndsOf(m) /\ f \in EndsOf(m)
  BY <1>1 DEF e, f
<1>5. e = f => x = y
  BY <1>1 DEF e, f
<1>6. \A z \in Ends : m.link[z] # NoEdge => m.link[z] \in EndsOf(m) /\ m.link[z] \in Ends
                                           /\ m.link[m.link[z]] = z
  BY <1>2, EndsOfAre DEF Mutual
<1>7. Around(m, x) \in EndsOf(m)
  BY <1>3, <1>4, <1>6
<1>8. Around(m, x) = Around(m, y) => e = f
  BY <1>3, <1>4, <1>6, NoneAssumption
<1> QED BY <1>5, <1>7, <1>8

\* V is where a walk from the edge first to the edge at has been: it has come to
\* each of them from another one.
Walked(m, first, at, V) ==
  /\ V \subseteq EndsOf(m) /\ first \in V /\ at \in V
  /\ \A x \in V \ {first} : \E y \in V \ {at} : x = Around(m, y)

\* The walk never comes to an edge again, the first one excepted.
LEMMA WalkGoesOn ==
  ASSUME NEW m, Whole(m), NEW first, NEW at, NEW V, Walked(m, first, at, V),
         NEW e, e = Around(m, at), e # first
  PROVE  e \notin V /\ Walked(m, first, e, V \cup {e})
<1>1. /\ V \subseteq EndsOf(m) /\ first \in V /\ at \in V
      /\ \A x \in V \ {first} : \E y \in V \ {at} : x = Around(m, y)
  BY DEF Walked
<1>2. e \in EndsOf(m)
  BY <1>1, AroundIs
<1>3. e \notin V
  <2> SUFFICES ASSUME e \in V PROVE FALSE
    OBVIOUS
  <2>1. PICK y \in V \ {at} : e = Around(m, y)
    BY <1>1
  <2>2. y = at
    BY <1>1, <2>1, AroundIs
  <2> QED BY <2>1, <2>2
<1>4. ASSUME NEW x \in (V \cup {e}) \ {first}
      PROVE  \E y \in (V \cup {e}) \ {e} : x = Around(m, y)
  <2>1. CASE x = e
    BY <1>1, <1>3, <2>1
  <2>2. CASE x # e
    <3>1. PICK y \in V \ {at} : x = Around(m, y)
      BY <1>1, <2>2
    <3> QED BY <1>3, <3>1
  <2> QED BY <2>1, <2>2
<1> QED BY <1>1, <1>2, <1>3, <1>4 DEF Walked

\* The task of cap_hole().
IsCap(t) ==
  t = [name |-> t.name, first |-> t.first, at |-> t.at, perimeter |-> t.perimeter,
       open |-> t.open, all |-> t.all]

\* The edge of the perimeter before the k-th one.
Before(t, k) == IF k = 1 THEN t.first ELSE t.perimeter[k - 1]

Distinct(s) == \A j, k \in 1 .. Len(s) : s[j] = s[k] => j = k

Walking(m, t) ==
  /\ t.first \in Open(m)
  /\ t.perimeter \in Seq(Ends) /\ Distinct(t.perimeter)
  /\ \A k \in 1 .. Len(t.perimeter) : /\ t.perimeter[k] \in Open(m)
                                      /\ From(m, t.perimeter[k]) = To(m, Before(t, k))
  /\ To(m, t.at) = To(m, Before(t, Len(t.perimeter) + 1))
  /\ \E V : /\ Walked(m, t.first, t.at, V)
            /\ \A k \in 1 .. Len(t.perimeter) : t.perimeter[k] \in V \ {t.first}

\* The open edges around a hole, each one beginning where the one before it ends.
Ring(m, s) ==
  /\ s \in Seq(Ends) /\ Distinct(s)
  /\ \A k \in 1 .. Len(s) :
       /\ s[k] \in Open(m)
       /\ From(m, s[k]) = To(m, s[IF k = 1 THEN Len(s) ELSE k - 1])

\* There are handles for the polygons over all holes.
HasRoom(m) == Cardinality(Open(m)) - 2 <= Cardinality(NewPolys(m))

\* Only edges around the hole are open that were not when the walk began, and the
\* edge that it began with is around the hole.
OpenAround(m, t) ==
  \A x \in Open(m) : \/ x \in t.open \ {t.first}
                     \/ \E k \in 1 .. Len(t.perimeter) : t.perimeter[k] = x

Capping(m, t) ==
  /\ IsCap(t) /\ HasRoom(m)
  /\ \/ t.name = "walk" /\ Walking(m, t) /\ Open(m) \subseteq t.open
     \/ t.name = "fill" /\ Ring(m, t.perimeter) /\ OpenAround(m, t)

\* The walk begins with what it relies on.
LEMMA WalkBegins ==
  ASSUME NEW m, HasRoom(m), NEW e \in Open(m),
         NEW t, IsCap(t), t.name = "walk", t.first = e, t.at = e, t.perimeter = <<>>,
         t.open = Open(m)
  PROVE  Capping(m, t)
<1>1. t.perimeter \in Seq(Ends) /\ Len(t.perimeter) = 0 /\ Distinct(t.perimeter)
  BY DEF Distinct
<1>2. Walked(m, t.first, t.at, {e})
  BY DEF Walked, Open
<1>3. Walking(m, t)
  BY <1>1, <1>2 DEF Walking, Before
<1> QED BY <1>3 DEF Capping

\* It keeps that when it goes around a vertex.
LEMMA WalkAroundCaps ==
  ASSUME NEW m, Sound(m), NEW t, Capping(m, t), t.name = "walk",
         NEW e, e = m.link[Turn(t.at, 1)], e # NoEdge
  PROVE  Capping(m, [t EXCEPT !.at = e])
<1> DEFINE u == [t EXCEPT !.at = e]
<1>1. /\ IsCap(u) /\ u.name = "walk" /\ u.first = t.first /\ u.at = e
      /\ u.perimeter = t.perimeter /\ u.open = t.open
  BY DEF Capping, IsCap
<1> HIDE DEF u
<1>2. Whole(m) /\ Mutual(m) /\ JoinedBy(m, Froms(m), Tos(m)) /\ Walking(m, t) /\ HasRoom(m)
      /\ Open(m) \subseteq t.open
  BY SoundJoins DEF Capping
<1>3. PICK V : /\ Walked(m, t.first, t.at, V)
               /\ \A k \in 1 .. Len(t.perimeter) : t.perimeter[k] \in V \ {t.first}
  BY <1>2 DEF Walking
<1>4. t.at \in EndsOf(m) /\ t.at \in Ends /\ Turn(t.at, 1) \in Ends
  BY <1>3, EndsOfAre, TurnsAre DEF Walked
<1>5. e = Around(m, t.at)
  BY DEF Around
<1>6. e \in Ends /\ m.link[e] = Turn(t.at, 1) /\ m.link[e] # NoEdge
  BY <1>2, <1>4, EndsOfAre, NoneAssumption DEF Mutual
<1>7. e # t.first
  BY <1>2, <1>6 DEF Walking, Open
<1>8. To(m, e) = To(m, t.at)
  <2>1. From(m, m.link[e]) = To(m, e)
    BY <1>2, <1>4, <1>6 DEF JoinedBy, Froms, Tos
  <2> QED BY <1>6, <2>1 DEF From, To
<1>9. Walked(m, u.first, u.at, V \cup {e})
  BY <1>1, <1>2, <1>3, <1>5, <1>7, WalkGoesOn
<1>10. \A k : Before(u, k) = Before(t, k)
  BY <1>1 DEF Before
<1>11. Walking(m, u)
  BY <1>1, <1>2, <1>3, <1>8, <1>9, <1>10 DEF Walking
<1> QED BY <1>1, <1>2, <1>11 DEF Capping, u

\* It keeps that when it goes along the hole, until it is back.
LEMMA WalkAlongCaps ==
  ASSUME NEW m, Sound(m), NEW t, Capping(m, t), t.name = "walk",
         NEW e, e = Turn(t.at, 1), m.link[e] = NoEdge,
         NEW u, IsCap(u), u.first = t.first, u.at = e, u.perimeter = Append(t.perimeter, e),
         u.open = t.open, u.name = IF e = t.first THEN "fill" ELSE "walk"
  PROVE  Capping(m, u)
<1> DEFINE s == t.perimeter
           r == u.perimeter
           n == Len(s)
<1>1. Whole(m) /\ Walking(m, t) /\ HasRoom(m) /\ Open(m) \subseteq t.open
  BY DEF Capping, Sound
<1>2. PICK V : /\ Walked(m, t.first, t.at, V)
               /\ \A k \in 1 .. n : s[k] \in V \ {t.first}
  BY <1>1 DEF Walking
<1>3. /\ t.first \in Open(m) /\ s \in Seq(Ends) /\ Distinct(s) /\ n \in Nat
      /\ \A k \in 1 .. n : s[k] \in Open(m) /\ From(m, s[k]) = To(m, Before(t, k))
      /\ To(m, t.at) = To(m, Before(t, n + 1))
  BY <1>1, LenProperties DEF Walking
<1>4. /\ e \in EndsOf(m) /\ e \in Ends /\ e \in Open(m)
      /\ e = Around(m, t.at) /\ From(m, e) = To(m, t.at)
  BY <1>2, EndsOfAre DEF Walked, Open, Around, From, To
<1>5. /\ r \in Seq(Ends) /\ Len(r) = n + 1 /\ r[n + 1] = e
      /\ \A k \in 1 .. n : r[k] = s[k]
  BY <1>3, <1>4, AppendProperties
<1>6. e \notin V \ {t.first}
  BY <1>1, <1>2, <1>4, WalkGoesOn
<1> HIDE DEF s, r, n
<1>7. Distinct(r)
  <2>1. ASSUME NEW j \in 1 .. n + 1, NEW k \in 1 .. n + 1, r[j] = r[k] PROVE j = k
    <3>1. (j = n + 1 \/ j \in 1 .. n) /\ (k = n + 1 \/ k \in 1 .. n)
      BY <1>3
    <3>2. \A i \in 1 .. n : s[i] # e
      BY <1>2, <1>6
    <3>3. n = Len(s)
      BY DEF n
    <3> QED BY <1>3, <1>5, <2>1, <3>1, <3>2, <3>3 DEF Distinct
  <2> QED BY <1>5, <2>1 DEF Distinct
<1>8. \A k \in 1 .. n + 1 : r[k] \in Open(m) /\ From(m, r[k]) = To(m, Before(t, k))
  <2> TAKE k \in 1 .. n + 1
  <2>1. CASE k = n + 1
    BY <1>3, <1>4, <1>5, <2>1
  <2>2. CASE k \in 1 .. n
    BY <1>3, <1>5, <2>2
  <2> QED BY <1>3, <2>1, <2>2
<1>9. \A k \in 1 .. n + 1 : Before(t, k) = IF k = 1 THEN t.first ELSE r[k - 1]
  <2> TAKE k \in 1 .. n + 1
  <2>1. k # 1 => k - 1 \in 1 .. n
    BY <1>3
  <2> QED BY <1>5, <2>1 DEF Before, s
<1>10. CASE e = t.first
  <2>1. Ring(m, r)
    BY <1>3, <1>5, <1>7, <1>8, <1>9, <1>10 DEF Ring
  <2>2. u.name = "fill"
    BY <1>10
  <2>3. OpenAround(m, u)
    <3>1. n + 1 \in 1 .. n + 1
      BY <1>3
    <3> QED BY <1>1, <1>5, <1>10, <3>1 DEF OpenAround, r
  <2> QED BY <1>1, <2>1, <2>2, <2>3 DEF Capping, r
<1>11. CASE e # t.first
  <2>1. e \notin V /\ Walked(m, t.first, e, V \cup {e})
    BY <1>1, <1>2, <1>4, <1>11, WalkGoesOn
  <2>2. \A k \in 1 .. n + 1 : Before(u, k) = Before(t, k)
    BY <1>9 DEF Before, r
  <2>3. To(m, u.at) = To(m, Before(u, (n + 1) + 1))
    <3>1. (n + 1) + 1 # 1 /\ ((n + 1) + 1) - 1 = n + 1
      BY <1>3
    <3>2. Before(u, (n + 1) + 1) = r[n + 1]
      BY <3>1 DEF Before, r
    <3> QED BY <1>5, <3>2
  <2>4. \A k \in 1 .. n + 1 : r[k] \in (V \cup {e}) \ {t.first}
    <3> TAKE k \in 1 .. n + 1
    <3>1. CASE k = n + 1
      BY <1>5, <1>11, <3>1
    <3>2. CASE k \in 1 .. n
      BY <1>2, <1>5, <3>2
    <3> QED BY <1>3, <3>1, <3>2
  <2>5. Walking(m, u)
    BY <1>3, <1>5, <1>7, <1>8, <2>1, <2>2, <2>3, <2>4 DEF Walking, r
  <2>6. u.name = "walk"
    BY <1>11
  <2> QED BY <1>1, <2>5, <2>6 DEF Capping
<1> QED BY <1>10, <1>11

----------------------------------------------------------------------------
(* cap_hole(): the polygons *)

\* A polygon p over two open edges, the second of which begins where the first ends.
Filled(n, m, p, curr, next) ==
  /\ Sound(n)
  /\ PolysOf(n) = PolysOf(m) \cup {p}
  /\ Open(n) = (Open(m) \ {curr, next}) \cup {<<p, 0>>}
  /\ <<p, 0>> \notin EndsOf(m) /\ <<p, 0>> \in Ends
  /\ \A x \in EndsOf(m) : From(n, x) = From(m, x) /\ To(n, x) = To(m, x)
  /\ From(n, <<p, 0>>) = From(m, curr) /\ To(n, <<p, 0>>) = To(m, next)

\* The new polygon is linked to both edges.
LEMMA FillSound ==
  ASSUME NEW m, Sound(m), NEW p \in NewPolys(m), NEW curr \in Open(m), NEW next \in Open(m),
         curr # next, To(m, curr) = From(m, next)
  PROVE  LET m1 == WithPoly(m, p, <<From(m, curr), To(m, next), To(m, curr)>>)
         IN  Filled(Require(Link(Link(m1, curr, <<p, 2>>), next, <<p, 1>>),
                            To(m, curr) = From(m, next)), m, p, curr, next)
<1> DEFINE t == <<From(m, curr), To(m, next), To(m, curr)>>
           m1 == WithPoly(m, p, t)
           m2 == Link(m1, curr, <<p, 2>>)
           m3 == Link(m2, next, <<p, 1>>)
           x == To(m, curr) = From(m, next)
           n == Require(m3, x)
           from == Froms(m1)
           to == Tos(m1)
<1>1. Whole(m) /\ Surface(m) /\ Mutual(m)
  BY SoundJoins
<1>2. /\ curr \in EndsOf(m) /\ next \in EndsOf(m) /\ curr \in Ends /\ next \in Ends
      /\ m.link[curr] = NoEdge /\ m.link[next] = NoEdge
  BY EndsOfAre DEF Open
<1>3. t[1] \in m.verts /\ t[2] \in m.verts /\ t[3] \in m.verts
  BY <1>1, <1>2, SurfaceHas
<1>4. t[1] = From(m, curr) /\ t[2] = To(m, next) /\ t[3] = To(m, curr)
  OBVIOUS
<1> HIDE DEF t
<1>5. NewIs(m, p)
  BY <1>1, NewHas
<1> DEFINE p0 == <<p, 0>>
           p1 == <<p, 1>>
           p2 == <<p, 2>>
<1>6. /\ p \in Polys /\ p \notin PolysOf(m) /\ {p0, p1, p2} \subseteq Ends
      /\ p0 # p1 /\ p0 # p2 /\ p1 # p2
      /\ Turn(p0, 1) = p1 /\ Turn(p1, 1) = p2 /\ Turn(p2, 1) = p0
      /\ \A y \in EndsOf(m) : y \in Ends /\ y[1] # p /\ y \notin {p0, p1, p2}
      /\ p0[1] = p /\ p1[1] = p /\ p2[1] = p
      /\ m.link[p0] = NoEdge /\ m.link[p1] = NoEdge /\ m.link[p2] = NoEdge
  BY <1>5 DEF NewIs
<1>7. Sound(m1)
  BY <1>3, WithPolySound
<1>8. Added(m1, m, p, t)
  BY <1>1, <1>3, WithPolyKeeps
<1> HIDE DEF m1
<1>9. /\ m1.link = m.link
      /\ PolysOf(m1) = PolysOf(m) \cup {p}
      /\ \A y \in Ends : y \in EndsOf(m1) <=> y \in EndsOf(m) \/ y[1] = p
      /\ \A y \in Ends : y[1] # p => Vert(m1, y) = Vert(m, y)
      /\ Vert(m1, p0) = t[1] /\ Vert(m1, p1) = t[2] /\ Vert(m1, p2) = t[3]
  BY <1>8 DEF Added
<1>10. \A y \in EndsOf(m) : From(m1, y) = From(m, y) /\ To(m1, y) = To(m, y)
  <2> TAKE y \in EndsOf(m)
  <2>1. y \in Ends /\ y[1] # p /\ Turn(y, 1) \in Ends /\ Turn(y, 1)[1] = y[1]
    BY <1>6, TurnsAre
  <2> QED BY <1>9, <2>1 DEF From, To
<1>11. /\ From(m1, p0) = From(m, curr) /\ To(m1, p0) = To(m, next)
       /\ from[p1] = To(m, next) /\ to[p1] = To(m, curr)
       /\ from[p2] = To(m, curr) /\ to[p2] = From(m, curr)
       /\ from[curr] = From(m, curr) /\ to[curr] = To(m, curr)
       /\ from[next] = From(m, next) /\ to[next] = To(m, next)
  BY <1>2, <1>4, <1>6, <1>9, <1>10 DEF From, To, Froms, Tos
<1>12. Whole(m1) /\ JoinedBy(m1, from, to)
  BY <1>7, SoundJoins
<1> HIDE DEF p0, p1, p2
<1>13. /\ Whole(m2) /\ Others(m2, m1)
       /\ m2.link[curr] = p2 /\ m2.link[p2] = curr
       /\ \A y \in Ends \ {curr, p2} : m2.link[y] = m1.link[y]
       /\ JoinedBy(m2, from, to)
  <2>1. /\ curr \in EndsOf(m1) /\ p2 \in EndsOf(m1) /\ curr # p2
        /\ m1.link[curr] = NoEdge /\ m1.link[p2] = NoEdge
        /\ from[p2] = to[curr] /\ from[curr] = to[p2]
    BY <1>2, <1>6, <1>9, <1>11
  <2> HIDE DEF from, to
  <2>2. Whole(Link(m1, curr, p2)) /\ JoinedBy(Link(m1, curr, p2), from, to)
    BY <1>12, <2>1, LinkKeeps, LinkJoins
  <2>3. /\ Others(Link(m1, curr, p2), m1)
        /\ Link(m1, curr, p2).link[curr] = p2 /\ Link(m1, curr, p2).link[p2] = curr
        /\ \A y \in Ends \ {curr, p2} : Link(m1, curr, p2).link[y] = m1.link[y]
    BY <1>12, <2>1, LinkKeeps
  <2> QED BY <2>2, <2>3 DEF p2
<1> HIDE DEF m2
<1>14. /\ Whole(m3) /\ Others(m3, m2)
       /\ m3.link[next] = p1 /\ m3.link[p1] = next
       /\ \A y \in Ends \ {next, p1} : m3.link[y] = m2.link[y]
       /\ JoinedBy(m3, from, to)
  <2>1. EndsOf(m2) = EndsOf(m1)
    BY <1>13 DEF Others, EndsOf, PolysOf
  <2>2. /\ next \in EndsOf(m2) /\ p1 \in EndsOf(m2) /\ next # p1
        /\ m2.link[next] = NoEdge /\ m2.link[p1] = NoEdge
        /\ from[p1] = to[next] /\ from[next] = to[p1]
    BY <1>2, <1>6, <1>9, <1>11, <1>13, <2>1
  <2> HIDE DEF from, to
  <2>3. Whole(Link(m2, next, p1)) /\ JoinedBy(Link(m2, next, p1), from, to)
    BY <1>13, <2>2, LinkKeeps, LinkJoins
  <2>4. /\ Others(Link(m2, next, p1), m2)
        /\ Link(m2, next, p1).link[next] = p1 /\ Link(m2, next, p1).link[p1] = next
        /\ \A y \in Ends \ {next, p1} : Link(m2, next, p1).link[y] = m2.link[y]
    BY <1>13, <2>2, LinkKeeps
  <2> QED BY <2>3, <2>4 DEF p1
<1> HIDE DEF m3
<1>15. Sound(m3) /\ Others(m3, m1)
  <2>1. Others(m3, m1)
    BY <1>13, <1>14 DEF Others
  <2>2. Froms(m3) = Froms(m1) /\ Tos(m3) = Tos(m1)
    BY <2>1 DEF Others, Froms, Tos, From, To, Vert
  <2> QED BY <1>14, <2>1, <2>2 DEF Sound, Joins
<1>16. x \in BOOLEAN /\ x
  OBVIOUS
<1> HIDE DEF x
<1>17. Sound(n) /\ Others(n, m3) /\ n.link = m3.link
  BY <1>15, <1>16, RequireHolds
<1> HIDE DEF n
<1>18. /\ PolysOf(n) = PolysOf(m1) /\ EndsOf(n) = EndsOf(m1)
       /\ \A y : From(n, y) = From(m1, y) /\ To(n, y) = To(m1, y)
  BY <1>15, <1>17 DEF Others, PolysOf, EndsOf, From, To, Vert
<1>19. Open(n) = (Open(m) \ {curr, next}) \cup {p0}
  <2>1. \A y \in Ends : n.link[y] = NoEdge <=> y \notin {curr, next, p1, p2} /\ m.link[y] = NoEdge
    <3>1. \A y \in {curr, next, p1, p2} : n.link[y] # NoEdge
      BY <1>2, <1>6, <1>13, <1>14, <1>17, NoneAssumption
    <3>2. \A y \in Ends \ {curr, next, p1, p2} : n.link[y] = m.link[y]
      BY <1>9, <1>13, <1>14, <1>17
    <3> QED BY <3>1, <3>2
  <2>2. \A y \in Ends : y[1] = p <=> y \in {p0, p1, p2}
    BY <1>6, TurnsAre, EdgesAre DEF p0, p1, p2
  <2>3. \A y \in Ends : y \in EndsOf(n) <=> y \in EndsOf(m) \/ y \in {p0, p1, p2}
    BY <1>9, <1>18, <2>2
  <2>4. \A y \in Ends : y \in Open(n) <=> y \in (Open(m) \ {curr, next}) \cup {p0}
    BY <1>6, <2>1, <2>3 DEF Open
  <2> QED BY <1>6, <2>4, EndsOfAre DEF Open
<1>20. Filled(n, m, p, curr, next)
  BY <1>6, <1>9, <1>10, <1>11, <1>17, <1>18, <1>19 DEF Filled, p0
<1> QED BY <1>20 DEF n, m3, m2, m1, t, x, p1, p2

\* The open edges and the free handles can be counted.
LEMMA OpenFinite ==
  ASSUME NEW m
  PROVE  /\ IsFiniteSet(Open(m)) /\ Cardinality(Open(m)) \in Nat
         /\ IsFiniteSet(NewPolys(m)) /\ Cardinality(NewPolys(m)) \in Nat
<1>1. Open(m) \in SUBSET Ends
  BY EndsOfAre DEF Open
<1>2. IsFiniteSet(Polys)
  BY BoundsAssumption, FS_Interval DEF Polys
<1> QED BY <1>1, <1>2, EndsFinite, FS_Subset, FS_CardinalityType DEF NewPolys

\* A new polygon takes a handle, and there is one open edge less.
LEMMA FillHasRoom ==
  ASSUME NEW m, HasRoom(m), NEW p \in NewPolys(m), NEW curr \in Open(m), NEW next \in Open(m),
         curr # next, NEW n, Filled(n, m, p, curr, next)
  PROVE  HasRoom(n)
<1> DEFINE a == Cardinality(Open(m))
           b == Cardinality(NewPolys(m))
<1>1. /\ IsFiniteSet(Open(m)) /\ a \in Nat /\ IsFiniteSet(NewPolys(m)) /\ b \in Nat
  BY OpenFinite
<1>2. NewPolys(n) = NewPolys(m) \ {p}
  BY DEF Filled, NewPolys
<1>3. Cardinality(NewPolys(n)) = b - 1
  <2>1. Cardinality(NewPolys(m) \ {p}) = b - 1
    BY <1>1, FS_RemoveElement
  <2> QED BY <1>2, <2>1
<1> DEFINE s == Open(m) \ {curr}
           t == s \ {next}
<1>4. IsFiniteSet(s) /\ Cardinality(s) = a - 1
  BY <1>1, FS_RemoveElement
<1>5. IsFiniteSet(t) /\ Cardinality(t) = (a - 1) - 1
  <2>1. next \in s
    OBVIOUS
  <2> HIDE DEF s
  <2>2. IsFiniteSet(s \ {next}) /\ Cardinality(s \ {next}) = Cardinality(s) - 1
    BY <1>4, <2>1, FS_RemoveElement
  <2> QED BY <1>4, <2>2
<1>6. Open(n) = t \cup {<<p, 0>>} /\ <<p, 0>> \notin t
  BY DEF Filled, Open
<1>7. Cardinality(t \cup {<<p, 0>>}) = Cardinality(t) + 1
  <2> HIDE DEF t
  <2> QED BY <1>5, <1>6, FS_AddElement
<1> HIDE DEF t, s
<1>8. Cardinality(Open(n)) = a - 1
  BY <1>1, <1>5, <1>6, <1>7
<1>9. a - 2 <= b
  BY DEF HasRoom
<1> HIDE DEF a, b
<1> QED BY <1>1, <1>3, <1>8, <1>9 DEF HasRoom

\* What is left of a sequence without its element at k, position by position.
LEMMA WithoutAt ==
  ASSUME NEW S, NEW s \in Seq(S), NEW k \in 1 .. Len(s)
  PROVE  /\ RemoveAt(s, k) \in Seq(S) /\ Len(RemoveAt(s, k)) = Len(s) - 1
         /\ \A i \in 1 .. Len(s) - 1 : RemoveAt(s, k)[i] = IF i < k THEN s[i] ELSE s[i + 1]
<1> DEFINE a == SubSeq(s, 1, k - 1)
           b == SubSeq(s, k + 1, Len(s))
           n == Len(s)
<1>1. n \in Nat /\ k \in Nat /\ \A i \in 1 .. n : s[i] \in S
  BY LenProperties
<1>2. /\ a \in Seq(S) /\ Len(a) = k - 1
      /\ \A i \in 1 .. k - 1 : a[i] = s[i]
  BY <1>1, SubSeqProperties
<1>3. /\ b \in Seq(S) /\ Len(b) = n - k
      /\ \A i \in 1 .. n - k : b[i] = s[k + i]
  BY <1>1, SubSeqProperties
<1> HIDE DEF a, b
<1>4. /\ a \o b \in Seq(S) /\ Len(a \o b) = n - 1
      /\ \A i \in 1 .. n - 1 : (a \o b)[i] = IF i <= k - 1 THEN a[i] ELSE b[i - (k - 1)]
  BY <1>1, <1>2, <1>3, ConcatProperties
<1>5. \A i \in 1 .. n - 1 : (a \o b)[i] = IF i < k THEN s[i] ELSE s[i + 1]
  <2> TAKE i \in 1 .. n - 1
  <2>1. CASE i < k
    BY <1>1, <1>2, <1>4, <2>1
  <2>2. CASE i >= k
    <3>1. i - (k - 1) \in 1 .. n - k /\ k + (i - (k - 1)) = i + 1 /\ ~(i <= k - 1)
      BY <1>1, <2>2
    <3> QED BY <1>3, <1>4, <2>2, <3>1
  <2>3. i \in Int /\ k \in Int
    BY <1>1
  <2>4. i < k \/ i >= k
    BY <2>3
  <2> QED BY <2>1, <2>2, <2>4
<1> QED BY <1>4, <1>5 DEF RemoveAt, a, b

\* What becomes of a ring s when it gets shorter: the edges that are open are around
\* the hole or were open before.
RingKept(n, m, s, r) ==
  /\ Ring(n, r)
  /\ \A y \in Open(n) : y \in Open(m) \/ \E k \in 1 .. Len(r) : r[k] = y
  /\ \A k \in 1 .. Len(s) : s[k] \in Open(n) => \E l \in 1 .. Len(r) : r[l] = s[k]

\* Two edges of the ring, one after the other, make way for one.
LEMMA FillRing ==
  ASSUME NEW m, NEW s, Ring(m, s), Len(s) >= 3, NEW i \in 1 .. Len(s),
         NEW j, j = IF i = Len(s) THEN 1 ELSE i + 1,
         NEW p, NEW n, Filled(n, m, p, s[i], s[j])
  PROVE  RingKept(n, m, s, RemoveAt([s EXCEPT ![i] = <<p, 0>>], j))
<1> DEFINE L == Len(s)
           x == <<p, 0>>
           t == [s EXCEPT ![i] = x]
           r == RemoveAt(t, j)
           At(k) == IF k < j THEN k ELSE k + 1
           Prev(k, l) == IF k = 1 THEN l ELSE k - 1
<1>1. /\ s \in Seq(Ends) /\ L \in Nat /\ L >= 3 /\ Distinct(s)
      /\ \A k \in 1 .. L : s[k] \in Open(m) /\ From(m, s[k]) = To(m, s[Prev(k, L)])
  BY LenProperties DEF Ring
<1>2. /\ Open(n) = (Open(m) \ {s[i], s[j]}) \cup {x}
      /\ x \notin EndsOf(m) /\ x \in Ends
      /\ \A y \in EndsOf(m) : From(n, y) = From(m, y) /\ To(n, y) = To(m, y)
      /\ From(n, x) = From(m, s[i]) /\ To(n, x) = To(m, s[j])
  BY DEF Filled
<1> HIDE DEF x, L
<1>3. i \in 1 .. L /\ j \in 1 .. L /\ i # j /\ j = IF i = L THEN 1 ELSE i + 1
  BY <1>1 DEF L
<1>4. t \in Seq(Ends) /\ Len(t) = L /\ \A k \in 1 .. L : t[k] = IF k = i THEN x ELSE s[k]
  <2>1. t \in Seq(Ends) /\ Len(t) = L
    BY <1>1, <1>2, ExceptSeq DEF L
  <2>2. s \in [1 .. L -> Ends]
    BY <1>1, LenProperties DEF L
  <2> QED BY <2>1, <2>2
<1> HIDE DEF t
<1>5. r \in Seq(Ends) /\ Len(r) = L - 1 /\ \A k \in 1 .. L - 1 : r[k] = t[At(k)]
  <2>1. j \in 1 .. Len(t)
    BY <1>3, <1>4
  <2>2. /\ r \in Seq(Ends) /\ Len(r) = L - 1
        /\ \A k \in 1 .. L - 1 : r[k] = IF k < j THEN t[k] ELSE t[k + 1]
    BY <1>4, <2>1, WithoutAt
  <2> QED BY <2>2
<1> HIDE DEF r
<1>6. \A k \in 1 .. L - 1 : At(k) \in 1 .. L /\ At(k) # j
  BY <1>1, <1>3
<1>7. \A k, l \in 1 .. L - 1 : At(k) = At(l) => k = l
  BY <1>1, <1>3
<1>8. \A k \in 1 .. L - 1 :
        /\ Prev(k, L - 1) \in 1 .. L - 1
        /\ At(Prev(k, L - 1)) = IF Prev(At(k), L) = j THEN i ELSE Prev(At(k), L)
  BY <1>1, <1>3
<1>9. Prev(j, L) = i /\ Prev(i, L) # j /\ \A k \in 1 .. L : Prev(k, L) \in 1 .. L
                                                 /\ (Prev(k, L) = i => k = j)
  BY <1>1, <1>3
<1> HIDE DEF At, Prev
<1>10. \A k \in 1 .. L : s[k] \in EndsOf(m) /\ s[k] # x
  BY <1>1, <1>2 DEF Open
<1>11. \A k, l \in 1 .. L : s[k] = s[l] => k = l
  BY <1>1 DEF Distinct, L
<1>12. Distinct(r)
  <2>1. ASSUME NEW k \in 1 .. L - 1, NEW l \in 1 .. L - 1, r[k] = r[l] PROVE k = l
    <3>1. t[At(k)] = t[At(l)] /\ At(k) \in 1 .. L /\ At(l) \in 1 .. L
      BY <1>5, <1>6, <2>1
    <3>2. At(k) = At(l)
      BY <1>4, <1>10, <1>11, <3>1
    <3> QED BY <1>7, <3>2
  <2> QED BY <1>5, <2>1 DEF Distinct
<1>13. ASSUME NEW k \in 1 .. L - 1
       PROVE  r[k] \in Open(n) /\ From(n, r[k]) = To(n, r[Prev(k, L - 1)])
  <2> DEFINE h == At(k)
             g == Prev(h, L)
  <2>1. h \in 1 .. L /\ h # j /\ r[k] = t[h] /\ g \in 1 .. L
    BY <1>5, <1>6, <1>9
  <2>2. r[Prev(k, L - 1)] = t[IF g = j THEN i ELSE g]
    BY <1>5, <1>8
  <2>3. From(m, s[h]) = To(m, s[g]) /\ s[h] \in Open(m)
    BY <1>1, <2>1
  <2> HIDE DEF h, g
  <2>4. r[k] \in Open(n)
    BY <1>2, <1>3, <1>4, <1>11, <2>1, <2>3
  <2>5. From(n, r[k]) = From(m, s[h])
    BY <1>2, <1>4, <1>10, <2>1
  <2>6. To(n, t[IF g = j THEN i ELSE g]) = To(m, s[g])
    <3>1. CASE g = j
      BY <1>2, <1>3, <1>4, <3>1
    <3>2. CASE g # j
      <4>1. g # i
        BY <1>9, <2>1 DEF g
      <4> QED BY <1>2, <1>4, <1>10, <2>1, <3>2, <4>1
    <3> QED BY <3>1, <3>2
  <2> QED BY <2>2, <2>3, <2>4, <2>5, <2>6
<1>14. Ring(n, r)
  <2>1. \A k \in 1 .. L - 1 : /\ r[k] \in Open(n)
                              /\ From(n, r[k]) = To(n, r[IF k = 1 THEN L - 1 ELSE k - 1])
    BY <1>13 DEF Prev
  <2> QED BY <1>5, <1>12, <2>1 DEF Ring
<1>15. \A h \in 1 .. L : h # j => \E k \in 1 .. L - 1 : At(k) = h
  <2> TAKE h \in 1 .. L
  <2> HAVE h # j
  <2> DEFINE k == IF h < j THEN h ELSE h - 1
  <2>1. k \in 1 .. L - 1 /\ At(k) = h
    BY <1>1, <1>3 DEF At
  <2> HIDE DEF k
  <2> QED BY <2>1
<1>16. \E k \in 1 .. L - 1 : r[k] = x
  <2>1. PICK k \in 1 .. L - 1 : At(k) = i
    BY <1>3, <1>15
  <2> QED BY <1>3, <1>4, <1>5, <2>1
<1>17. \A y \in Open(n) : y \in Open(m) \/ \E k \in 1 .. L - 1 : r[k] = y
  BY <1>2, <1>16
<1>18. ASSUME NEW h \in 1 .. L, s[h] \in Open(n) PROVE \E l \in 1 .. L - 1 : r[l] = s[h]
  <2>1. h # j /\ h # i
    BY <1>2, <1>10, <1>18
  <2>2. PICK l \in 1 .. L - 1 : At(l) = h
    BY <1>15, <2>1
  <2> QED BY <1>4, <1>5, <2>1, <2>2
<1> QED BY <1>5, <1>14, <1>17, <1>18 DEF RingKept, r, t, x, L

\* The first of some edges is one of them.
LEMMA FirstOfIs ==
  ASSUME NEW es \in SUBSET Ends, es # {}
  PROVE  FirstOf(es) \in es
<1> DEFINE N(e) == 3 * e[1] + e[2]
           T == {N(e) : e \in es}
           B(e, f) == e[1] < f[1] \/ (e[1] = f[1] /\ e[2] <= f[2])
<1>1. \A e \in es : e[1] \in Nat /\ e[2] \in 0 .. 2 /\ N(e) \in Nat
  BY BoundsAssumption DEF Ends, Polys
<1>2. PICK k \in T : \A l \in T : k <= l
  <2>1. T \subseteq Nat /\ T # {}
    BY <1>1
  <2> HIDE DEF T
  <2> QED BY <2>1, Least
<1>3. PICK e \in es : k = N(e)
  OBVIOUS
<1>4. \A f \in es : N(e) <= N(f)
  BY <1>2, <1>3
<1>5. \A f \in es : B(e, f)
  BY <1>1, <1>4
<1>6. FirstOf(es) = CHOOSE x \in es : \A f \in es : B(x, f)
  BY DEF FirstOf
<1> HIDE DEF B
<1> QED BY <1>3, <1>5, <1>6

----------------------------------------------------------------------------
(* The steps of the algorithms *)

IsPass(t) == t = [name |-> t.name, poly |-> t.poly, change |-> t.change]

\* What an algorithm under way relies on.
Working(m, t) ==
  \/ t = NoTask
  \/ Capping(m, t)
  \/ IsPass(t) /\ t.name = "clean" /\ Sealed(m)
  \/ IsPass(t) /\ t.name = "collapse" /\ Proper(m)

MeshInv == Sound(mesh) /\ Working(mesh, task)

\* A task of cap_hole() with these fields.
CapIs(t, name, first, at, perimeter, open) ==
  /\ IsCap(t) /\ t.name = name /\ t.first = first /\ t.at = at /\ t.perimeter = perimeter
  /\ t.open = open

\* What changes of such a task when a field does.
LEMMA CapFields ==
  ASSUME NEW t, NEW name, NEW first, NEW at, NEW perimeter, NEW open,
         CapIs(t, name, first, at, perimeter, open), NEW x
  PROVE  /\ CapIs([t EXCEPT !.at = x], name, first, x, perimeter, open)
         /\ CapIs([t EXCEPT !.perimeter = x], name, first, at, x, open)
         /\ CapIs([t EXCEPT !.name = x], x, first, at, perimeter, open)
         /\ CapIs([t EXCEPT !.open = x], name, first, at, perimeter, x)
BY Z3 DEF IsCap, CapIs

\* The task that cap_hole() begins with is as it should be.
LEMMA CapBegins ==
  ASSUME Sound(mesh), HasRoom(mesh), NEW e \in Open(mesh), NEW all
  PROVE  Capping(mesh, WalkFrom(e, all))
<1> DEFINE t == WalkFrom(e, all)
<1>1. /\ IsCap(t) /\ t.name = "walk" /\ t.first = e /\ t.at = e /\ t.perimeter = <<>>
      /\ t.open = Open(mesh)
  BY DEF WalkFrom, IsCap
<1> HIDE DEF t
<1>2. Capping(mesh, t)
  BY <1>1, WalkBegins
<1> QED BY <1>2 DEF t

\* cap_hole() and cap_holes() begin with what they rely on.
LEMMA CapBeginKeeps ==
  ASSUME MeshInv, (\E e \in Ends : CapBegin(e)) \/ CapHoles
  PROVE  MeshInv'
<1>1. Sound(mesh) /\ mesh' = mesh
  BY DEF MeshInv, CapBegin, CapHoles
<1>2. HasRoom(mesh)
  BY DEF CapBegin, CapHoles, HasRoom
<1>3. \E e \in Open(mesh) : \E all : task' = WalkFrom(e, all)
  <2>1. CASE \E e \in Ends : CapBegin(e)
    BY <2>1 DEF CapBegin
  <2>2. CASE CapHoles
    <3>1. Open(mesh) \in SUBSET Ends /\ Open(mesh) # {}
      BY <2>2, EndsOfAre DEF CapHoles, Open
    <3>2. FirstOf(Open(mesh)) \in Open(mesh)
      BY <3>1, FirstOfIs
    <3> QED BY <2>2, <3>2 DEF CapHoles
  <2> QED BY <2>1, <2>2
<1>4. Capping(mesh, task')
  BY <1>1, <1>2, <1>3, CapBegins
<1> QED BY <1>1, <1>4 DEF MeshInv, Working

\* The invariant holds after a step around a vertex.
LEMMA WalkAroundKeeps ==
  ASSUME MeshInv, WalkAround
  PROVE  MeshInv'
<1> DEFINE e == mesh.link[Turn(task.at, 1)]
<1>1. Sound(mesh) /\ Capping(mesh, task) /\ task.name = "walk" /\ mesh' = mesh /\ e # NoEdge
  BY DEF MeshInv, Working, WalkAround
<1>2. task' = [task EXCEPT !.at = e]
  BY DEF WalkAround
<1> HIDE DEF e
<1>3. Capping(mesh, [task EXCEPT !.at = e])
  BY <1>1, WalkAroundCaps DEF e
<1> QED BY <1>1, <1>2, <1>3 DEF MeshInv, Working

\* The invariant holds after a step along the hole.
LEMMA WalkAlongKeeps ==
  ASSUME MeshInv, WalkAlong
  PROVE  MeshInv'
<1> DEFINE e == Turn(task.at, 1)
           per == Append(task.perimeter, e)
           name == IF e = task.first THEN "fill" ELSE "walk"
           u == [task EXCEPT !.at = e, !.perimeter = per, !.name = name]
<1>1. Sound(mesh) /\ Capping(mesh, task) /\ task.name = "walk" /\ mesh' = mesh
      /\ mesh.link[e] = NoEdge
  BY DEF MeshInv, Working, WalkAlong
<1>2. task' = u
  BY DEF WalkAlong
<1>3. IsCap(task)
  BY <1>1 DEF Capping
<1>4. IsCap(u) /\ u.first = task.first /\ u.at = e /\ u.perimeter = per /\ u.name = name
      /\ u.open = task.open
  <2> DEFINE u1 == [task EXCEPT !.at = e]
             u2 == [u1 EXCEPT !.perimeter = per]
             u3 == [u2 EXCEPT !.name = name]
  <2>1. u = u3
    OBVIOUS
  <2> HIDE DEF u, e, per, name
  <2>2. CapIs(task, task.name, task.first, task.at, task.perimeter, task.open)
    BY <1>3 DEF CapIs
  <2>3. CapIs(u1, task.name, task.first, e, task.perimeter, task.open)
    BY <2>2, CapFields, Zenon
  <2> HIDE DEF u1
  <2>4. CapIs(u2, task.name, task.first, e, per, task.open)
    BY <2>3, CapFields, Zenon
  <2> HIDE DEF u2
  <2>5. CapIs(u3, name, task.first, e, per, task.open)
    BY <2>4, CapFields, Zenon
  <2> HIDE DEF u3
  <2> QED BY <2>1, <2>5 DEF CapIs
<1> HIDE DEF u
<1>5. Capping(mesh, u)
  BY <1>1, <1>4, WalkAlongCaps
<1> QED BY <1>1, <1>2, <1>5 DEF MeshInv, Working

\* The index after the last one is the first.
LEMMA NextIndex ==
  ASSUME NEW n \in Nat, NEW i \in 1 .. n
  PROVE  (i % n) + 1 = IF i = n THEN 1 ELSE i + 1
<1>1. CASE i = n
  BY <1>1
<1>2. CASE i < n
  BY <1>2
<1> QED BY <1>1, <1>2

\* There is a handle while the ring has three edges.
LEMMA RingHasRoom ==
  ASSUME NEW m, HasRoom(m), NEW s, Ring(m, s), Len(s) >= 3
  PROVE  NewPolys(m) # {}
<1>1. /\ IsFiniteSet(Open(m)) /\ Cardinality(Open(m)) \in Nat
  BY OpenFinite
<1>2. /\ {s[1], s[2], s[3]} \subseteq Open(m) /\ s[1] # s[2] /\ s[1] # s[3] /\ s[2] # s[3]
  <2>1. 1 \in 1 .. Len(s) /\ 2 \in 1 .. Len(s) /\ 3 \in 1 .. Len(s)
    BY LenProperties DEF Ring
  <2> QED BY <2>1 DEF Ring, Distinct
<1> DEFINE a == {s[1]}
           b == a \cup {s[2]}
           c == b \cup {s[3]}
<1>3. IsFiniteSet(a) /\ Cardinality(a) = 1
  BY FS_Singleton
<1>4. IsFiniteSet(b) /\ Cardinality(b) = 2
  <2>1. s[2] \notin a
    BY <1>2
  <2> HIDE DEF a
  <2>2. IsFiniteSet(a \cup {s[2]}) /\ Cardinality(a \cup {s[2]}) = Cardinality(a) + 1
    BY <1>3, <2>1, FS_AddElement
  <2> QED BY <1>3, <2>2
<1>5. IsFiniteSet(c) /\ Cardinality(c) = 3
  <2>1. s[3] \notin b
    BY <1>2
  <2> HIDE DEF b
  <2> QED BY <1>4, <2>1, FS_AddElement
<1>6. Cardinality(c) <= Cardinality(Open(m))
  <2>1. c \subseteq Open(m)
    BY <1>2
  <2> HIDE DEF c
  <2> QED BY <1>1, <2>1, FS_Subset
<1>7. Cardinality(NewPolys(m)) >= 1
  BY <1>1, <1>5, <1>6, OpenFinite DEF HasRoom
<1> QED BY <1>7, FS_EmptySet

\* The invariant holds after a polygon is put over two edges of the ring.
LEMMA FillKeeps ==
  ASSUME MeshInv, NEW i \in Nat, i >= 1, Fill(i)
  PROVE  MeshInv'
<1> DEFINE s == task.perimeter
           n == Len(s)
           j == (i % n) + 1
           curr == s[i]
           next == s[j]
           p == FirstNew(mesh)
           m1 == WithPoly(mesh, p, <<From(mesh, curr), To(mesh, next), To(mesh, curr)>>)
           m2 == Require(Link(Link(m1, curr, <<p, 2>>), next, <<p, 1>>),
                         To(mesh, curr) = From(mesh, next))
           r == RemoveAt([s EXCEPT ![i] = <<p, 0>>], j)
           u == [task EXCEPT !.perimeter = r]
<1>1. /\ Sound(mesh) /\ Capping(mesh, task) /\ task.name = "fill"
  BY DEF MeshInv, Working, Fill
<1>2. n >= 3 /\ i <= n /\ mesh' = m2 /\ task' = u
  BY DEF Fill
<1>3. IsCap(task) /\ HasRoom(mesh) /\ Ring(mesh, s) /\ OpenAround(mesh, task)
  BY <1>1 DEF Capping
<1>4. s \in Seq(Ends) /\ n \in Nat /\ i \in 1 .. n
  BY <1>2, <1>3, LenProperties DEF Ring
<1>5. j = IF i = n THEN 1 ELSE i + 1
  BY <1>4, NextIndex
<1> HIDE DEF j
<1>6. j \in 1 .. n /\ j # i /\ i = IF j = 1 THEN n ELSE j - 1
  BY <1>2, <1>4, <1>5
<1>7. curr \in Open(mesh) /\ next \in Open(mesh) /\ curr # next /\ To(mesh, curr) = From(mesh, next)
  BY <1>3, <1>4, <1>6 DEF Ring, Distinct
<1>8. p \in NewPolys(mesh)
  BY <1>2, <1>3, RingHasRoom, FirstNewIs
<1> HIDE DEF p
<1>9. Filled(m2, mesh, p, curr, next)
  <2> HIDE DEF curr, next
  <2> QED BY <1>1, <1>7, <1>8, FillSound
<1> HIDE DEF m2
<1>10. RingKept(m2, mesh, s, r)
  BY <1>2, <1>3, <1>4, <1>5, <1>9, FillRing
<1>11. HasRoom(m2)
  <2> HIDE DEF curr, next
  <2> QED BY <1>3, <1>7, <1>8, <1>9, FillHasRoom
<1> HIDE DEF r
<1>12. /\ IsCap(u) /\ u.name = "fill" /\ u.perimeter = r
       /\ u.first = task.first /\ u.open = task.open
  BY <1>1, <1>3 DEF IsCap
<1> HIDE DEF u
<1>13. Capping(m2, u)
  <2>1. OpenAround(m2, u)
    BY <1>3, <1>10, <1>12 DEF OpenAround, RingKept
  <2> QED BY <1>10, <1>11, <1>12, <2>1 DEF Capping, RingKept
<1>14. Sound(m2)
  BY <1>9 DEF Filled
<1> QED BY <1>2, <1>13, <1>14 DEF MeshInv, Working

\* It holds after the last two are linked, and no other edge is closed by that.
LEMMA CloseCapKeeps ==
  ASSUME MeshInv, CloseCap
  PROVE  MeshInv' /\ Open(mesh') = Open(mesh) \ ToSet(task.perimeter)
<1> DEFINE s == task.perimeter
           e == s[1]
           f == s[2]
           n == Link(mesh, e, f)
           left == Open(mesh) \ ToSet(s)
           u == [WalkFrom(FirstOf(left), TRUE) EXCEPT !.open = left]
<1>1. /\ Sound(mesh) /\ Capping(mesh, task) /\ task.name = "fill" /\ Len(s) = 2
      /\ mesh' = n /\ task' \in {NoTask, u} /\ (left = {} => task' = NoTask)
  BY DEF MeshInv, Working, CloseCap
<1>2. Ring(mesh, s) /\ HasRoom(mesh)
  BY <1>1 DEF Capping
<1>3. s \in Seq(Ends) /\ DOMAIN s = {1, 2}
  BY <1>1, <1>2, LenProperties DEF Ring
<1>4. /\ e \in Open(mesh) /\ f \in Open(mesh) /\ e # f
      /\ From(mesh, e) = To(mesh, f) /\ From(mesh, f) = To(mesh, e)
  <2>1. 1 \in 1 .. Len(s) /\ 2 \in 1 .. Len(s)
    BY <1>1
  <2> QED BY <1>1, <1>2, <2>1 DEF Ring, Distinct
<1>5. ToSet(s) = {e, f}
  BY <1>3 DEF ToSet
<1> HIDE DEF e, f
<1>6. /\ Whole(mesh) /\ JoinedBy(mesh, Froms(mesh), Tos(mesh))
      /\ e \in EndsOf(mesh) /\ f \in EndsOf(mesh) /\ mesh.link[e] = NoEdge /\ mesh.link[f] = NoEdge
      /\ e \in Ends /\ f \in Ends
      /\ Froms(mesh)[f] = Tos(mesh)[e] /\ Froms(mesh)[e] = Tos(mesh)[f]
  BY <1>1, <1>4, SoundJoins, EndsOfAre DEF Open, Froms, Tos
<1>7. JoinedBy(n, Froms(mesh), Tos(mesh))
  BY <1>4, <1>6, LinkJoins
<1>8. /\ Whole(n) /\ Others(n, mesh) /\ n.link[e] = f /\ n.link[f] = e
      /\ \A x \in Ends \ {e, f} : n.link[x] = mesh.link[x]
  BY <1>4, <1>6, LinkKeeps
<1> HIDE DEF n
<1>9. /\ EndsOf(n) = EndsOf(mesh) /\ NewPolys(n) = NewPolys(mesh)
      /\ Froms(n) = Froms(mesh) /\ Tos(n) = Tos(mesh)
  BY <1>8 DEF Others, EndsOf, PolysOf, NewPolys, Froms, Tos, From, To, Vert
<1>10. Sound(n)
  BY <1>7, <1>8, <1>9 DEF Sound, Joins
<1>11. Open(n) = left
  BY <1>5, <1>6, <1>8, <1>9, EndsOfAre, NoneAssumption DEF Open
<1>12. HasRoom(n)
  <2>1. Cardinality(Open(n)) <= Cardinality(Open(mesh))
    BY <1>11, OpenFinite, FS_Subset
  <2>2. /\ Cardinality(Open(n)) \in Nat /\ Cardinality(Open(mesh)) \in Nat
        /\ Cardinality(NewPolys(mesh)) \in Nat
    BY OpenFinite
  <2> QED BY <1>2, <1>9, <2>1, <2>2 DEF HasRoom
<1>13. ASSUME left # {} PROVE Capping(n, u)
  <2>1. FirstOf(left) \in left
    <3>1. left \in SUBSET Ends
      BY <1>11, EndsOfAre DEF Open
    <3> HIDE DEF left
    <3> QED BY <1>13, <3>1, FirstOfIs
  <2> HIDE DEF left
  <2>2. /\ IsCap(u) /\ u.name = "walk" /\ u.first = FirstOf(left) /\ u.at = FirstOf(left)
        /\ u.perimeter = <<>> /\ u.open = left
    <3> DEFINE w == WalkFrom(FirstOf(left), TRUE)
    <3>1. IsCap(w) /\ w.name = "walk" /\ w.first = FirstOf(left) /\ w.at = FirstOf(left)
          /\ w.perimeter = <<>>
      BY DEF WalkFrom, IsCap
    <3> HIDE DEF w
    <3>2. CapIs(w, "walk", FirstOf(left), FirstOf(left), <<>>, w.open)
      BY <3>1 DEF CapIs
    <3>3. CapIs([w EXCEPT !.open = left], "walk", FirstOf(left), FirstOf(left), <<>>, left)
      BY <3>2, CapFields, Zenon
    <3> QED BY <3>3 DEF w, CapIs
  <2> HIDE DEF u
  <2> QED BY <1>11, <1>12, <2>1, <2>2, WalkBegins
<1>14. Open(mesh') = Open(mesh) \ ToSet(task.perimeter)
  BY <1>1, <1>11
<1> HIDE DEF u, left
<1> QED BY <1>1, <1>10, <1>13, <1>14 DEF MeshInv, Working

\* A pass goes on when its fields change.
LEMMA PassFields ==
  ASSUME NEW t, IsPass(t), NEW x, NEW y
  PROVE  /\ IsPass([t EXCEPT !.poly = x, !.change = y])
         /\ [t EXCEPT !.poly = x, !.change = y].name = t.name
<1> DEFINE u == [t EXCEPT !.poly = x]
           v == [u EXCEPT !.change = y]
<1>1. IsPass(u) /\ u.name = t.name
  BY Z3 DEF IsPass
<1>2. [t EXCEPT !.poly = x, !.change = y] = v
  OBVIOUS
<1> HIDE DEF u
<1>3. IsPass(v) /\ v.name = u.name
  BY <1>1, Z3 DEF IsPass
<1> QED BY <1>1, <1>2, <1>3

\* It holds when clean_flat_surfaces_on_edges() or fast_collapse_edges() begins.
LEMMA PassBeginKeeps ==
  ASSUME CleansOpen = FALSE, MeshInv, CleanBegin \/ CollapseBegin
  PROVE  MeshInv'
<1>1. Sound(mesh) /\ mesh' = mesh
  BY DEF MeshInv, CleanBegin, CollapseBegin
<1>2. CASE CleanBegin
  <2>1. IsPass(task') /\ task'.name = "clean"
    BY <1>2 DEF CleanBegin, IsPass
  <2>2. Sealed(mesh)
    BY <1>1, <1>2 DEF CleanBegin, IsSolid, Sealed, Proper
  <2> QED BY <1>1, <2>1, <2>2 DEF MeshInv, Working
<1>3. CASE CollapseBegin
  <2>1. IsPass(task') /\ task'.name = "collapse"
    BY <1>3 DEF CollapseBegin, IsPass
  <2>2. Proper(mesh)
    BY <1>1, <1>3 DEF CollapseBegin, Proper
  <2> QED BY <1>1, <2>1, <2>2 DEF MeshInv, Working
<1> QED BY <1>2, <1>3

\* A mesh without the polygons of one flat edge, or as it was.
FlatCleaned(n, m) ==
  /\ Proper(m)
  /\ n = m \/ \E e \in EndsOf(m) : Flat(m, e) /\ FlatWithout(n, m, e)

\* It holds after a polygon of a pass that cleans.
LEMMA CleanPolyKeeps ==
  ASSUME MeshInv, CleanPoly
  PROVE  MeshInv' /\ FlatCleaned(mesh', mesh)
<1> DEFINE p == task.poly
           flat == FlatEdgesOf(p)
           e == CHOOSE x \in flat : \A f \in flat : x[2] <= f[2]
<1>1. IsPass(task) /\ task.name = "clean" /\ Sealed(mesh) /\ p \in Polys
  BY DEF MeshInv, Working, CleanPoly, CleanNext, Capping
<1>2. IsPass(task') /\ task'.name = "clean"
  <2>1. task' = [task EXCEPT !.poly = task.poly + 1, !.change = task.change \/ flat # {}]
    BY DEF CleanPoly, CleanNext
  <2> HIDE DEF flat
  <2> QED BY <1>1, <2>1, PassFields
<1>3. mesh' = IF flat = {} THEN mesh ELSE Flattened(mesh, e)
  BY DEF CleanPoly
<1>4. ASSUME flat # {} PROVE e \in EndsOf(mesh) /\ Flat(mesh, e)
  <2>1. \A x \in flat : x \in EndsOf(mesh) /\ Flat(mesh, x) /\ x[2] \in Nat
    BY DEF FlatEdgesOf, FlatEdges, Flat, EndsOf
  <2> HIDE DEF flat
  <2>2. \E x \in flat : \A f \in flat : x[2] <= f[2]
    <3> DEFINE T == {x[2] : x \in flat}
    <3>1. T \subseteq Nat /\ T # {}
      BY <1>4, <2>1
    <3>2. PICK k \in T : \A l \in T : k <= l
      <4> HIDE DEF T
      <4> QED BY <3>1, Least
    <3> QED BY <3>2
  <2>3. e \in flat
    BY <2>2
  <2> HIDE DEF e
  <2> QED BY <2>1, <2>3
<1> HIDE DEF e, flat
<1>5. Sealed(mesh')
  BY <1>1, <1>3, <1>4, FlattenedSealed
<1>6. FlatCleaned(mesh', mesh)
  <2>1. Proper(mesh)
    BY <1>1 DEF Sealed
  <2>2. CASE flat = {}
    BY <1>3, <2>1, <2>2 DEF FlatCleaned
  <2>3. CASE flat # {}
    BY <1>1, <1>3, <1>4, <2>1, <2>3, FlattenedSealed DEF FlatCleaned
  <2> QED BY <2>2, <2>3
<1> QED BY <1>2, <1>5, <1>6 DEF MeshInv, Working, Sealed, Proper

\* It holds between two passes.
LEMMA NextPassKeeps ==
  ASSUME MeshInv, NextPass
  PROVE  MeshInv'
<1>1. /\ mesh' = mesh /\ task # NoTask /\ task.name \in {"clean", "collapse"}
      /\ task' = IF task.change THEN [task EXCEPT !.poly = 0, !.change = FALSE] ELSE NoTask
  BY DEF NextPass
<1>2. /\ IsPass(task) /\ Sound(mesh)
      /\ \/ task.name = "clean" /\ Sealed(mesh)
         \/ task.name = "collapse" /\ Proper(mesh)
  BY <1>1 DEF MeshInv, Working, Capping
<1>3. task' = NoTask \/ (IsPass(task') /\ task'.name = task.name)
  BY <1>1, <1>2, PassFields
<1> QED BY <1>1, <1>2, <1>3 DEF MeshInv, Working

\* It holds after a polygon of a pass that collapses.
LEMMA CollapsePolyKeeps ==
  ASSUME MeshInv, CollapsePoly
  PROVE  MeshInv'
<1>1. IsPass(task) /\ task.name = "collapse" /\ Proper(mesh)
  BY DEF MeshInv, Working, CollapsePoly, CollapseNext, Capping
<1>2. IsPass(task') /\ task'.name = "collapse"
  <2>1. PICK change \in {task.change, TRUE} :
          task' = [task EXCEPT !.poly = task.poly + 1, !.change = change]
    BY DEF CollapsePoly, CollapseNext
  <2> QED BY <1>1, <2>1, PassFields
<1>3. Proper(mesh')
  <2>1. CASE mesh' = mesh
    BY <1>1, <2>1
  <2>2. ASSUME NEW i \in 0 .. 2, task.poly \in PolysOf(mesh),
               mesh' \in Merged(mesh, From(mesh, <<task.poly, i>>), To(mesh, <<task.poly, i>>))
        PROVE  Proper(mesh')
    <3> DEFINE e == <<task.poly, i>>
    <3>1. e \in EndsOf(mesh)
      BY <2>2 DEF EndsOf
    <3> HIDE DEF e
    <3>2. /\ From(mesh, e) \in Verts /\ To(mesh, e) \in Verts
          /\ From(mesh, e) # To(mesh, e)
      BY <1>1, <3>1, SurfaceHas DEF Proper, Sound, Whole, HasDegeneratePolys
    <3> QED BY <1>1, <2>2, <3>2, MergedProper DEF e
  <2> QED BY <2>1, <2>2 DEF CollapsePoly
<1> QED BY <1>2, <1>3 DEF MeshInv, Working, Proper

\* It holds after every call of the client.
LEMMA ClientCallKeeps ==
  ASSUME CleansOpen = FALSE, MeshInv, task = NoTask, ClientCall
  PROVE  MeshInv'
<1>1. Sound(mesh) /\ Whole(mesh) /\ Surface(mesh)
  BY SoundJoins DEF MeshInv
<1>2. ASSUME NEW m, Sound(m), Becomes(m) PROVE MeshInv'
  BY <1>2 DEF Becomes, MeshInv, Working
<1>3. CASE AddVert
  BY <1>1, <1>2, <1>3, AddVertSound DEF AddVert
<1>4. CASE \E v \in Verts : EraseVert(v)
  <2>1. PICK v \in Verts : EraseVert(v)
    BY <1>4
  <2>2. v \in mesh.verts /\ mesh.poly_links[v] = {} /\ Becomes([mesh EXCEPT !.verts = @ \ {v}])
    BY <2>1 DEF EraseVert
  <2> QED BY <1>1, <1>2, <2>2, EraseVertSound
<1>5. CASE \E a, b, c \in Verts : AddPoly(a, b, c)
  <2>1. PICK a, b, c \in Verts : AddPoly(a, b, c)
    BY <1>5
  <2> DEFINE t == <<a, b, c>>
  <2>2. NewPolys(mesh) # {} /\ {a, b, c} \subseteq mesh.verts
        /\ Becomes(WithPoly(mesh, FirstNew(mesh), t))
    BY <2>1 DEF AddPoly
  <2>3. t[1] \in mesh.verts /\ t[2] \in mesh.verts /\ t[3] \in mesh.verts
    BY <2>2
  <2> HIDE DEF t
  <2>4. Sound(WithPoly(mesh, FirstNew(mesh), t))
    BY <1>1, <2>2, <2>3, FirstNewIs, WithPolySound
  <2> QED BY <1>2, <2>2, <2>4
<1>6. CASE \E p \in Polys : ErasePoly(p)
  BY <1>1, <1>2, <1>6, WithoutPolySound DEF ErasePoly
<1>7. CASE EraseIsolatedVerts
  BY <1>1, <1>2, <1>7, WithoutIsolatedSound DEF EraseIsolatedVerts
<1>8. CASE Compact
  BY <1>1, <1>2, <1>8, CompactSound DEF Compact
<1>9. CASE ComputeEdgeLinks
  BY <1>1, <1>2, <1>9, ComputedSound DEF ComputeEdgeLinks
<1>10. CASE InvertPolys
  BY <1>1, <1>2, <1>10, InvertedSound DEF InvertPolys
<1>11. CASE \E a, b \in Verts : MergeVerts(a, b)
  <2>1. PICK a, b \in Verts : MergeVerts(a, b)
    BY <1>11
  <2>2. PICK m \in Merged(mesh, a, b) : Becomes(m)
    BY <2>1 DEF MergeVerts
  <2>3. a # b /\ Proper(mesh)
    BY <1>1, <2>1 DEF MergeVerts, Proper
  <2>4. Proper(m)
    BY <2>2, <2>3, MergedProper
  <2> QED BY <1>2, <2>2, <2>4 DEF Proper
<1>12. CASE \E e \in Ends, v \in Verts : SplitEdge(e, v)
  <2>1. PICK e \in Ends, v \in Verts : SplitEdge(e, v)
    BY <1>12
  <2>2. /\ Cardinality(NewPolys(mesh)) >= 2 /\ e \in EndsOf(mesh)
        /\ Cardinality(VertSet(mesh, e[1])) = 3 /\ v \in mesh.verts
        /\ Becomes(Split(mesh, e, v, FirstNew(mesh), SecondNew(mesh)))
    BY <2>1 DEF SplitEdge
  <2> QED BY <1>1, <1>2, <2>2, SplitSound
<1>13. CASE \E p \in Polys, v \in Verts : CutPoly(p, v)
  <2>1. PICK p \in Polys, v \in Verts : CutPoly(p, v)
    BY <1>13
  <2>2. /\ Cardinality(NewPolys(mesh)) >= 2 /\ p \in PolysOf(mesh) /\ v \in mesh.verts
        /\ Becomes(Cut(mesh, p, v, FirstNew(mesh), SecondNew(mesh)))
    BY <2>1 DEF CutPoly
  <2> QED BY <1>1, <1>2, <2>2, TwoNew, CutSound
<1>14. CASE Remove2sidedAndDouble
  BY <1>1, <1>2, <1>14, Remove2sidedSound DEF Remove2sidedAndDouble
<1>15. CASE RemoveInverted
  <2>1. PICK m \in WithComputedLinks(mesh) : \E ps \in LinkedParts(m) : Becomes(WithoutPolys(m, ps))
    BY <1>15 DEF RemoveInverted
  <2> QED BY <1>1, <1>2, <2>1, RemoveInvertedSound
<1>16. CASE \E e \in Ends : CapBegin(e)
  BY <1>16, CapBeginKeeps
<1>17. CASE CapHoles
  BY <1>17, CapBeginKeeps
<1>18. CASE CleanBegin
  BY <1>18, PassBeginKeeps
<1>19. CASE CollapseBegin
  BY <1>19, PassBeginKeeps
<1> QED BY <1>3, <1>4, <1>5, <1>6, <1>7, <1>8, <1>9, <1>10, <1>11, <1>12, <1>13, <1>14, <1>15,
           <1>16, <1>17, <1>18, <1>19 DEF ClientCall

\* It holds after every step.
LEMMA MeshNextInv ==
  ASSUME CleansOpen = FALSE, MeshInv, [MeshNext]_meshVars
  PROVE  MeshInv'
<1>1. CASE task = NoTask /\ ClientCall
  BY <1>1, ClientCallKeeps
<1>2. CASE WalkAround
  BY <1>2, WalkAroundKeeps
<1>3. CASE WalkAlong
  BY <1>3, WalkAlongKeeps
<1>4. CASE \E i \in 1 .. 3 * Cardinality(Polys) : Fill(i)
  <2>1. PICK i \in 1 .. 3 * Cardinality(Polys) : Fill(i)
    BY <1>4
  <2>2. i \in Nat /\ i >= 1
    OBVIOUS
  <2> QED BY <2>1, <2>2, FillKeeps
<1>5. CASE CloseCap
  BY <1>5, CloseCapKeeps
<1>6. CASE CleanPoly
  BY <1>6, CleanPolyKeeps
<1>7. CASE CollapsePoly
  BY <1>7, CollapsePolyKeeps
<1>8. CASE NextPass
  BY <1>8, NextPassKeeps
<1>9. CASE UNCHANGED meshVars
  BY <1>9 DEF meshVars, MeshInv
<1> QED BY <1>1, <1>2, <1>3, <1>4, <1>5, <1>6, <1>7, <1>8, <1>9
        DEF MeshNext, TaskStep, CapStep

\* It holds in the beginning.
LEMMA MeshInitInv ==
  ASSUME MeshInit
  PROVE  MeshInv
<1>1. PICK s \in Samples : mesh \in WithComputedLinks(Appended(EmptyMesh, s.triangles))
  BY DEF MeshInit
<1>2. s.triangles \in Seq(Verts \X Verts \X Verts) /\ Len(s.triangles) <= MaxPolys
  BY SamplesAssumption
<1>3. Sound(Appended(EmptyMesh, s.triangles))
  BY <1>2, AppendedSound
<1>4. Sound(mesh)
  BY <1>1, <1>3, ComputedSound
<1> QED BY <1>4 DEF MeshInit, MeshInv, Working

\* The inductive invariant: the mesh is sound, and an algorithm under way has what
\* it relies on.  The client cleans solid meshes without holes only.
THEOREM MeshStaysSound ==
  ASSUME CleansOpen = FALSE
  PROVE  MeshSpec => []MeshInv
<1>1. MeshInit => MeshInv
  BY MeshInitInv
<1>2. MeshInv /\ [MeshNext]_meshVars => MeshInv'
  BY MeshNextInv
<1> QED BY <1>1, <1>2, PTL DEF MeshSpec

\* Links between edges are mutual and join the same two vertices, and no assertion
\* of link(), unlink(), change_vert() or erase() fails, through all the algorithms.
THEOREM LinksAlwaysJoin ==
  ASSUME CleansOpen = FALSE
  PROVE  MeshSpec => []LinksJoin
<1>1. MeshInv => LinksJoin
  <2> SUFFICES ASSUME MeshInv PROVE LinksJoin
    OBVIOUS
  <2>1. Mutual(mesh) /\ JoinedBy(mesh, Froms(mesh), Tos(mesh)) /\ mesh.ok
    BY SoundJoins DEF MeshInv, Mutual
  <2>2. ASSUME NEW e \in EndsOf(mesh), mesh.link[e] # NoEdge
        PROVE  /\ mesh.link[e] \in EndsOf(mesh)
               /\ mesh.link[mesh.link[e]] = e
               /\ From(mesh, mesh.link[e]) = To(mesh, e)
               /\ To(mesh, mesh.link[e]) = From(mesh, e)
    <3> DEFINE o == mesh.link[e]
    <3>1. e \in Ends /\ o \in EndsOf(mesh) /\ o \in Ends /\ mesh.link[o] = e
      BY <2>1, <2>2, EndsOfAre DEF Mutual
    <3>2. mesh.link[o] # NoEdge
      BY <3>1, NoneAssumption
    <3>3. From(mesh, o) = To(mesh, e)
      BY <2>1, <2>2, <3>1 DEF JoinedBy, Froms, Tos
    <3> HIDE DEF o
    <3>4. From(mesh, e) = To(mesh, o)
      BY <2>1, <3>1, <3>2 DEF JoinedBy, Froms, Tos
    <3> QED BY <3>1, <3>3, <3>4 DEF o
  <2> QED BY <2>1, <2>2 DEF LinksJoin
<1> QED BY <1>1, MeshStaysSound, PTL

\* cap_hole() closes the hole that it walked around and opens no other, and
\* cap_holes() leaves none.
THEOREM HolesAreClosed ==
  ASSUME CleansOpen = FALSE
  PROVE  MeshSpec => CapClosesHole
<1>1. ASSUME MeshInv, CloseCap
      PROVE  /\ Open(mesh') \subseteq task.open \ {task.first}
             /\ task.all /\ task' = NoTask => Open(mesh') = {}
  <2> DEFINE left == Open(mesh) \ ToSet(task.perimeter)
  <2>1. /\ Capping(mesh, task) /\ task.name = "fill"
        /\ task' = IF task.all /\ left # {}
                     THEN [WalkFrom(FirstOf(left), TRUE) EXCEPT !.open = left] ELSE NoTask
    BY <1>1 DEF MeshInv, Working, CloseCap
  <2>2. Open(mesh') = left
    BY <1>1, CloseCapKeeps
  <2>3. left \subseteq task.open \ {task.first}
    <3>1. OpenAround(mesh, task) /\ task.perimeter \in Seq(Ends)
      BY <2>1 DEF Capping, Ring
    <3>2. \A k \in 1 .. Len(task.perimeter) : task.perimeter[k] \in ToSet(task.perimeter)
      BY <3>1, LenProperties DEF ToSet
    <3> QED BY <3>1, <3>2 DEF OpenAround
  <2>4. ASSUME task.all, left # {} PROVE task' # NoTask
    <3>1. left \in SUBSET Ends
      BY EndsOfAre DEF Open
    <3> HIDE DEF left
    <3>2. FirstOf(left) \in Ends
      BY <2>4, <3>1, FirstOfIs
    <3> DEFINE e == FirstOf(left)
               r == [name |-> "walk", first |-> e, at |-> e, perimeter |-> <<>>, open |-> left,
                     all |-> TRUE]
    <3>3. task' = r
      BY <2>1, <2>4 DEF WalkFrom
    <3> HIDE DEF e
    <3>4. r \in [name : {"walk"}, first : Ends, at : Ends, perimeter : Seq(Ends),
                open : SUBSET Ends, all : BOOLEAN]
      <4>1. <<>> \in Seq(Ends) /\ TRUE \in BOOLEAN /\ e \in Ends
        BY <3>2 DEF e
      <4> QED BY <3>1, <4>1
    <3> HIDE DEF r
    <3> QED BY <3>3, <3>4, NoTaskAssumption
  <2> HIDE DEF left
  <2> QED BY <2>2, <2>3, <2>4
<1>2. MeshInv /\ [MeshNext]_meshVars
      => [CloseCap => /\ Open(mesh') \subseteq task.open \ {task.first}
                      /\ task.all /\ task' = NoTask => Open(mesh') = {}]_meshVars
  BY <1>1
<1>3. MeshSpec => []MeshInv
  BY MeshStaysSound
<1> QED BY <1>2, <1>3, PTL DEF MeshSpec, CapClosesHole

\* Every vertex is linked to exactly the corners that name it.
THEOREM PolyLinksAlwaysExact ==
  ASSUME CleansOpen = FALSE
  PROVE  MeshSpec => []PolyLinksExact
<1>1. MeshInv => PolyLinksExact
  BY SoundJoins DEF MeshInv, PolyLinksExact, Surface
<1> QED BY <1>1, MeshStaysSound, PTL

----------------------------------------------------------------------------
(* The boundary *)

\* What an edge from a to b adds to the flow from v to w.
Arc(a, b, v, w) ==
  (IF a = v /\ b = w THEN 1 ELSE 0) - (IF a = w /\ b = v THEN 1 ELSE 0)

\* What the three edges of a polygon add.
Around3(a, b, c, v, w) == Arc(a, b, v, w) + Arc(b, c, v, w) + Arc(c, a, v, w)
PolyFlow(m, p, v, w) == Around3(Vert(m, <<p, 0>>), Vert(m, <<p, 1>>), Vert(m, <<p, 2>>), v, w)

\* The flow along the edges of some polygons.
Runs(m, es, v, w) == {x \in es : From(m, x) = v /\ To(m, x) = w}
FlowOf(m, ps, v, w) ==
  Cardinality(Runs(m, ps \X (0 .. 2), v, w)) - Cardinality(Runs(m, ps \X (0 .. 2), w, v))

\* One edge more.
LEMMA RunsOne ==
  ASSUME NEW m, NEW es \in SUBSET Ends, NEW x \in Ends, x \notin es, NEW v, NEW w
  PROVE  Cardinality(Runs(m, es \cup {x}, v, w))
         = Cardinality(Runs(m, es, v, w)) + (IF From(m, x) = v /\ To(m, x) = w THEN 1 ELSE 0)
<1>1. Runs(m, es, v, w) \in SUBSET Ends /\ x \notin Runs(m, es, v, w)
  BY DEF Runs
<1>2. IsFiniteSet(Runs(m, es, v, w)) /\ Cardinality(Runs(m, es, v, w)) \in Nat
  BY <1>1, EndsFinite
<1>3. CASE From(m, x) = v /\ To(m, x) = w
  <2>1. Runs(m, es \cup {x}, v, w) = Runs(m, es, v, w) \cup {x}
    BY <1>3 DEF Runs
  <2>2. Cardinality(Runs(m, es, v, w) \cup {x}) = Cardinality(Runs(m, es, v, w)) + 1
    BY <1>1, <1>2, FS_AddElement
  <2> QED BY <1>3, <2>1, <2>2
<1>4. CASE ~(From(m, x) = v /\ To(m, x) = w)
  <2>1. Runs(m, es \cup {x}, v, w) = Runs(m, es, v, w)
    BY <1>4 DEF Runs
  <2> QED BY <1>2, <1>4, <2>1
<1> QED BY <1>3, <1>4

\* One polygon more.
LEMMA FlowOne ==
  ASSUME NEW m, NEW ps \in SUBSET Polys, NEW p \in Polys, p \notin ps, NEW v, NEW w
  PROVE  FlowOf(m, ps \cup {p}, v, w) = FlowOf(m, ps, v, w) + PolyFlow(m, p, v, w)
<1> DEFINE es == ps \X (0 .. 2)
           e0 == <<p, 0>>
           e1 == <<p, 1>>
           e2 == <<p, 2>>
           D0 == es \cup {e0}
           D1 == D0 \cup {e1}
           D2 == D1 \cup {e2}
           N(d, x, y) == Cardinality(Runs(m, d, x, y))
           Is(e, x, y) == IF From(m, e) = x /\ To(m, e) = y THEN 1 ELSE 0
<1>1. /\ es \in SUBSET Ends /\ D0 \in SUBSET Ends /\ D1 \in SUBSET Ends
      /\ e0 \in Ends /\ e1 \in Ends /\ e2 \in Ends
      /\ e0 \notin es /\ e1 \notin D0 /\ e2 \notin D1
  BY DEF Ends
<1>2. (ps \cup {p}) \X (0 .. 2) = D2
  <2>1. 0 .. 2 = {0, 1, 2}
    OBVIOUS
  <2> QED BY <2>1
<1>3. /\ From(m, e0) = Vert(m, e0) /\ From(m, e1) = Vert(m, e1) /\ From(m, e2) = Vert(m, e2)
      /\ To(m, e0) = Vert(m, e1) /\ To(m, e1) = Vert(m, e2) /\ To(m, e2) = Vert(m, e0)
  BY EdgesAre DEF From, To
<1> HIDE DEF es, e0, e1, e2
<1>4. ASSUME NEW x, NEW y
      PROVE  /\ N(D2, x, y) = N(es, x, y) + Is(e0, x, y) + Is(e1, x, y) + Is(e2, x, y)
             /\ N(es, x, y) \in Nat
  <2>1. N(D0, x, y) = N(es, x, y) + Is(e0, x, y)
    BY <1>1, RunsOne
  <2> HIDE DEF D0
  <2>2. N(D1, x, y) = N(D0, x, y) + Is(e1, x, y)
    BY <1>1, RunsOne
  <2> HIDE DEF D1
  <2>3. N(D2, x, y) = N(D1, x, y) + Is(e2, x, y)
    BY <1>1, RunsOne
  <2>4. N(es, x, y) \in Nat
    <3>1. Runs(m, es, x, y) \in SUBSET Ends
      BY <1>1 DEF Runs
    <3> QED BY <3>1, EndsFinite
  <2> HIDE DEF N, D2
  <2> QED BY <2>1, <2>2, <2>3, <2>4
<1> HIDE DEF N, D2
<1>5. /\ N(D2, v, w) = N(es, v, w) + Is(e0, v, w) + Is(e1, v, w) + Is(e2, v, w)
      /\ N(D2, w, v) = N(es, w, v) + Is(e0, w, v) + Is(e1, w, v) + Is(e2, w, v)
      /\ N(es, v, w) \in Nat /\ N(es, w, v) \in Nat
  BY <1>4
<1>6. FlowOf(m, ps \cup {p}, v, w) = N(D2, v, w) - N(D2, w, v)
  BY <1>2 DEF FlowOf, N
<1>7. FlowOf(m, ps, v, w) = N(es, v, w) - N(es, w, v)
  BY DEF FlowOf, N, es
<1>8. PolyFlow(m, p, v, w) = (Is(e0, v, w) - Is(e0, w, v)) + (Is(e1, v, w) - Is(e1, w, v))
                             + (Is(e2, v, w) - Is(e2, w, v))
  BY <1>3 DEF PolyFlow, Around3, Arc, e0, e1, e2
<1>9. \A e, x, y : Is(e, x, y) \in Int
  OBVIOUS
<1> HIDE DEF Is
<1> QED BY <1>5, <1>6, <1>7, <1>8, <1>9

\* Other meshes have the same flow where their edges have the same ends.
LEMMA FlowSame ==
  ASSUME NEW m, NEW n, NEW ps \in SUBSET Polys, NEW v, NEW w,
         \A x \in Ends : x[1] \in ps => Vert(n, x) = Vert(m, x)
  PROVE  FlowOf(n, ps, v, w) = FlowOf(m, ps, v, w)
<1>1. \A x \in ps \X (0 .. 2) : From(n, x) = From(m, x) /\ To(n, x) = To(m, x)
  <2> TAKE x \in ps \X (0 .. 2)
  <2>1. x \in Ends /\ x[1] \in ps
    BY DEF Ends
  <2>2. Turn(x, 1) \in Ends /\ Turn(x, 1)[1] = x[1]
    BY <2>1, TurnsAre
  <2> QED BY <2>1, <2>2 DEF From, To
<1>2. \A x, y : Runs(n, ps \X (0 .. 2), x, y) = Runs(m, ps \X (0 .. 2), x, y)
  BY <1>1 DEF Runs
<1> QED BY <1>2 DEF FlowOf

\* The flow around a polygon, from any of its edges on.
LEMMA FlowFrom ==
  ASSUME NEW m, NEW e \in Ends, NEW v, NEW w
  PROVE  PolyFlow(m, e[1], v, w)
         = Around3(Vert(m, e), Vert(m, Turn(e, 1)), Vert(m, Turn(e, 2)), v, w)
<1>1. /\ e[2] \in {0, 1, 2} /\ e = <<e[1], e[2]>>
      /\ Turn(e, 1) = <<e[1], IF e[2] = 0 THEN 1 ELSE IF e[2] = 1 THEN 2 ELSE 0>>
      /\ Turn(e, 2) = <<e[1], IF e[2] = 0 THEN 2 ELSE IF e[2] = 1 THEN 0 ELSE 1>>
  BY EndsAre
<1> DEFINE a == Vert(m, <<e[1], 0>>)
           b == Vert(m, <<e[1], 1>>)
           c == Vert(m, <<e[1], 2>>)
<1>2. \A x, y : Arc(x, y, v, w) \in Int
  BY DEF Arc
<1>3. CASE e[2] = 0
  BY <1>1, <1>3 DEF PolyFlow
<1>4. CASE e[2] = 1
  <2>1. Vert(m, e) = b /\ Vert(m, Turn(e, 1)) = c /\ Vert(m, Turn(e, 2)) = a
    BY <1>1, <1>4
  <2>2. PolyFlow(m, e[1], v, w) = Around3(a, b, c, v, w)
    BY DEF PolyFlow
  <2> HIDE DEF a, b, c
  <2> QED BY <1>2, <2>1, <2>2 DEF Around3
<1>5. CASE e[2] = 2
  <2>1. Vert(m, e) = c /\ Vert(m, Turn(e, 1)) = a /\ Vert(m, Turn(e, 2)) = b
    BY <1>1, <1>5
  <2>2. PolyFlow(m, e[1], v, w) = Around3(a, b, c, v, w)
    BY DEF PolyFlow
  <2> HIDE DEF a, b, c
  <2> QED BY <1>2, <2>1, <2>2 DEF Around3
<1> QED BY <1>1, <1>3, <1>4, <1>5

\* An edge and the same edge back cancel.
LEMMA ArcBack ==
  ASSUME NEW a, NEW b, NEW v, NEW w
  PROVE  Arc(a, b, v, w) \in Int /\ Arc(a, b, v, w) = 0 - Arc(b, a, v, w)
BY DEF Arc

\* The flow of a mesh is that of all its polygons.
LEMMA FlowIs ==
  ASSUME NEW m, NEW n,
         \A v, w \in Verts : FlowOf(n, PolysOf(n), v, w) = FlowOf(m, PolysOf(m), v, w)
  PROVE  Flow(n) = Flow(m)
<1>1. \A e \in Verts \X Verts :
        /\ Flow(n)[e] = FlowOf(n, PolysOf(n), e[1], e[2])
        /\ Flow(m)[e] = FlowOf(m, PolysOf(m), e[1], e[2])
  BY DEF Flow, FlowOf, Runs, EndsOf
<1>2. \A e \in Verts \X Verts : Flow(n)[e] = Flow(m)[e]
  BY <1>1
<1> QED BY <1>2 DEF Flow

\* The flow along some polygons is a number.
LEMMA FlowInt ==
  ASSUME NEW m, NEW ps \in SUBSET Polys, NEW v, NEW w
  PROVE  FlowOf(m, ps, v, w) \in Int
<1>1. \A x, y : Runs(m, ps \X (0 .. 2), x, y) \in SUBSET Ends
  BY DEF Runs, Ends
<1>2. \A x, y : Cardinality(Runs(m, ps \X (0 .. 2), x, y)) \in Nat
  BY <1>1, EndsFinite
<1> QED BY <1>2 DEF FlowOf

\* Two polygons more.
LEMMA FlowTwo ==
  ASSUME NEW m, NEW ps \in SUBSET Polys, NEW p \in Polys \ ps, NEW q \in Polys \ ps, p # q,
         NEW v, NEW w
  PROVE  FlowOf(m, ps \cup {p, q}, v, w)
         = FlowOf(m, ps, v, w) + PolyFlow(m, p, v, w) + PolyFlow(m, q, v, w)
<1> DEFINE qs == ps \cup {p}
<1>1. qs \in SUBSET Polys /\ q \notin qs /\ ps \cup {p, q} = qs \cup {q}
  OBVIOUS
<1>2. FlowOf(m, qs, v, w) = FlowOf(m, ps, v, w) + PolyFlow(m, p, v, w)
  BY FlowOne
<1> HIDE DEF qs
<1>3. FlowOf(m, qs \cup {q}, v, w) = FlowOf(m, qs, v, w) + PolyFlow(m, q, v, w)
  BY <1>1, FlowOne
<1> QED BY <1>1, <1>2, <1>3

\* What one polygon adds is a number.
LEMMA PolyFlowInt ==
  ASSUME NEW m, NEW p, NEW v, NEW w
  PROVE  PolyFlow(m, p, v, w) \in Int
BY DEF PolyFlow, Around3, Arc

\* Where the polygons' corners are those they had.
LEMMA FlowStays ==
  ASSUME NEW m, NEW n, NEW ps \in SUBSET PolysOf(m), NEW v, NEW w,
         \A x \in EndsOf(m) : x[1] \in ps => Vert(n, x) = Vert(m, x)
  PROVE  FlowOf(n, ps, v, w) = FlowOf(m, ps, v, w) /\ FlowOf(m, ps, v, w) \in Int
<1>1. ps \in SUBSET Polys
  BY DEF PolysOf
<1>2. \A x \in Ends : x[1] \in ps => x \in EndsOf(m)
  BY EndsAre DEF EndsOf, Ends
<1> QED BY <1>1, <1>2, FlowSame, FlowInt

\* cut_poly() keeps the flow: the edges to the new vertex cancel.
LEMMA CutFlow ==
  ASSUME NEW m, NEW c \in PolysOf(m), NEW p, NEW q \in NewPolys(m), NEW r \in NewPolys(m), q # r,
         NEW n, CutInto(n, m, c, p, q, r)
  PROVE  Flow(n) = Flow(m)
<1> DEFINE R == PolysOf(m) \ {c}
           A == Vert(m, <<c, 0>>)
           B == Vert(m, <<c, 1>>)
           C == Vert(m, <<c, 2>>)
<1>1. /\ PolysOf(n) = PolysOf(m) \cup {q, r}
      /\ \A x \in EndsOf(m) : x # <<c, 2>> => Vert(n, x) = Vert(m, x)
      /\ Vert(n, <<c, 2>>) = p
      /\ Vert(n, <<q, 0>>) = B /\ Vert(n, <<q, 1>>) = C /\ Vert(n, <<q, 2>>) = p
      /\ Vert(n, <<r, 0>>) = C /\ Vert(n, <<r, 1>>) = A /\ Vert(n, <<r, 2>>) = p
  BY DEF CutInto
<1>2. /\ R \in SUBSET PolysOf(m) /\ R \in SUBSET Polys /\ c \in Polys /\ c \notin R
      /\ q \in Polys \ PolysOf(m) /\ r \in Polys \ PolysOf(m)
      /\ PolysOf(m) = R \cup {c}
  BY DEF PolysOf, NewPolys
<1>3. Vert(n, <<c, 0>>) = A /\ Vert(n, <<c, 1>>) = B
  <2>1. <<c, 0>> \in EndsOf(m) /\ <<c, 1>> \in EndsOf(m)
    BY DEF EndsOf
  <2> QED BY <1>1, <2>1
<1>4. \A x \in EndsOf(m) : x[1] \in R => Vert(n, x) = Vert(m, x)
  BY <1>1, <1>2
<1> SUFFICES ASSUME NEW v \in Verts, NEW w \in Verts
             PROVE  FlowOf(n, PolysOf(n), v, w) = FlowOf(m, PolysOf(m), v, w)
  BY FlowIs
<1>5. FlowOf(n, R, v, w) = FlowOf(m, R, v, w) /\ FlowOf(m, R, v, w) \in Int
  BY <1>2, <1>4, FlowStays
<1>6. FlowOf(m, PolysOf(m), v, w) = FlowOf(m, R, v, w) + PolyFlow(m, c, v, w)
  <2> HIDE DEF R
  <2> QED BY <1>2, FlowOne
<1>7. FlowOf(n, PolysOf(n), v, w)
      = FlowOf(n, R, v, w) + PolyFlow(n, c, v, w) + PolyFlow(n, q, v, w) + PolyFlow(n, r, v, w)
  <2> DEFINE S == R \cup {c}
  <2>1. /\ S \in SUBSET Polys /\ q \in Polys \ S /\ r \in Polys \ S
        /\ PolysOf(n) = S \cup {q, r}
    BY <1>1, <1>2
  <2>2. FlowOf(n, S, v, w) = FlowOf(n, R, v, w) + PolyFlow(n, c, v, w)
    <3> HIDE DEF R
    <3> QED BY <1>2, FlowOne
  <2> HIDE DEF S
  <2> QED BY <2>1, <2>2, FlowTwo
<1>8. /\ PolyFlow(m, c, v, w) = Around3(A, B, C, v, w)
      /\ PolyFlow(n, c, v, w) = Around3(A, B, p, v, w)
      /\ PolyFlow(n, q, v, w) = Around3(B, C, p, v, w)
      /\ PolyFlow(n, r, v, w) = Around3(C, A, p, v, w)
  BY <1>1, <1>3 DEF PolyFlow
<1> HIDE DEF A, B, C, R
<1>9. Around3(A, B, p, v, w) + Around3(B, C, p, v, w) + Around3(C, A, p, v, w)
      = Around3(A, B, C, v, w) /\ \A x, y, z : Around3(x, y, z, v, w) \in Int
  <2>1. /\ Arc(A, p, v, w) = 0 - Arc(p, A, v, w) /\ Arc(B, p, v, w) = 0 - Arc(p, B, v, w)
        /\ Arc(C, p, v, w) = 0 - Arc(p, C, v, w)
        /\ \A x, y : Arc(x, y, v, w) \in Int
    BY ArcBack
  <2> QED BY <2>1 DEF Around3
<1> QED BY <1>5, <1>6, <1>7, <1>8, <1>9

\* split_edge() of an edge with a polygon on either side keeps the flow.
LEMMA SplitFlow ==
  ASSUME NEW m, NEW ab \in EndsOf(m), NEW p, NEW q \in NewPolys(m), NEW r \in NewPolys(m), q # r,
         NEW n, SplitInto(n, m, ab, p, q, r)
  PROVE  Flow(n) = Flow(m)
<1> DEFINE ba == m.link[ab]
           P == ab[1]
           Q == ba[1]
           R == PolysOf(m) \ {P, Q}
           A == Vert(m, ab)
           B == Vert(m, Turn(ab, 1))
           C == Vert(m, Turn(ab, 2))
           D == Vert(m, Turn(ba, 2))
<1>1. /\ ba \in EndsOf(m) /\ Q # P /\ Vert(m, ba) = B /\ Vert(m, Turn(ba, 1)) = A
      /\ PolysOf(n) = PolysOf(m) \cup {q, r}
      /\ \A x \in EndsOf(m) : x \notin {Turn(ab, 1), ba} => Vert(n, x) = Vert(m, x)
      /\ Vert(n, Turn(ab, 1)) = p /\ Vert(n, ba) = p
      /\ Vert(n, <<q, 0>>) = p /\ Vert(n, <<q, 1>>) = B /\ Vert(n, <<q, 2>>) = C
      /\ Vert(n, <<r, 0>>) = p /\ Vert(n, <<r, 1>>) = D /\ Vert(n, <<r, 2>>) = B
  BY DEF SplitInto, From, To, Opposite
<1> HIDE DEF ba, A, B, C, D
<1>2. /\ ab \in Ends /\ ba \in Ends /\ P \in PolysOf(m) /\ Q \in PolysOf(m)
      /\ Turn(ab, 1) \in EndsOf(m) /\ Turn(ab, 2) \in EndsOf(m)
      /\ Turn(ba, 1) \in EndsOf(m) /\ Turn(ba, 2) \in EndsOf(m)
  BY <1>1, EndsOfAre DEF EndsOf
<1>3. /\ Turn(ab, 1)[1] = P /\ Turn(ab, 2)[1] = P /\ Turn(ba, 1)[1] = Q /\ Turn(ba, 2)[1] = Q
      /\ Turn(ab, 1) # ab /\ Turn(ab, 2) # Turn(ab, 1)
      /\ Turn(ba, 1) # ba /\ Turn(ba, 2) # ba
  BY <1>2, TurnsAre
<1>4. /\ Vert(n, ab) = A /\ Vert(n, Turn(ab, 2)) = C
      /\ Vert(n, Turn(ba, 1)) = A /\ Vert(n, Turn(ba, 2)) = D
  BY <1>1, <1>2, <1>3 DEF A, C, D
<1> HIDE DEF P, Q
<1>5. /\ R \in SUBSET PolysOf(m) /\ R \in SUBSET Polys /\ P \in Polys \ R /\ Q \in Polys \ R
      /\ q \in Polys \ PolysOf(m) /\ r \in Polys \ PolysOf(m)
      /\ PolysOf(m) = R \cup {P, Q}
  BY <1>2 DEF PolysOf, NewPolys
<1>6. \A x \in EndsOf(m) : x[1] \in R => Vert(n, x) = Vert(m, x)
  BY <1>1, <1>3 DEF P, Q
<1> SUFFICES ASSUME NEW v \in Verts, NEW w \in Verts
             PROVE  FlowOf(n, PolysOf(n), v, w) = FlowOf(m, PolysOf(m), v, w)
  BY FlowIs
<1>7. FlowOf(n, R, v, w) = FlowOf(m, R, v, w) /\ FlowOf(m, R, v, w) \in Int
  BY <1>5, <1>6, FlowStays
<1>8. FlowOf(m, PolysOf(m), v, w) = FlowOf(m, R, v, w) + PolyFlow(m, P, v, w) + PolyFlow(m, Q, v, w)
  <2> HIDE DEF R
  <2> QED BY <1>1, <1>5, FlowTwo
<1>9. FlowOf(n, PolysOf(n), v, w)
      = (FlowOf(n, R, v, w) + PolyFlow(n, P, v, w) + PolyFlow(n, Q, v, w))
        + PolyFlow(n, q, v, w) + PolyFlow(n, r, v, w)
  <2> DEFINE S == R \cup {P, Q}
  <2>1. /\ S \in SUBSET Polys /\ q \in Polys \ S /\ r \in Polys \ S
        /\ PolysOf(n) = S \cup {q, r}
    BY <1>1, <1>5
  <2>2. FlowOf(n, S, v, w) = FlowOf(n, R, v, w) + PolyFlow(n, P, v, w) + PolyFlow(n, Q, v, w)
    <3> HIDE DEF R
    <3> QED BY <1>1, <1>5, FlowTwo
  <2> HIDE DEF S
  <2> QED BY <2>1, <2>2, FlowTwo
<1>10. /\ PolyFlow(m, P, v, w) = Around3(A, B, C, v, w)
       /\ PolyFlow(n, P, v, w) = Around3(A, p, C, v, w)
  BY <1>1, <1>2, <1>4, FlowFrom DEF A, B, C, P
<1>11. /\ PolyFlow(m, Q, v, w) = Around3(B, A, D, v, w)
       /\ PolyFlow(n, Q, v, w) = Around3(p, A, D, v, w)
  BY <1>1, <1>2, <1>4, FlowFrom DEF D, Q
<1>12. /\ PolyFlow(n, q, v, w) = Around3(p, B, C, v, w)
       /\ PolyFlow(n, r, v, w) = Around3(p, D, B, v, w)
  BY <1>1 DEF PolyFlow
<1> HIDE DEF R
<1>13. /\ Around3(A, p, C, v, w) + Around3(p, A, D, v, w)
          + Around3(p, B, C, v, w) + Around3(p, D, B, v, w)
          = Around3(A, B, C, v, w) + Around3(B, A, D, v, w)
       /\ \A x, y, z : Around3(x, y, z, v, w) \in Int
  <2>1. /\ Arc(A, p, v, w) = 0 - Arc(p, A, v, w) /\ Arc(B, p, v, w) = 0 - Arc(p, B, v, w)
        /\ Arc(C, p, v, w) = 0 - Arc(p, C, v, w) /\ Arc(D, p, v, w) = 0 - Arc(p, D, v, w)
        /\ Arc(A, B, v, w) = 0 - Arc(B, A, v, w)
        /\ \A x, y : Arc(x, y, v, w) \in Int
    BY ArcBack
  <2> QED BY <2>1 DEF Around3
<1>14. FlowOf(m, PolysOf(m), v, w)
       = FlowOf(m, R, v, w) + Around3(A, B, C, v, w) + Around3(B, A, D, v, w)
  BY <1>8, <1>10, <1>11
<1>15. FlowOf(n, PolysOf(n), v, w)
       = (FlowOf(m, R, v, w) + Around3(A, p, C, v, w) + Around3(p, A, D, v, w))
         + Around3(p, B, C, v, w) + Around3(p, D, B, v, w)
  BY <1>7, <1>9, <1>10, <1>11, <1>12
<1> DEFINE F == FlowOf(m, R, v, w)
           a == Around3(A, p, C, v, w)
           b == Around3(p, A, D, v, w)
           c == Around3(p, B, C, v, w)
           d == Around3(p, D, B, v, w)
           x == Around3(A, B, C, v, w)
           y == Around3(B, A, D, v, w)
<1>16. F \in Int /\ a \in Int /\ b \in Int /\ c \in Int /\ d \in Int /\ x \in Int /\ y \in Int
  BY <1>7, <1>13
<1>17. a + b + c + d = x + y
  BY <1>13
<1> HIDE DEF F, a, b, c, d, x, y
<1>18. F + x + y = (F + a + b) + c + d
  BY <1>16, <1>17
<1> QED BY <1>14, <1>15, <1>18 DEF F, a, b, c, d, x, y

\* Taking out the two polygons of a flat edge keeps the flow.
LEMMA FlatFlow ==
  ASSUME NEW m, Proper(m), NEW ab \in EndsOf(m), Flat(m, ab), NEW n, FlatWithout(n, m, ab)
  PROVE  Flow(n) = Flow(m)
<1> DEFINE ba == m.link[ab]
           P == ab[1]
           Q == ba[1]
           R == PolysOf(n)
           A == Vert(m, ab)
           B == Vert(m, Turn(ab, 1))
           C == Vert(m, Turn(ab, 2))
<1>1. /\ ba \in EndsOf(m) /\ Q # P
      /\ From(m, Turn(ab, 1)) = To(m, Turn(ba, 2)) /\ To(m, Turn(ab, 1)) = From(m, Turn(ba, 2))
      /\ From(m, Turn(ab, 2)) = To(m, Turn(ba, 1)) /\ To(m, Turn(ab, 2)) = From(m, Turn(ba, 1))
      /\ \A x \in Ends : x \in EndsOf(n) <=> x \in EndsOf(m) /\ x[1] \notin {P, Q}
      /\ \A x \in EndsOf(n) : Vert(n, x) = Vert(m, x)
  BY FlatHas DEF FlatWithout
<1> HIDE DEF ba
<1>2. ab \in Ends /\ ba \in Ends /\ P \in PolysOf(m) /\ Q \in PolysOf(m)
  BY <1>1, EndsOfAre DEF EndsOf
<1>3. Vert(m, ba) = B /\ Vert(m, Turn(ba, 1)) = A /\ Vert(m, Turn(ba, 2)) = C
  <2>1. \A e \in Ends : Turn(Turn(e, 1), 1) = Turn(e, 2) /\ Turn(Turn(e, 2), 1) = e
    BY TurnsAre
  <2> QED BY <1>1, <1>2, <2>1 DEF From, To
<1> HIDE DEF P, Q, A, B, C
<1>4. \A s \in Polys : s \in R <=> s \in PolysOf(m) /\ s \notin {P, Q}
  <2> TAKE s \in Polys
  <2> DEFINE x == <<s, 0>>
  <2>1. x \in Ends /\ x[1] = s
    BY DEF Ends
  <2>2. \A k : x \in EndsOf(k) <=> s \in PolysOf(k)
    BY DEF EndsOf
  <2> HIDE DEF x
  <2> QED BY <1>1, <2>1, <2>2
<1>5. /\ R \in SUBSET PolysOf(m) /\ R \in SUBSET Polys /\ P \in Polys \ R /\ Q \in Polys \ R
      /\ PolysOf(m) = R \cup {P, Q}
  <2>1. PolysOf(m) \in SUBSET Polys /\ R \in SUBSET Polys
    BY DEF PolysOf
  <2> HIDE DEF R
  <2> QED BY <1>2, <1>4, <2>1
<1>6. \A x \in EndsOf(m) : x[1] \in R => Vert(n, x) = Vert(m, x)
  <2>1. \A x \in EndsOf(m) : x \in Ends
    BY EndsOfAre
  <2> HIDE DEF R
  <2> QED BY <1>1, <1>5, <2>1
<1> SUFFICES ASSUME NEW v \in Verts, NEW w \in Verts
             PROVE  FlowOf(n, R, v, w) = FlowOf(m, PolysOf(m), v, w)
  BY FlowIs
<1> HIDE DEF R
<1>7. FlowOf(n, R, v, w) = FlowOf(m, R, v, w) /\ FlowOf(m, R, v, w) \in Int
  BY <1>5, <1>6, FlowStays
<1>8. FlowOf(m, PolysOf(m), v, w) = FlowOf(m, R, v, w) + PolyFlow(m, P, v, w) + PolyFlow(m, Q, v, w)
  BY <1>1, <1>5, FlowTwo
<1>9. PolyFlow(m, P, v, w) = Around3(A, B, C, v, w)
  BY <1>2, FlowFrom DEF A, B, C, P
<1>10. PolyFlow(m, Q, v, w) = Around3(B, A, C, v, w)
  BY <1>2, <1>3, FlowFrom DEF Q
<1>11. Around3(A, B, C, v, w) + Around3(B, A, C, v, w) = 0
  <2>1. /\ Arc(A, B, v, w) = 0 - Arc(B, A, v, w) /\ Arc(B, C, v, w) = 0 - Arc(C, B, v, w)
        /\ Arc(C, A, v, w) = 0 - Arc(A, C, v, w)
        /\ \A x, y : Arc(x, y, v, w) \in Int
    BY ArcBack
  <2> QED BY <2>1 DEF Around3
<1>12. \A x, y, z : Around3(x, y, z, v, w) \in Int
  BY ArcBack DEF Around3
<1> QED BY <1>7, <1>8, <1>9, <1>10, <1>11, <1>12

\* What clean_flat_surfaces_on_edges() does to a polygon keeps the flow.
LEMMA CleanPolyFlow ==
  ASSUME MeshInv, CleanPoly
  PROVE  Flow(mesh') = Flow(mesh)
BY CleanPolyKeeps, FlatFlow DEF FlatCleaned

\* The boundary of the surface is kept by cut_poly(), by split_edge() of an edge with
\* polygons on both sides, and by clean_flat_surfaces_on_edges(), polygon by polygon.
THEOREM BoundaryStays ==
  ASSUME CleansOpen = FALSE
  PROVE  MeshSpec => BoundaryKept
<1> DEFINE Keeping == \/ task = NoTask /\ \E p \in Polys, v \in Verts : CutPoly(p, v)
                      \/ task = NoTask /\ \E e \in Ends \ Open(mesh), v \in Verts : SplitEdge(e, v)
                      \/ CleanPoly
<1>1. ASSUME MeshInv, Keeping PROVE Flow(mesh') = Flow(mesh)
  <2>1. Sound(mesh)
    BY <1>1 DEF MeshInv
  <2>2. ASSUME NEW p \in Polys, NEW v \in Verts, CutPoly(p, v) PROVE Flow(mesh') = Flow(mesh)
    <3>1. /\ Cardinality(NewPolys(mesh)) >= 2 /\ p \in PolysOf(mesh) /\ v \in mesh.verts
          /\ mesh' = Cut(mesh, p, v, FirstNew(mesh), SecondNew(mesh))
      BY <2>2 DEF CutPoly, Becomes
    <3>2. /\ FirstNew(mesh) \in NewPolys(mesh) /\ SecondNew(mesh) \in NewPolys(mesh)
          /\ FirstNew(mesh) # SecondNew(mesh)
      BY <3>1, TwoNew
    <3>3. CutInto(mesh', mesh, p, v, FirstNew(mesh), SecondNew(mesh))
      BY <2>1, <3>1, <3>2, CutSound
    <3> QED BY <3>1, <3>2, <3>3, CutFlow
  <2>3. ASSUME NEW e \in Ends \ Open(mesh), NEW v \in Verts, SplitEdge(e, v)
        PROVE  Flow(mesh') = Flow(mesh)
    <3>1. /\ Cardinality(NewPolys(mesh)) >= 2 /\ e \in EndsOf(mesh)
          /\ Cardinality(VertSet(mesh, e[1])) = 3 /\ v \in mesh.verts
          /\ mesh' = Split(mesh, e, v, FirstNew(mesh), SecondNew(mesh))
          /\ mesh.link[e] # NoEdge
      BY <2>3 DEF SplitEdge, Becomes, Open
    <3>2. /\ FirstNew(mesh) \in NewPolys(mesh) /\ SecondNew(mesh) \in NewPolys(mesh)
          /\ FirstNew(mesh) # SecondNew(mesh)
      BY <3>1, TwoNew
    <3>3. SplitInto(mesh', mesh, e, v, FirstNew(mesh), SecondNew(mesh))
      BY <2>1, <3>1, SplitSound
    <3> QED BY <3>1, <3>2, <3>3, SplitFlow
  <2> QED BY <1>1, <2>2, <2>3, CleanPolyFlow
<1>2. MeshInv /\ [MeshNext]_meshVars => [Keeping => Flow(mesh') = Flow(mesh)]_meshVars
  BY <1>1
<1>3. MeshSpec => []MeshInv
  BY MeshStaysSound
<1> QED BY <1>2, <1>3, PTL DEF MeshSpec, BoundaryKept

----------------------------------------------------------------------------
(* Union_Find *)

ClosedIn(p, S) == \A i \in S : p[i] # NoParent => p[i] \in S

PathOf(p, i) ==
  {j \in DOMAIN p : \A S \in SUBSET DOMAIN p : i \in S /\ ClosedIn(p, S) => j \in S}

RootOf(p, i) == CHOOSE r \in PathOf(p, i) : p[r] = NoParent

RootsIn(p) == {i \in DOMAIN p : p[i] = NoParent}

RootsReached(p) ==
  \A S \in SUBSET DOMAIN p : S # {} /\ ClosedIn(p, S) => S \cap RootsIn(p) # {}

IsForest(p, N) ==
  /\ NoParent \notin N
  /\ p \in [N -> N \cup {NoParent}]
  /\ RootsReached(p)

Members(p, r) == {i \in DOMAIN p : RootOf(p, i) = r}

SetsOf(p) == {Members(p, r) : r \in RootsIn(p)}

\* The data that nodes with these parents should have.
DataOf(p) ==
  [i \in DOMAIN p |-> IF p[i] = NoParent THEN SetToBag(Members(p, i)) ELSE Destructed]

----------------------------------------------------------------------------
(* Paths and roots *)

\* A path begins with its node and is the least closed set with it.
LEMMA PathLeast ==
  ASSUME NEW N, NEW p, IsForest(p, N), NEW i \in N
  PROVE  /\ i \in PathOf(p, i)
         /\ PathOf(p, i) \subseteq N
         /\ ClosedIn(p, PathOf(p, i))
         /\ \A S \in SUBSET N : i \in S /\ ClosedIn(p, S) => PathOf(p, i) \subseteq S
<1>1. DOMAIN p = N
  BY DEF IsForest
<1>2. ClosedIn(p, PathOf(p, i))
  <2> SUFFICES ASSUME NEW j \in PathOf(p, i), p[j] # NoParent PROVE p[j] \in PathOf(p, i)
    BY DEF ClosedIn
  <2>1. p[j] \in N
    BY <1>1 DEF PathOf, IsForest
  <2>2. \A S \in SUBSET N : i \in S /\ ClosedIn(p, S) => p[j] \in S
    BY <1>1 DEF PathOf, ClosedIn
  <2> QED BY <1>1, <2>1, <2>2 DEF PathOf
<1> QED BY <1>1, <1>2 DEF PathOf

\* A path has a root in it.
LEMMA RootOnPath ==
  ASSUME NEW N, NEW p, IsForest(p, N), NEW i \in N
  PROVE  /\ RootOf(p, i) \in PathOf(p, i)
         /\ RootOf(p, i) \in RootsIn(p)
         /\ RootOf(p, i) \in N
<1>1. DOMAIN p = N
  BY DEF IsForest
<1>2. PathOf(p, i) # {} /\ ClosedIn(p, PathOf(p, i)) /\ PathOf(p, i) \in SUBSET N
  BY PathLeast
<1>3. PathOf(p, i) \cap RootsIn(p) # {}
  BY <1>1, <1>2 DEF IsForest, RootsReached
<1>4. \E r \in PathOf(p, i) : p[r] = NoParent
  BY <1>3 DEF RootsIn
<1>5. RootOf(p, i) \in PathOf(p, i) /\ p[RootOf(p, i)] = NoParent
  BY <1>4 DEF RootOf
<1> QED BY <1>1, <1>2, <1>5 DEF RootsIn

\* The path of a node goes on with that of its parent.
LEMMA PathGoesOn ==
  ASSUME NEW N, NEW p, IsForest(p, N), NEW i \in N, p[i] # NoParent
  PROVE  p[i] \in N /\ PathOf(p, i) \subseteq {i} \cup PathOf(p, p[i])
<1>1. p[i] \in N
  BY DEF IsForest
<1>2. /\ p[i] \in PathOf(p, p[i])
      /\ PathOf(p, p[i]) \subseteq N
      /\ ClosedIn(p, PathOf(p, p[i]))
  BY <1>1, PathLeast
<1>3. ClosedIn(p, {i} \cup PathOf(p, p[i]))
  BY <1>2 DEF ClosedIn
<1> QED BY <1>1, <1>2, <1>3, PathLeast

\* The path of a root is the root.
LEMMA PathOfRoot ==
  ASSUME NEW N, NEW p, IsForest(p, N), NEW r \in RootsIn(p)
  PROVE  r \in N /\ PathOf(p, r) = {r} /\ RootOf(p, r) = r
<1>1. r \in N /\ p[r] = NoParent
  BY DEF RootsIn, IsForest
<1>2. ClosedIn(p, {r})
  BY <1>1 DEF ClosedIn
<1>3. PathOf(p, r) = {r}
  BY <1>1, <1>2, PathLeast
<1> QED BY <1>1, <1>3, RootOnPath

\* A path has one root.  The nodes whose paths had two would be closed, and
\* contain a root, whose path has but one.
LEMMA OneRoot ==
  ASSUME NEW N, NEW p, IsForest(p, N), NEW i \in N, NEW r \in PathOf(p, i), r \in RootsIn(p)
  PROVE  r = RootOf(p, i)
<1> DEFINE B == {j \in N : \E s, t \in PathOf(p, j) \cap RootsIn(p) : s # t}
<1>1. SUFFICES ASSUME r # RootOf(p, i) PROVE FALSE
  OBVIOUS
<1>2. i \in B
  BY <1>1, RootOnPath
<1>3. ClosedIn(p, B)
  <2> SUFFICES ASSUME NEW j \in B, p[j] # NoParent PROVE p[j] \in B
    BY DEF ClosedIn
  <2>1. p[j] \in N /\ PathOf(p, j) \subseteq {j} \cup PathOf(p, p[j])
    BY PathGoesOn
  <2>2. j \notin RootsIn(p)
    BY DEF RootsIn
  <2> QED BY <2>1, <2>2
<1>4. B \cap RootsIn(p) # {}
  <2>1. B \in SUBSET DOMAIN p /\ B # {}
    BY <1>2 DEF IsForest
  <2> HIDE DEF B
  <2> QED BY <1>3, <2>1 DEF IsForest, RootsReached
<1>5. PICK t \in B : t \in RootsIn(p)
  BY <1>4
<1> QED BY <1>5, PathOfRoot

\* A node that is no root has the root of its parent.
LEMMA RootOfParent ==
  ASSUME NEW N, NEW p, IsForest(p, N), NEW i \in N, p[i] # NoParent
  PROVE  RootOf(p, i) = RootOf(p, p[i])
<1>1. p[i] \in N /\ PathOf(p, i) \subseteq {i} \cup PathOf(p, p[i])
  BY PathGoesOn
<1>2. RootOf(p, i) \in PathOf(p, i) /\ RootOf(p, i) \in RootsIn(p)
  BY RootOnPath
<1>3. i \notin RootsIn(p)
  BY DEF RootsIn
<1> QED BY <1>1, <1>2, <1>3, OneRoot

\* All nodes of a path have its root.
LEMMA RootAlongPath ==
  ASSUME NEW N, NEW p, IsForest(p, N), NEW i \in N, NEW j \in PathOf(p, i)
  PROVE  j \in N /\ RootOf(p, j) = RootOf(p, i)
<1> DEFINE S == {k \in N : RootOf(p, k) = RootOf(p, i)}
<1>1. ClosedIn(p, S)
  BY RootOfParent, PathGoesOn DEF ClosedIn
<1> QED BY <1>1, PathLeast

\* A function that is the same for a node and its parent, and gives each root
\* to itself, gives each node its root.
LEMMA RootsBy ==
  ASSUME NEW N, NEW p, IsForest(p, N), NEW f,
         \A j \in N : IF p[j] = NoParent THEN f[j] = j ELSE f[j] = f[p[j]]
  PROVE  \A j \in N : RootOf(p, j) = f[j]
<1> TAKE j \in N
<1> DEFINE S == {k \in N : f[k] = f[j]}
<1>1. ClosedIn(p, S)
  BY PathGoesOn DEF ClosedIn
<1>2. RootOf(p, j) \in S
  BY <1>1, PathLeast, RootOnPath
<1>3. p[RootOf(p, j)] = NoParent
  BY RootOnPath DEF RootsIn
<1> QED BY <1>2, <1>3

----------------------------------------------------------------------------
(* What the operations do to a forest *)

\* Path compression: some nodes are hung under their roots.
Shortened(p, q) ==
  /\ DOMAIN q = DOMAIN p
  /\ \A j \in DOMAIN p : q[j] = p[j] \/ (p[j] # NoParent /\ q[j] = RootOf(p, j))

\* It leaves a forest, and no node gets another root.
LEMMA ShortenedForest ==
  ASSUME NEW N, NEW p, IsForest(p, N), NEW q, q \in [N -> N \cup {NoParent}], Shortened(p, q)
  PROVE  /\ IsForest(q, N)
         /\ RootsIn(q) = RootsIn(p)
         /\ \A j \in N : RootOf(q, j) = RootOf(p, j)
<1>1. DOMAIN p = N /\ DOMAIN q = N /\ NoParent \notin N
  BY DEF IsForest
<1>2. \A j \in N : q[j] = NoParent <=> p[j] = NoParent
  BY <1>1, RootOnPath DEF Shortened
<1>3. RootsIn(q) = RootsIn(p)
  BY <1>1, <1>2 DEF RootsIn
<1>4. ASSUME NEW S \in SUBSET N, S # {}, ClosedIn(q, S) PROVE S \cap RootsIn(q) # {}
  <2>1. CASE ClosedIn(p, S)
    BY <1>1, <1>3, <1>4, <2>1 DEF IsForest, RootsReached
  <2>2. CASE ~ClosedIn(p, S)
    <3>1. PICK j \in S : p[j] # NoParent /\ p[j] \notin S
      BY <2>2 DEF ClosedIn
    <3>2. q[j] = RootOf(p, j) /\ q[j] # NoParent
      BY <1>1, <1>2, <1>4, <3>1 DEF Shortened, ClosedIn
    <3>3. q[j] \in S /\ q[j] \in RootsIn(p)
      BY <1>4, <3>2, RootOnPath DEF ClosedIn
    <3> QED BY <1>3, <3>3
  <2> QED BY <2>1, <2>2
<1>5. IsForest(q, N)
  BY <1>1, <1>4 DEF IsForest, RootsReached
<1> DEFINE f == [j \in N |-> RootOf(p, j)]
<1>6. ASSUME NEW j \in N PROVE IF q[j] = NoParent THEN f[j] = j ELSE f[j] = f[q[j]]
  <2>1. CASE q[j] = NoParent
    BY <1>1, <1>2, <2>1, PathOfRoot DEF RootsIn
  <2>2. CASE q[j] # NoParent /\ q[j] = p[j]
    BY <2>2, RootOfParent, PathGoesOn
  <2>3. CASE q[j] # NoParent /\ q[j] = RootOf(p, j)
    BY <2>3, RootOnPath, PathOfRoot
  <2> QED BY <1>1, <2>1, <2>2, <2>3 DEF Shortened
<1>7. \A j \in N : RootOf(q, j) = f[j]
  <2> HIDE DEF f
  <2> QED BY <1>5, <1>6, RootsBy
<1> QED BY <1>3, <1>5, <1>7

\* Hanging a root under another leaves a forest, in which what had the one as
\* its root has the other.
LEMMA LinkedForest ==
  ASSUME NEW N, NEW p, IsForest(p, N), NEW a \in RootsIn(p), NEW b \in RootsIn(p), a # b,
         NEW q, q \in [N -> N \cup {NoParent}], q[a] = b, \A j \in N \ {a} : q[j] = p[j]
  PROVE  /\ IsForest(q, N)
         /\ RootsIn(q) = RootsIn(p) \ {a}
         /\ \A j \in N : RootOf(q, j) = IF RootOf(p, j) = a THEN b ELSE RootOf(p, j)
<1>1. /\ DOMAIN p = N /\ DOMAIN q = N /\ NoParent \notin N
      /\ a \in N /\ b \in N /\ p[a] = NoParent /\ p[b] = NoParent
  BY DEF IsForest, RootsIn
<1>2. RootsIn(q) = RootsIn(p) \ {a}
  BY <1>1 DEF RootsIn
<1>3. ASSUME NEW S \in SUBSET N, S # {}, ClosedIn(q, S) PROVE S \cap RootsIn(q) # {}
  <2>1. CASE a \in S
    BY <1>1, <1>2, <1>3, <2>1 DEF ClosedIn
  <2>2. CASE a \notin S
    <3>1. ClosedIn(p, S)
      BY <1>1, <1>3, <2>2 DEF ClosedIn
    <3>2. S \cap RootsIn(p) # {}
      BY <1>1, <1>3, <3>1 DEF IsForest, RootsReached
    <3> QED BY <1>2, <2>2, <3>2
  <2> QED BY <2>1, <2>2
<1>4. IsForest(q, N)
  BY <1>1, <1>3 DEF IsForest, RootsReached
<1> DEFINE f == [j \in N |-> IF RootOf(p, j) = a THEN b ELSE RootOf(p, j)]
<1>5. ASSUME NEW j \in N PROVE IF q[j] = NoParent THEN f[j] = j ELSE f[j] = f[q[j]]
  <2>1. RootOf(p, a) = a /\ RootOf(p, b) = b
    BY PathOfRoot
  <2>2. CASE j = a
    BY <1>1, <2>1, <2>2
  <2>3. CASE j # a /\ q[j] = NoParent
    <3>1. RootOf(p, j) = j
      BY <1>1, <2>3, PathOfRoot DEF RootsIn
    <3> QED BY <2>3, <3>1
  <2>4. CASE j # a /\ q[j] # NoParent
    <3>1. q[j] = p[j] /\ p[j] \in N /\ RootOf(p, j) = RootOf(p, p[j])
      BY <1>1, <2>4, PathGoesOn, RootOfParent
    <3> QED BY <2>4, <3>1
  <2> QED BY <2>2, <2>3, <2>4
<1>6. \A j \in N : RootOf(q, j) = f[j]
  <2> HIDE DEF f
  <2>1. \A j \in N : IF q[j] = NoParent THEN f[j] = j ELSE f[j] = f[q[j]]
    BY <1>5
  <2> QED BY <1>4, <2>1, RootsBy
<1> QED BY <1>2, <1>4, <1>6

\* A new node without a parent is a root of its own.
LEMMA AddedForest ==
  ASSUME NEW N, NEW p, IsForest(p, N), NEW n, n \notin N, n # NoParent,
         NEW q, q = [i \in N \cup {n} |-> IF i = n THEN NoParent ELSE p[i]]
  PROVE  /\ IsForest(q, N \cup {n})
         /\ RootsIn(q) = RootsIn(p) \cup {n}
         /\ \A j \in N \cup {n} : RootOf(q, j) = IF j = n THEN n ELSE RootOf(p, j)
<1>1. /\ DOMAIN p = N /\ DOMAIN q = N \cup {n} /\ NoParent \notin N \cup {n}
      /\ q \in [N \cup {n} -> N \cup {n} \cup {NoParent}]
      /\ q[n] = NoParent /\ \A j \in N : q[j] = p[j]
  BY DEF IsForest
<1>2. RootsIn(q) = RootsIn(p) \cup {n}
  BY <1>1 DEF RootsIn
<1>3. ASSUME NEW S \in SUBSET (N \cup {n}), S # {}, ClosedIn(q, S) PROVE S \cap RootsIn(q) # {}
  <2>1. CASE n \in S
    BY <1>2, <2>1
  <2>2. CASE n \notin S
    <3>1. S \in SUBSET N /\ ClosedIn(p, S)
      BY <1>1, <1>3, <2>2 DEF ClosedIn
    <3> QED BY <1>1, <1>2, <1>3, <3>1 DEF IsForest, RootsReached
  <2> QED BY <2>1, <2>2
<1>4. IsForest(q, N \cup {n})
  BY <1>1, <1>3 DEF IsForest, RootsReached
<1> DEFINE f == [j \in N \cup {n} |-> IF j = n THEN n ELSE RootOf(p, j)]
<1>5. ASSUME NEW j \in N \cup {n} PROVE IF q[j] = NoParent THEN f[j] = j ELSE f[j] = f[q[j]]
  <2>1. CASE j = n
    BY <1>1, <2>1
  <2>2. CASE j # n /\ q[j] = NoParent
    <3>1. RootOf(p, j) = j
      BY <1>1, <2>2, PathOfRoot DEF RootsIn
    <3> QED BY <2>2, <3>1
  <2>3. CASE j # n /\ q[j] # NoParent
    <3>1. q[j] = p[j] /\ p[j] \in N /\ RootOf(p, j) = RootOf(p, p[j])
      BY <1>1, <2>3, PathGoesOn, RootOfParent
    <3> QED BY <2>3, <3>1
  <2> QED BY <2>1, <2>2, <2>3
<1>6. \A j \in N \cup {n} : RootOf(q, j) = f[j]
  <2> HIDE DEF f
  <2> QED BY <1>4, <1>5, RootsBy
<1> QED BY <1>2, <1>4, <1>6

----------------------------------------------------------------------------
(* What they do to the sets *)

\* Sets do not depend on the way nodes hang under their roots.
LEMMA SameSets ==
  ASSUME NEW N, NEW p, IsForest(p, N), NEW q, IsForest(q, N), RootsIn(q) = RootsIn(p),
         \A j \in N : RootOf(q, j) = RootOf(p, j)
  PROVE  SetsOf(q) = SetsOf(p)
<1>1. DOMAIN p = N /\ DOMAIN q = N
  BY DEF IsForest
<1>2. \A r : Members(q, r) = Members(p, r)
  BY <1>1 DEF Members
<1> QED BY <1>2 DEF SetsOf

\* Hanging one root under another unites their sets.
LEMMA LinkedSets ==
  ASSUME NEW N, NEW p, IsForest(p, N), NEW a \in RootsIn(p), NEW b \in RootsIn(p), a # b,
         NEW q, q \in [N -> N \cup {NoParent}], q[a] = b, \A j \in N \ {a} : q[j] = p[j]
  PROVE  \E A, B \in SetsOf(p) :
           A # B /\ SetsOf(q) = (SetsOf(p) \ {A, B}) \cup {A \cup B}
<1>1. DOMAIN p = N /\ DOMAIN q = N
  BY DEF IsForest
<1>2. /\ RootsIn(q) = RootsIn(p) \ {a}
      /\ \A j \in N : RootOf(q, j) = IF RootOf(p, j) = a THEN b ELSE RootOf(p, j)
  BY LinkedForest
<1>3. \A r \in RootsIn(p) : r \in Members(p, r)
  BY <1>1, PathOfRoot DEF Members
<1>4. \A r, s \in RootsIn(p) : r # s => Members(p, r) # Members(p, s)
  BY <1>3 DEF Members
<1>5. \A r \in RootsIn(p) \ {a, b} : Members(q, r) = Members(p, r)
  BY <1>1, <1>2 DEF Members
<1>6. Members(q, b) = Members(p, a) \cup Members(p, b)
  BY <1>1, <1>2 DEF Members
<1>7. SetsOf(q) = {Members(p, r) : r \in RootsIn(p) \ {a, b}}
                  \cup {Members(p, a) \cup Members(p, b)}
  BY <1>2, <1>5, <1>6 DEF SetsOf
<1>8. {Members(p, r) : r \in RootsIn(p) \ {a, b}} = SetsOf(p) \ {Members(p, a), Members(p, b)}
  BY <1>4 DEF SetsOf
<1>9. Members(p, a) \in SetsOf(p) /\ Members(p, b) \in SetsOf(p)
  BY DEF SetsOf
<1> QED BY <1>4, <1>7, <1>8, <1>9

\* A new node is a set of its own, and was in none.
LEMMA AddedSets ==
  ASSUME NEW N, NEW p, IsForest(p, N), NEW n, n \notin N, n # NoParent,
         NEW q, q = [i \in N \cup {n} |-> IF i = n THEN NoParent ELSE p[i]]
  PROVE  n \notin UNION SetsOf(p) /\ SetsOf(q) = SetsOf(p) \cup {{n}}
<1>1. DOMAIN p = N /\ DOMAIN q = N \cup {n}
  BY DEF IsForest
<1>2. /\ RootsIn(q) = RootsIn(p) \cup {n}
      /\ \A j \in N \cup {n} : RootOf(q, j) = IF j = n THEN n ELSE RootOf(p, j)
  BY AddedForest
<1>3. RootsIn(p) \subseteq N /\ \A j \in N : RootOf(p, j) \in N
  BY <1>1, RootOnPath DEF RootsIn
<1>4. Members(q, n) = {n}
  BY <1>1, <1>2, <1>3 DEF Members
<1>5. \A r \in RootsIn(p) : Members(q, r) = Members(p, r)
  BY <1>1, <1>2, <1>3 DEF Members
<1>6. SetsOf(q) = {Members(p, r) : r \in RootsIn(p)} \cup {{n}}
  BY <1>2, <1>4, <1>5 DEF SetsOf
<1>7. \A r : n \notin Members(p, r)
  BY <1>1 DEF Members
<1> QED BY <1>6, <1>7 DEF SetsOf

----------------------------------------------------------------------------
(* What they do to the data *)

\* Bags that have nothing in common join as the sets do.
LEMMA JoinedBags ==
  ASSUME NEW A, NEW B, A \cap B = {}
  PROVE  SetToBag(B) (+) SetToBag(A) = SetToBag(A \cup B)
<1>1. DOMAIN SetToBag(A) = A /\ DOMAIN SetToBag(B) = B
  BY DEF SetToBag
<1>2. SetToBag(B) (+) SetToBag(A)
        = [e \in B \cup A |-> (IF e \in B THEN 1 ELSE 0) + (IF e \in A THEN 1 ELSE 0)]
  BY <1>1 DEF SetToBag, (+)
<1>3. \A e \in B \cup A : (IF e \in B THEN 1 ELSE 0) + (IF e \in A THEN 1 ELSE 0) = 1
  OBVIOUS
<1> QED BY <1>2, <1>3 DEF SetToBag

\* A lookup leaves the data where they should be.
LEMMA SameData ==
  ASSUME NEW N, NEW p, IsForest(p, N), NEW q, IsForest(q, N), RootsIn(q) = RootsIn(p),
         \A j \in N : RootOf(q, j) = RootOf(p, j)
  PROVE  DataOf(q) = DataOf(p)
<1>1. DOMAIN p = N /\ DOMAIN q = N
  BY DEF IsForest
<1>2. \A r : Members(q, r) = Members(p, r)
  BY <1>1 DEF Members
<1>3. \A j \in N : q[j] = NoParent <=> p[j] = NoParent
  BY <1>1 DEF RootsIn
<1> QED BY <1>1, <1>2, <1>3 DEF DataOf

\* A root that is hung under another has to hand its data over.
LEMMA LinkedData ==
  ASSUME NEW N, NEW p, IsForest(p, N), NEW a \in RootsIn(p), NEW b \in RootsIn(p), a # b,
         NEW q, q \in [N -> N \cup {NoParent}], q[a] = b, \A j \in N \ {a} : q[j] = p[j]
  PROVE  DataOf(q) = [DataOf(p) EXCEPT ![b] = @ (+) DataOf(p)[a], ![a] = Destructed]
<1>1. /\ DOMAIN p = N /\ DOMAIN q = N /\ NoParent \notin N
      /\ a \in N /\ b \in N /\ p[a] = NoParent /\ p[b] = NoParent
  BY DEF IsForest, RootsIn
<1>2. \A j \in N : RootOf(q, j) = IF RootOf(p, j) = a THEN b ELSE RootOf(p, j)
  BY LinkedForest
<1>3. \A r \in N \ {a, b} : Members(q, r) = Members(p, r)
  BY <1>1, <1>2 DEF Members
<1>4. /\ Members(q, b) = Members(p, a) \cup Members(p, b)
      /\ Members(p, a) \cap Members(p, b) = {}
  BY <1>1, <1>2 DEF Members
<1>5. DataOf(p)[a] = SetToBag(Members(p, a)) /\ DataOf(p)[b] = SetToBag(Members(p, b))
  BY <1>1 DEF DataOf
<1>6. DataOf(q)[b] = DataOf(p)[b] (+) DataOf(p)[a]
  <2>1. DataOf(p)[b] (+) DataOf(p)[a] = SetToBag(Members(p, a) \cup Members(p, b))
    BY <1>4, <1>5, JoinedBags
  <2>2. DataOf(q)[b] = SetToBag(Members(q, b))
    BY <1>1 DEF DataOf
  <2> QED BY <1>4, <2>1, <2>2
<1>7. DataOf(q)[a] = Destructed
  BY <1>1 DEF DataOf
<1>8. \A j \in N \ {a, b} : DataOf(q)[j] = DataOf(p)[j]
  BY <1>1, <1>3 DEF DataOf
<1>9. /\ DataOf(p) = [j \in N |-> DataOf(p)[j]]
      /\ DataOf(q) = [j \in N |-> DataOf(q)[j]]
  BY <1>1 DEF DataOf
<1> DEFINE f == DataOf(p)
           g == DataOf(q)
           ab == f[b] (+) f[a]
           none == Destructed
<1>10. /\ f = [j \in N |-> f[j]] /\ g = [j \in N |-> g[j]]
       /\ g[b] = ab /\ g[a] = none /\ \A j \in N \ {a, b} : g[j] = f[j]
  BY <1>6, <1>7, <1>8, <1>9
<1>11. g = [f EXCEPT ![b] = ab, ![a] = none]
  <2> HIDE DEF f, g, ab, none
  <2> QED BY <1>1, <1>10
<1> QED BY <1>11

\* A new node has the data that it was constructed with.
LEMMA AddedData ==
  ASSUME NEW N, NEW p, IsForest(p, N), NEW n, n \notin N, n # NoParent,
         NEW q, q \in [N \cup {n} -> N \cup {NoParent}], q[n] = NoParent,
         \A i \in N : q[i] = p[i]
  PROVE  /\ DataOf(q)[n] = FirstData(n)
         /\ \A i \in N : DataOf(q)[i] = DataOf(p)[i]
<1>1. DOMAIN p = N /\ DOMAIN q = N \cup {n}
  BY DEF IsForest
<1>2. \A j \in N \cup {n} : RootOf(q, j) = IF j = n THEN n ELSE RootOf(p, j)
  <2>1. q = [i \in N \cup {n} |-> IF i = n THEN NoParent ELSE p[i]]
    OBVIOUS
  <2> QED BY <2>1, AddedForest
<1>3. \A j \in N : RootOf(p, j) \in N
  BY RootOnPath
<1>4. Members(q, n) = {n}
  BY <1>1, <1>2, <1>3 DEF Members
<1>5. \A r \in N : Members(q, r) = Members(p, r)
  BY <1>1, <1>2 DEF Members
<1>6. DataOf(q)[n] = FirstData(n)
  BY <1>1, <1>4 DEF DataOf, FirstData
<1>7. \A j \in N : DataOf(q)[j] = DataOf(p)[j]
  BY <1>1, <1>5 DEF DataOf
<1> QED BY <1>6, <1>7

----------------------------------------------------------------------------
(* The operations *)

\* The parents are a forest, and the data are where they should be.
IInv ==
  /\ count \in Int
  /\ \E n \in 0 .. MaxNodes : IsForest(parent, 0 .. n - 1)
  /\ data = DataOf(parent)

\* The module's definitions are those above, of its own parents.
LEMMA OfParent ==
  /\ Nodes = DOMAIN parent
  /\ Roots = RootsIn(parent)
  /\ \A i : Climb(i) = PathOf(parent, i) /\ Find(i) = RootOf(parent, i)
  /\ {SetOf(r) : r \in Roots} = SetsOf(parent)
  /\ FindEnds <=> RootsReached(parent)
  /\ \A r : SetOf(r) = Members(parent, r)
<1>1. Nodes = DOMAIN parent /\ Roots = RootsIn(parent)
  BY DEF Nodes, Roots, RootsIn
<1>2. \A i : Climb(i) = PathOf(parent, i)
  BY DEF Climb, Closed, Nodes, PathOf, ClosedIn
<1>3. \A i : Find(i) = RootOf(parent, i)
  BY <1>2 DEF Find, RootOf
<1>4. \A r : SetOf(r) = Members(parent, r)
  BY <1>1, <1>3 DEF SetOf, Members
<1>5. {SetOf(r) : r \in Roots} = SetsOf(parent)
  BY <1>1, <1>4 DEF SetsOf
<1>6. FindEnds <=> RootsReached(parent)
  BY <1>1 DEF FindEnds, Closed, RootsReached, ClosedIn
<1> QED BY <1>1, <1>2, <1>3, <1>4, <1>5, <1>6

\* A lookup only compresses.
LEMMA CompressedShortens ==
  ASSUME NEW N, IsForest(parent, N), NEW i \in N
  PROVE  /\ Compressed(i) \in [N -> N \cup {NoParent}]
         /\ Shortened(parent, Compressed(i))
<1>1. DOMAIN parent = N /\ Nodes = N /\ parent \in [N -> N \cup {NoParent}]
  BY DEF IsForest, Nodes
<1> DEFINE r == RootOf(parent, i)
           q == [j \in N |-> IF j \in PathOf(parent, i) \ {r} THEN r ELSE parent[j]]
<1>2. Compressed(i) = q
  BY <1>1, OfParent DEF Compressed
<1>3. r \in N
  BY RootOnPath
<1>4. \A j \in PathOf(parent, i) \ {r} : RootOf(parent, j) = r /\ parent[j] # NoParent
  BY <1>1, RootAlongPath, OneRoot, PathLeast DEF RootsIn
<1>5. q \in [N -> N \cup {NoParent}]
  BY <1>1, <1>3
<1>6. Shortened(parent, q)
  BY <1>1, <1>4 DEF Shortened
<1> QED BY <1>2, <1>5, <1>6

\* So do two.
LEMMA BothShorten ==
  ASSUME NEW N, IsForest(parent, N), NEW i \in N, NEW j \in N
  PROVE  /\ BothCompressed(i, j) \in [N -> N \cup {NoParent}]
         /\ Shortened(parent, BothCompressed(i, j))
<1>1. DOMAIN parent = N /\ Nodes = N
  BY DEF IsForest, Nodes
<1>2. /\ Compressed(i) \in [N -> N \cup {NoParent}] /\ Shortened(parent, Compressed(i))
      /\ Compressed(j) \in [N -> N \cup {NoParent}] /\ Shortened(parent, Compressed(j))
  BY CompressedShortens
<1>3. DOMAIN BothCompressed(i, j) = N
  BY <1>1 DEF BothCompressed
<1>4. ASSUME NEW n \in N
      PROVE  BothCompressed(i, j)[n] \in {Compressed(i)[n], Compressed(j)[n]}
  BY <1>1 DEF BothCompressed
<1>5. BothCompressed(i, j) \in [N -> N \cup {NoParent}]
  <2>1. BothCompressed(i, j) = [n \in N |-> BothCompressed(i, j)[n]]
    BY <1>1 DEF BothCompressed
  <2>2. \A n \in N : BothCompressed(i, j)[n] \in N \cup {NoParent}
    BY <1>2, <1>4
  <2> QED BY <2>1, <2>2
<1>6. Shortened(parent, BothCompressed(i, j))
  BY <1>1, <1>2, <1>3, <1>4 DEF Shortened
<1> QED BY <1>5, <1>6

\* A lookup, of one node or of two, changes neither the roots nor the sets.
LEMMA LookupKeeps ==
  ASSUME NEW N, IsForest(parent, N), NEW i \in N, NEW j \in N,
         Lookup(i) \/ Compare(i, j)
  PROVE  /\ IsForest(parent, N)'
         /\ SetsOf(parent') = SetsOf(parent)
         /\ DataOf(parent') = DataOf(parent)
<1>1. parent' \in [N -> N \cup {NoParent}] /\ Shortened(parent, parent')
  BY CompressedShortens, BothShorten DEF Lookup, Compare
<1>2. /\ IsForest(parent', N)
      /\ RootsIn(parent') = RootsIn(parent)
      /\ \A k \in N : RootOf(parent', k) = RootOf(parent, k)
  BY <1>1, ShortenedForest
<1> QED BY <1>2, SameSets, SameData

\* A merge of nodes of one set is a lookup, any other unites two sets.
LEMMA MergeUnites ==
  ASSUME NEW N, IsForest(parent, N), NEW i \in N, NEW j \in N, Merge(i, j)
  PROVE  /\ IsForest(parent, N)'
         /\ \/ count' = count /\ SetsOf(parent') = SetsOf(parent)
            \/ /\ count' = count - 1
               /\ \E A, B \in SetsOf(parent) :
                    A # B /\ SetsOf(parent') = (SetsOf(parent) \ {A, B}) \cup {A \cup B}
         /\ data = DataOf(parent) => data' = DataOf(parent')
<1> DEFINE q == BothCompressed(i, j)
           a == RootOf(parent, i)
           b == RootOf(parent, j)
<1>1. q \in [N -> N \cup {NoParent}] /\ Shortened(parent, q)
  BY BothShorten
<1>2. /\ IsForest(q, N)
      /\ RootsIn(q) = RootsIn(parent)
      /\ \A k \in N : RootOf(q, k) = RootOf(parent, k)
  BY <1>1, ShortenedForest
<1>3. SetsOf(q) = SetsOf(parent) /\ DataOf(q) = DataOf(parent)
  BY <1>2, SameSets, SameData
<1>4. a \in RootsIn(q) /\ b \in RootsIn(q) /\ a \in N /\ b \in N
  BY <1>2, RootOnPath
<1>5. Find(i) = a /\ Find(j) = b
  BY OfParent
<1>6. CASE a = b
  <2>1. parent' = q /\ count' = count /\ data' = data
    BY <1>5, <1>6 DEF Merge, Linked, MergedCount, MergedData
  <2> QED BY <1>2, <1>3, <2>1
<1>7. CASE a # b
  <2>1. parent' = [q EXCEPT ![a] = b] /\ count' = count - 1
    BY <1>5, <1>7 DEF Merge, Linked, MergedCount
  <2>2. /\ parent' \in [N -> N \cup {NoParent}]
        /\ parent'[a] = b
        /\ \A k \in N \ {a} : parent'[k] = q[k]
    BY <1>1, <1>4, <2>1
  <2>3. IsForest(parent', N)
    BY <1>2, <1>4, <1>7, <2>2, LinkedForest
  <2>4. \E A, B \in SetsOf(q) : A # B /\ SetsOf(parent') = (SetsOf(q) \ {A, B}) \cup {A \cup B}
    BY <1>2, <1>4, <1>7, <2>2, LinkedSets
  <2>5. count' = count - 1
    BY <2>1
  <2>6. data = DataOf(parent) => data' = DataOf(parent')
    <3>1. DataOf(parent') = [DataOf(q) EXCEPT ![b] = @ (+) DataOf(q)[a], ![a] = Destructed]
      <4> HIDE DEF q
      <4> QED BY <1>2, <1>4, <1>7, <2>2, LinkedData
    <3>2. data' = [data EXCEPT ![b] = @ (+) data[a], ![a] = Destructed]
      BY <1>5, <1>7 DEF Merge, MergedData
    <3> HIDE DEF q, a, b
    <3> QED BY <1>3, <3>1, <3>2
  <2> HIDE DEF q, a, b
  <2>7. \E A, B \in SetsOf(parent) :
          A # B /\ SetsOf(parent') = (SetsOf(parent) \ {A, B}) \cup {A \cup B}
    BY <1>3, <2>4
  <2> QED BY <2>3, <2>5, <2>6, <2>7
<1> QED BY <1>6, <1>7

\* add() takes the next number, and makes it a set of its own.
LEMMA AddIsNew ==
  ASSUME NEW n \in Nat, IsForest(parent, 0 .. n - 1), Add
  PROVE  /\ IsForest(parent, 0 .. n)'
         /\ n < MaxNodes
         /\ n \notin UNION SetsOf(parent)
         /\ SetsOf(parent') = SetsOf(parent) \cup {{n}}
         /\ data = DataOf(parent) => data' = DataOf(parent')
<1> DEFINE N == 0 .. n - 1
<1>1. Nodes = N
  BY DEF IsForest, Nodes
<1>2. NumNodes = n
  BY <1>1, FS_Interval DEF NumNodes
<1>3. N \cup {n} = 0 .. n /\ n \notin N /\ n # NoParent
  BY DEF NoParent
<1>4. parent' = [k \in N \cup {n} |-> IF k = n THEN NoParent ELSE parent[k]]
  BY <1>2, <1>3 DEF Add
<1>5. IsForest(parent, N)
  OBVIOUS
<1> HIDE DEF N
<1>6. IsForest(parent', N \cup {n})
  BY <1>3, <1>4, <1>5, AddedForest
<1>7. n \notin UNION SetsOf(parent) /\ SetsOf(parent') = SetsOf(parent) \cup {{n}}
  BY <1>3, <1>4, <1>5, AddedSets
<1>8. data = DataOf(parent) => data' = DataOf(parent')
  <2>1. /\ DataOf(parent')[n] = FirstData(n)
        /\ \A k \in N : DataOf(parent')[k] = DataOf(parent)[k]
    <3>1. /\ parent' \in [N \cup {n} -> N \cup {NoParent}] /\ parent'[n] = NoParent
          /\ \A k \in N : parent'[k] = parent[k]
      BY <1>3, <1>4, <1>5 DEF IsForest
    <3> QED BY <1>3, <1>5, <3>1, AddedData
  <2>2. data' = [k \in N \cup {n} |-> IF k = n THEN FirstData(n) ELSE data[k]]
    BY <1>2, <1>3 DEF Add
  <2>3. DataOf(parent') = [k \in N \cup {n} |-> DataOf(parent')[k]]
    BY <1>4 DEF DataOf
  <2> QED BY <2>1, <2>2, <2>3
<1> QED BY <1>2, <1>3, <1>6, <1>7, <1>8 DEF Add

----------------------------------------------------------------------------
(* Theorems *)

\* A forest of n roots.
LEMMA InitForest ==
  ASSUME NEW n \in Nat, NEW p, p = [i \in 0 .. n - 1 |-> NoParent]
  PROVE  /\ IsForest(p, 0 .. n - 1)
         /\ SetsOf(p) = {{i} : i \in 0 .. n - 1}
         /\ DataOf(p) = [i \in 0 .. n - 1 |-> FirstData(i)]
<1> DEFINE N == 0 .. n - 1
<1>1. NoParent \notin N
  BY DEF NoParent
<1>2. DOMAIN p = N /\ p \in [N -> N \cup {NoParent}] /\ RootsIn(p) = N
  BY DEF RootsIn
<1>3. IsForest(p, N)
  BY <1>1, <1>2 DEF IsForest, RootsReached
<1> HIDE DEF N
<1>4. \A i \in N : RootOf(p, i) = i
  BY <1>2, <1>3, PathOfRoot
<1>5. \A i \in N : Members(p, i) = {i}
  BY <1>2, <1>4 DEF Members
<1>6. SetsOf(p) = {{i} : i \in N}
  BY <1>2, <1>5 DEF SetsOf
<1>7. DataOf(p) = [i \in N |-> FirstData(i)]
  BY <1>2, <1>5 DEF DataOf, FirstData
<1> QED BY <1>3, <1>6, <1>7 DEF N

\* Nodes without parents are a forest, each with its own data.
LEMMA InitInv == Init => IInv
<1> SUFFICES ASSUME Init PROVE IInv
  OBVIOUS
<1>1. PICK n \in 0 .. MaxNodes : /\ parent = [i \in 0 .. n - 1 |-> NoParent]
                                  /\ data = [i \in 0 .. n - 1 |-> FirstData(i)]
                                  /\ count = n
  BY DEF Init
<1>2. n \in Nat
  BY NodesAssumption
<1> QED BY <1>1, <1>2, InitForest DEF IInv

\* Every operation leaves a forest, with its data at the roots.
LEMMA NextInv == IInv /\ [Next]_vars => IInv'
<1> SUFFICES ASSUME IInv, [Next]_vars PROVE IInv'
  OBVIOUS
<1>1. PICK n \in 0 .. MaxNodes : IsForest(parent, 0 .. n - 1)
  BY DEF IInv
<1>2. Nodes = 0 .. n - 1 /\ n \in Nat /\ count \in Int /\ data = DataOf(parent)
  BY <1>1, NodesAssumption DEF Nodes, IsForest, IInv
<1>3. ASSUME NEW i \in Nodes, NEW j \in Nodes, Lookup(i) \/ Compare(i, j) PROVE IInv'
  <2>1. IsForest(parent, 0 .. n - 1)' /\ DataOf(parent') = DataOf(parent)
    BY <1>1, <1>2, <1>3, LookupKeeps
  <2>2. count' = count /\ data' = data
    BY <1>3 DEF Lookup, Compare
  <2> QED BY <1>2, <2>1, <2>2 DEF IInv
<1>4. ASSUME NEW i \in Nodes, NEW j \in Nodes, Merge(i, j) PROVE IInv'
  <2>1. /\ IsForest(parent, 0 .. n - 1)' /\ (count' = count \/ count' = count - 1)
        /\ data' = DataOf(parent')
    BY <1>1, <1>2, <1>4, MergeUnites
  <2> QED BY <1>2, <2>1 DEF IInv
<1>5. ASSUME Add PROVE IInv'
  <2>1. IsForest(parent, 0 .. n)' /\ n < MaxNodes /\ data' = DataOf(parent')
    BY <1>1, <1>2, <1>5, AddIsNew
  <2>2. n + 1 \in 0 .. MaxNodes /\ 0 .. n = 0 .. (n + 1) - 1
    BY <1>2, <2>1, NodesAssumption
  <2>3. count' \in Int
    BY <1>2, <1>5 DEF Add
  <2>4. IsForest(parent', 0 .. (n + 1) - 1)
    BY <2>1, <2>2
  <2> QED BY <2>1, <2>2, <2>3, <2>4 DEF IInv
<1>6. CASE AddMovesDestructed
  BY <1>1, <1>2, <1>6 DEF AddMovesDestructed, IInv
<1>7. CASE UNCHANGED vars
  BY <1>1, <1>2, <1>7 DEF vars, IInv
<1> QED BY <1>3, <1>4, <1>5, <1>6, <1>7 DEF Next

\* The parents are always a forest, with its data at the roots.
THEOREM Invariance == Spec => []IInv
BY InitInv, NextInv, PTL DEF Spec

\* Wherever a find starts, its climb comes to a root.
THEOREM FindsEnd == Spec => []FindEnds
<1>1. IInv => FindEnds
  BY OfParent DEF IInv, IsForest
<1> QED BY <1>1, Invariance, PTL

\* The root of each set has the data of all its nodes, each once, however the
\* sets were merged; the data of all other nodes are destructed.
THEOREM DataWhole == Spec => []DataOfWholeSet
<1>1. IInv => DataOfWholeSet
  BY OfParent DEF IInv, DataOf, DataOfWholeSet, Nodes, Roots
<1> QED BY <1>1, Invariance, PTL

\* The sets of the refinement are those of the parents.
LEMMA SetsMapped == {SetOf(r) : r \in Roots} = SetsOf(parent)
BY OfParent

\* Each step of the forest is a step of the partition, or none.
LEMMA NextRefines ==
  IInv /\ [Next]_vars =>
    [Abstract!Next]_<<{SetOf(r) : r \in Roots}, IF aborted THEN count - 1 ELSE count>>
<1> DEFINE sets == {SetOf(r) : r \in Roots}
           size == IF aborted THEN count - 1 ELSE count
<1>1. sets = SetsOf(parent)
  BY SetsMapped
<1>2. (sets = SetsOf(parent))'
  BY SetsMapped, PTL
<1> SUFFICES ASSUME IInv, [Next]_vars PROVE [Abstract!Next]_<<sets, size>>
  OBVIOUS
<1>3. sets' = SetsOf(parent')
  BY <1>2
<1> HIDE DEF sets
<1>4. PICK n \in 0 .. MaxNodes : IsForest(parent, 0 .. n - 1)
  BY DEF IInv
<1>5. Nodes = 0 .. n - 1 /\ n \in Nat /\ count \in Int
  BY <1>4, NodesAssumption DEF Nodes, IsForest, IInv
<1>6. ASSUME NEW i \in Nodes, NEW j \in Nodes, Lookup(i) \/ Compare(i, j)
      PROVE  UNCHANGED <<sets, size>>
  <2>1. sets' = sets
    BY <1>1, <1>3, <1>4, <1>5, <1>6, LookupKeeps
  <2>2. size' = size
    BY <1>6 DEF Lookup, Compare
  <2> QED BY <2>1, <2>2
<1>7. ASSUME NEW i \in Nodes, NEW j \in Nodes, Merge(i, j)
      PROVE  UNCHANGED <<sets, size>> \/ Abstract!Merge
  <2>1. ~aborted /\ aborted' = aborted
    BY <1>7 DEF Merge
  <2>2. \/ count' = count /\ sets' = sets
        \/ /\ count' = count - 1
           /\ \E A, B \in sets : A # B /\ sets' = (sets \ {A, B}) \cup {A \cup B}
    BY <1>1, <1>3, <1>4, <1>5, <1>7, MergeUnites
  <2> QED BY <2>1, <2>2 DEF Abstract!Merge, sets
<1>8. ASSUME Add PROVE Abstract!Add
  <2>1. ~aborted /\ aborted' = aborted /\ count' = count + 1
    BY <1>8 DEF Add
  <2>2. n \in 0 .. MaxNodes - 1 \ UNION sets /\ sets' = sets \cup {{n}}
    BY <1>1, <1>3, <1>4, <1>5, <1>8, AddIsNew, NodesAssumption
  <2> QED BY <2>1, <2>2 DEF Abstract!Add, sets
<1>9. ASSUME AddMovesDestructed PROVE UNCHANGED <<sets, size>>
  <2>1. sets' = sets
    BY <1>1, <1>3, <1>9 DEF AddMovesDestructed
  <2>2. size' = size
    BY <1>5, <1>9 DEF AddMovesDestructed
  <2> QED BY <2>1, <2>2
<1>10. ASSUME UNCHANGED vars PROVE UNCHANGED <<sets, size>>
  BY <1>1, <1>3, <1>10 DEF vars
<1> QED BY <1>6, <1>7, <1>8, <1>9, <1>10 DEF Next, Abstract!Next, sets

\* Union_Find implements a partition: its sets change by a new node or by the
\* union of two, and count() with them, whatever is looked up and compressed in
\* between.
THEOREM Refinement == Spec => Refines
<1>1. ASSUME Init PROVE Abstract!Init
  <2>1. PICK n \in 0 .. MaxNodes : parent = [i \in 0 .. n - 1 |-> NoParent] /\ count = n
    BY <1>1 DEF Init
  <2>2. n \in Nat
    BY NodesAssumption
  <2>3. SetsOf(parent) = {{i} : i \in 0 .. n - 1}
    BY <2>1, <2>2, InitForest
  <2>4. {SetOf(r) : r \in Roots} = {{i} : i \in 0 .. n - 1}
    BY <2>3, SetsMapped, Zenon
  <2>5. (IF aborted THEN count - 1 ELSE count) = n
    BY <1>1, <2>1 DEF Init
  <2> QED BY <2>4, <2>5 DEF Abstract!Init
<1> QED BY <1>1, NextRefines, Invariance, PTL DEF Spec, Refines, Abstract!Spec
============================================================================
