------------------------------ MODULE Graph ------------------------------
(***************************************************************************)
(* salgo's Graph: vertices in an allocator, each with an allocator of its  *)
(* edge ends.  An undirected edge, and a directed one with backlinks, has  *)
(* an end at both of its vertices and the two ends link to each other; a   *)
(* directed edge without backlinks has one end, which names a vertex.      *)
(*                                                                         *)
(* Vertices are erasable.  Where the ends are not, they are in a           *)
(* Dynamic_Array.  A loop over the vertices, or over the ends of a vertex, *)
(* may add edges and erase vertices, its own included.                     *)
(***************************************************************************)
EXTENDS Integers, FiniteSets

CONSTANTS
  NumVerts,   \* the vertices that the graph is constructed with
  MaxEnds,    \* bound: the most ends at one vertex on one side
  MaxEdges,   \* bound: the most edges
  MaxRecords  \* bound: the most edges with data ever added

ASSUME BoundsAssumption == {NumVerts, MaxEnds, MaxEdges, MaxRecords} \subseteq Nat

VARIABLES
  kind,      \* how ends link each other
  erasable,  \* EDGES_ERASABLE
  verts,     \* the constructed vertices of _vs
  link,      \* the links of the constructed ends
  record,    \* the edge's record in _es that an end names
  num_es,    \* the records in _es
  cursor,    \* the loop's iterator: a vertex, an end, or NoCursor
  visited,   \* history: what the loop has visited and is still there
  due,       \* history: what was there when it began, is still, and was not visited
  aborted    \* a DCHECK has failed

config == <<kind, erasable>>
loop_vars == <<cursor, visited, due>>
es_vars == <<record, num_es>>
vars == <<config, verts, link, es_vars, loop_vars, aborted>>

AllVerts == 0 .. NumVerts - 1
Slots == 0 .. MaxEnds - 1
NoSlot == -1
NoVert == -1

Kinds == {"undirected", "directed", "backlinks"}

\* Outs_Link_Outs or Outs_Link_Ins
Links == kind # "directed"

\* A graph has data on its edges; with backlinks they do not compile.
HasEdgeData == kind # "backlinks"

\* outs_ins
EndSides == IF kind = "backlinks" THEN {"out", "in"} ELSE {"out"}

End(v, side, b) == [vert |-> v, side |-> side, slot |-> b]

\* What an end that does not link another end names.
JustVert(v) == End(v, "none", NoSlot)

Ends == DOMAIN link

\* The iterators of loops over vertices have no end.
VertCursor(v) == JustVert(v)
NoCursor == JustVert(NoVert)

----------------------------------------------------------------------------
(* Edges *)

\* The two ends of a new edge link each other.
LinkedBoth(x, y) ==
  [h \in Ends \cup {x, y} |-> IF h = x THEN y ELSE IF h = y THEN x ELSE link[h]]

\* Where a new end at v may go when `ends` are there: Array_Allocator picks any
\* free slot, Dynamic_Array the one after the last.
FreeSlots(v, side, ends) ==
  LET used == {x.slot : x \in {y \in ends : y.vert = v /\ y.side = side}}
  IN  {b \in Slots \ used : erasable \/ b = Cardinality(used)}

\* edges().add(fr, to) with an end at both, the one at fr first.
AddLinked(fr, to) ==
  /\ Links
  /\ \E b, c \in Slots :
       LET x == End(fr, "out", b)
           y == End(to, IF kind = "undirected" THEN "out" ELSE "in", c)
       IN  /\ b \in FreeSlots(fr, "out", Ends)
           /\ c \in FreeSlots(to, y.side, Ends \cup {x})
           /\ x # y
           /\ {x, y} \cap Ends = {}
           /\ link' = LinkedBoth(x, y)

\* edges().add(fr, to), directed and without backlinks.
AddOneWay(fr, to) ==
  /\ ~Links
  /\ \E b \in Slots :
       LET x == End(fr, "out", b)
       IN  /\ b \in FreeSlots(fr, "out", Ends)
           /\ x \notin Ends
           /\ link' = [h \in Ends \cup {x} |-> IF h = x THEN JustVert(to) ELSE link[h]]

\* _es.add(): the new ends name the new record.
AddRecord ==
  IF HasEdgeData
    THEN /\ num_es < MaxRecords
         /\ num_es' = num_es + 1
         /\ record' = [h \in DOMAIN link' |-> IF h \in Ends THEN record[h] ELSE num_es]
    ELSE UNCHANGED es_vars

AddEdge(fr, to) ==
  /\ ~aborted
  /\ Cardinality(Ends) < (IF Links THEN 2 ELSE 1) * MaxEdges
  /\ AddLinked(fr, to) \/ AddOneWay(fr, to)
  /\ AddRecord
  /\ UNCHANGED <<config, verts, loop_vars, aborted>>

----------------------------------------------------------------------------
(* Vertices *)

\* Mutant: leaves out the loops at the vertex.
EndsAcross(v) == {x \in Ends : x.vert = v /\ link[x].vert # v}

EndsAt(v) == {x \in Ends : x.vert = v}

\* Mutants: the partners of the ends stay, or the ends with the slot numbers of
\* the erased vertex's own ends go instead of their partners.
PartnersLeft(v) == {}
PartnersBySlot(v) ==
  {x \in Ends : \E y \in EndsAt(v) : x.vert = link[y].vert /\ x.slot = y.slot}

\* "remove edges": the ends that those of v link are erased.
Partners(v) == IF Links THEN {link[x] : x \in EndsAt(v)} ELSE {}

\* erase() of a vertex accessor.  Without EDGES_ERASABLE the vertex must have
\* no ends; with backlinks erase() does not compile.  The records of the edges
\* stay in _es.
EraseVert(v) ==
  LET gone == EndsAt(v) \cup Partners(v)
  IN  /\ ~aborted
      /\ kind # "backlinks"
      /\ erasable \/ EndsAt(v) = {}
      /\ verts' = verts \ {v}
      /\ link' = [x \in Ends \ gone |-> link[x]]
      /\ record' = [x \in DOMAIN record \ gone |-> record[x]]
      /\ visited' = visited \ (gone \cup {VertCursor(v)})
      /\ due' = due \ (gone \cup {VertCursor(v)})
      /\ UNCHANGED <<config, num_es, cursor, aborted>>

\* Not from a loop over its own ends.
ClientErase(v) ==
  /\ cursor.vert = v => cursor.side = "none"
  /\ EraseVert(v)

----------------------------------------------------------------------------
(* Loops *)

\* The vertices, or the ends on the same side of the same vertex.
SameLoop(c) ==
  IF c.side = "none" THEN {VertCursor(v) : v \in verts}
  ELSE {x \in Ends : x.vert = c.vert /\ x.side = c.side}

\* The position of an iterator in its container.
Position(c) == IF c.side = "none" THEN c.vert ELSE c.slot

Ahead(c) == {x \in SameLoop(c) : Position(x) > Position(c)}

\* Mutant: goes by twos.
FollowingSkipping(c) ==
  LET later == {x \in Ahead(c) : Position(x) > Position(c) + 1}
  IN  IF later = {} THEN NoCursor
      ELSE CHOOSE x \in later : \A y \in later : Position(x) <= Position(y)

\* _increment(): the iterator of the allocator goes to the next that is
\* constructed, or to the end.
Following(c) ==
  IF Ahead(c) = {} THEN NoCursor
  ELSE CHOOSE x \in Ahead(c) : \A y \in Ahead(c) : Position(x) <= Position(y)

\* The loop's body uses what the loop visits: no constructed vertex, no data.
Visit(c, dueNow) ==
  /\ cursor' = c
  /\ IF c = NoCursor
       THEN visited' = {} /\ due' = dueNow /\ UNCHANGED aborted
       ELSE /\ visited' = visited \cup {c}
            /\ due' = dueNow \ {c}
            /\ aborted' = (c.side = "none" /\ c.vert \notin verts)

\* verts().begin(): the vertex 0, whether it is constructed or not.
VertsBegin ==
  /\ ~aborted /\ cursor = NoCursor
  /\ NumVerts > 0
  /\ Visit(VertCursor(0), SameLoop(VertCursor(0)))
  /\ UNCHANGED <<config, verts, link, es_vars>>

\* outs().begin(), ins().begin(): the first constructed end.
EndsBegin(v, side) ==
  LET first == Following(End(v, side, NoSlot))
  IN  /\ ~aborted /\ cursor = NoCursor
      /\ first # NoCursor
      /\ Visit(first, SameLoop(first))
      /\ UNCHANGED <<config, verts, link, es_vars>>

LoopStep ==
  /\ ~aborted /\ cursor # NoCursor
  /\ Visit(Following(cursor), due)
  /\ UNCHANGED <<config, verts, link, es_vars>>

----------------------------------------------------------------------------

\* Graph(verts_size)
GraphInit ==
  /\ kind \in Kinds
  /\ erasable \in BOOLEAN
  /\ verts = AllVerts
  /\ link = [x \in {} |-> x]
  /\ record = link /\ num_es = 0
  /\ cursor = NoCursor
  /\ visited = {} /\ due = {}
  /\ aborted = FALSE

GraphNext ==
  \/ \E fr, to \in verts : AddEdge(fr, to)
  \/ \E v \in verts : ClientErase(v)
  \/ VertsBegin
  \/ \E v \in verts, side \in EndSides : EndsBegin(v, side)
  \/ LoopStep

GraphSpec == GraphInit /\ [][GraphNext]_vars

----------------------------------------------------------------------------
(* Properties *)

Iterators == [vert : AllVerts, side : EndSides \cup {"none"}, slot : Slots \cup {NoSlot}]

\* The types of the vertices, ends and iterators; an end is at a constructed
\* vertex, as erasing a vertex takes its ends with it.
TypeOK ==
  /\ kind \in Kinds
  /\ erasable \in BOOLEAN
  /\ verts \subseteq AllVerts
  /\ Ends \subseteq {End(v, side, b) : v \in verts, side \in EndSides, b \in Slots}
  /\ cursor \in Iterators \cup {NoCursor}
  /\ visited \subseteq Iterators
  /\ due \subseteq SameLoop(cursor)
  /\ aborted \in BOOLEAN

\* The ends that make an edge always link each other, whatever vertices have
\* been erased, loops at one vertex and parallel edges included.
LinksMutual ==
  Links => \A x \in Ends : link[x] \in Ends \ {x} /\ link[link[x]] = x

\* The ends of an edge name one record, and no other end names it, although
\* the slots of erased ends are used again and records are not.
RecordsApart ==
  HasEdgeData => \A x, y \in Ends : record[x] = record[y] <=> y \in {x, link[x]}

\* An edge is its ends, linking each other, and the record that both name.
EdgesWhole == LinksMutual /\ RecordsApart

\* A loop over vertices or ends visits each that has been there since the loop
\* began, and visits it once, although its body adds edges, erases the loop's
\* vertex, or erases the vertex at the other end of the loop's edge.
LoopMeetsEachOnce ==
  IF cursor = NoCursor THEN due = {}
  ELSE due \subseteq Ahead(cursor) /\ Ahead(cursor) \cap visited = {}

\* A loop visits nothing that is not constructed.
NoAbort == ~aborted

\* An edge without backlinks is one as long as the vertex it names is there.
Edges == {{x, link[x]} : x \in {y \in Ends : link[y].vert \in verts}}

Abstract == INSTANCE AbstractGraph WITH edges <- Edges

\* add() adds one edge between the two vertices; erasing a vertex takes exactly
\* the edges at it with it; looping changes nothing.
Refines == Abstract!Spec
==========================================================================
