------------------------------- MODULE Kd -------------------------------
(***************************************************************************)
(* Kd with ERASABLE and COUNTABLE, in a forest with CHILD_LINKS alone: a   *)
(* tree of boxes that is never rebalanced, the search for the closest      *)
(* center, and the visit of the boxes that intersect another one, whose    *)
(* callback erases and inserts any.                                        *)
(*                                                                         *)
(* Coordinates are multiples of 1 / Grid, and sums of them exact.  A bound *)
(* that has not been written is any number, or none: a node's fields are   *)
(* uninitialized floats.  The client erases no box twice.                  *)
(***************************************************************************)
EXTENDS Forest

CONSTANTS
  Dim,      \* the number of axes
  Boxes,    \* the boxes the client inserts: their least and greatest coordinates
  Asked,    \* the boxes whose intersections it asks for
  Points,   \* the points whose closest center it asks for
  Grid,     \* the inverse of the distance of two neighbouring coordinates
  Garbage,  \* what an uninitialized coordinate may be
  Unread,   \* a coordinate that has not been read since
  NaN,      \* one that is not a number
  Far       \* std::numeric_limits<Scalar>::max()

ASSUME DimAssumption == Dim \in Nat \ {0} /\ Grid \in Nat \ {0}
ASSUME GarbageAssumption ==
  Garbage \subseteq Int \cup {NaN} /\ Unread \notin Int /\ NaN \notin Int /\ NaN # Unread
ASSUME BoxesAssumption ==
  /\ \A b \in Boxes \cup Asked : b.min \in [0 .. Dim - 1 -> Int] /\ b.max \in [0 .. Dim - 1 -> Int]
  /\ \A b \in Boxes : \A axis \in 0 .. Dim - 1 : b.min[axis] <= b.max[axis]
  /\ Points \subseteq [0 .. Dim - 1 -> Int]

\* Four times the square of the distance of a point to the center of a box.
Square(x) == x * x
CenterDistSqr(box, point) ==
  LET sum[axis \in 0 .. Dim] ==
        IF axis = 0 THEN 0
        ELSE sum[axis - 1] + Square(box.min[axis - 1] + box.max[axis - 1] - 2 * point[axis - 1])
  IN  sum[Dim]

ASSUME FarAssumption ==
  /\ Far \in Nat /\ 4 * Square(Grid) <= Far
  /\ \A box \in Boxes, point \in Points : CenterDistSqr(box, point) < Far

VARIABLES
  root,     \* _root
  aabb,     \* the box of each node
  l_to,     \* how far its left children reach to the right
  r_fr,     \* how far its right children reach to the left
  erased,   \* the nodes that are marked as erased
  counter,  \* _counter
  search    \* an each_intersecting() under way, or NoSearch

kdVars == <<root, aabb, l_to, r_fr, erased, counter>>
allVars == <<forestVars, kdVars, search>>

NoSearch == [box |-> Unread, stack |-> <<>>, met |-> <<>>, due |-> {}, calling |-> FALSE]

Itself == -1  \* among the sides: the node
NextAxis(axis) == (axis + 1) % Dim

----------------------------------------------------------------------------
(* emplace() *)

\* A turn of the loop: the side that costs less has its bound moved.  What is no
\* number is less than nothing, and stays: the box goes right, past such a bound.
Descend(d, box) ==
  LET n == d.node
      left == /\ NaN \notin {d.l_to[n], d.r_fr[n]}
              /\ box.max[d.axis] - d.l_to[n] < d.r_fr[n] - box.min[d.axis]
      i == IF left THEN 0 ELSE 1
  IN  [d EXCEPT !.l_to[n] = IF left THEN Max({@, box.max[d.axis]}) ELSE @,
                !.r_fr[n] = IF left \/ @ = NaN THEN @ ELSE Min({@, box.min[d.axis]}),
                !.side = i,
                !.found = children[n][i] = NoNode,
                !.node = IF children[n][i] = NoNode THEN n ELSE children[n][i],
                !.axis = IF children[n][i] = NoNode THEN @ ELSE NextAxis(@)]

\* It begins at the root.  Coordinates that have not been read are any.
AtRoot(l, r) ==
  [node |-> root, axis |-> 0, side |-> 0, found |-> FALSE,
   l_to |-> [n \in Nodes |-> IF l_to[n] = Unread THEN l ELSE l_to[n]],
   r_fr |-> [n \in Nodes |-> IF r_fr[n] = Unread THEN r ELSE r_fr[n]]]

\* Where the loop ends, after no more turns than there are nodes.
Descended(box, l, r) ==
  LET after[k \in 0 .. Cardinality(live)] ==
        IF k = 0 THEN AtRoot(l, r)
        ELSE LET d == after[k - 1] IN IF d.found THEN d ELSE Descend(d, box)
  IN  after[Cardinality(live)]

NewNode(n, box) ==
  /\ n \notin live
  /\ live' = live \cup {n}
  /\ aabb' = [aabb EXCEPT ![n] = box]
  /\ counter' = counter + 1
  /\ UNCHANGED <<user, parent, acc, walk, erased>>

InsertRoot(n, box) ==
  /\ root = NoNode
  /\ NewNode(n, box)
  /\ root' = n
  /\ l_to' = [l_to EXCEPT ![n] = box.max[0]]
  /\ r_fr' = [r_fr EXCEPT ![n] = box.min[0]]
  /\ UNCHANGED children

\* A node whose bounds have been read keeps what was found there.
InsertBelow(n, box) ==
  /\ root # NoNode
  /\ NewNode(n, box)
  /\ \E l, r \in Garbage :
       LET d == Descended(box, l, r)
           keep(m, old, new) == IF old[m] = Unread /\ m # d.node THEN Unread ELSE new[m]
       IN  /\ children' = [children EXCEPT ![d.node][d.side] = n]
           /\ l_to' = [m \in Nodes |-> keep(m, l_to, d.l_to)]
           /\ r_fr' = [m \in Nodes |-> keep(m, r_fr, d.r_fr)]
  /\ UNCHANGED root

Insert(n, box) == InsertRoot(n, box) \/ InsertBelow(n, box)

\* Accessor::erase()
EraseBox(n) ==
  /\ n \in live \ erased
  /\ erased' = erased \cup {n}
  /\ counter' = counter - 1
  /\ UNCHANGED <<forestVars, root, aabb, l_to, r_fr>>

----------------------------------------------------------------------------
(* find_closest_center() *)

DistSqr(n, point) == CenterDistSqr(aabb[n], point)

\* The searches go down by recursion: a frame is a node, its axis, and what is
\* to be looked at next: the node itself, its left or its right child.
Frame(n, axis) == [node |-> n, axis |-> axis, next |-> Itself]

NodeDone(stack) ==
  LET top == Last(stack)
  IN  Front(stack) \o <<[top EXCEPT !.next = 1], [top EXCEPT !.next = 0]>>

SideDone(stack, within) ==
  LET top == Last(stack)
      child == children[top.node][top.next]
  IN  IF child # NoNode /\ within THEN Append(Front(stack), Frame(child, NextAxis(top.axis)))
                                   ELSE Front(stack)

\* The bound of the side that a frame looks at.
SideBound(top) == IF top.next = 0 THEN l_to[top.node] ELSE r_fr[top.node]

\* Mutant: only a side that reaches beyond the point is searched.
WithinBeyond(s, point) ==
  LET top == Last(s.stack)
  IN  /\ SideBound(top) # NaN
      /\ IF top.next = 0 THEN point[top.axis] <= l_to[top.node]
                         ELSE r_fr[top.node] <= point[top.axis]

\* The length from the point to a side's bound is compared with the square of
\* the best distance.
Within(s, point) ==
  LET top == Last(s.stack)
      distance == IF top.next = 0 THEN point[top.axis] - l_to[top.node]
                                  ELSE r_fr[top.node] - point[top.axis]
  IN  SideBound(top) # NaN /\ 4 * Grid * distance <= s.dist_sqr

ClosestTurn(s, point) ==
  LET n == Last(s.stack).node
      better == n \notin erased /\ DistSqr(n, point) < s.dist_sqr
  IN  CASE s.stack = <<>> -> s
        [] s.stack # <<>> /\ Last(s.stack).next = Itself ->
             [stack |-> NodeDone(s.stack),
              best |-> IF better THEN n ELSE s.best,
              dist_sqr |-> IF better THEN DistSqr(n, point) ELSE s.dist_sqr]
        [] OTHER -> [s EXCEPT !.stack = SideDone(@, Within(s, point))]

ClosestFrom == [stack |-> <<Frame(root, 0)>>, best |-> NoNode, dist_sqr |-> Far]

\* Each node is looked at once, and each of its sides.
FindClosestCenter(point) ==
  LET turns == 3 * Cardinality(live)
      after[k \in 0 .. turns] ==
        IF k = 0 THEN ClosestFrom ELSE ClosestTurn(after[k - 1], point)
  IN  IF root = NoNode THEN NoNode ELSE after[turns].best

----------------------------------------------------------------------------
(* each_intersecting() *)

Intersects(b, c) ==
  \A axis \in 0 .. Dim - 1 : b.min[axis] <= c.max[axis] /\ c.min[axis] <= b.max[axis]

Wanted(box) == {n \in live \ erased : Intersects(aabb[n], box)}

\* What no search comes to: the right side of a node whose bound is no number.
Hidden == UNION {Below(children[n][1]) : n \in {m \in live : r_fr[m] = NaN}}

EachBegin(box) ==
  /\ search = NoSearch /\ root # NoNode
  /\ search' = [box |-> box, stack |-> <<Frame(root, 0)>>, met |-> <<>>,
                due |-> Wanted(box) \ Hidden, calling |-> FALSE]
  /\ UNCHANGED <<forestVars, kdVars>>

\* The search goes on, with the frame at the top.
Going == search # NoSearch /\ ~search.calling /\ search.stack # <<>>

\* That is of a node that is itself to be looked at.
AtNode == Going /\ Last(search.stack).next = Itself

\* A node that is erased, or elsewhere.
EachPass ==
  /\ AtNode /\ Last(search.stack).node \notin Wanted(search.box)
  /\ search' = [search EXCEPT !.stack = NodeDone(@)]
  /\ UNCHANGED <<forestVars, kdVars>>

\* Another: the callback is called.
EachMeet ==
  /\ AtNode /\ Last(search.stack).node \in Wanted(search.box)
  /\ search' = [search EXCEPT !.stack = NodeDone(@), !.met = Append(@, Last(search.stack).node),
                              !.calling = TRUE]
  /\ UNCHANGED <<forestVars, kdVars>>

\* It returns CONTINUE.
EachContinue ==
  /\ search.calling
  /\ search' = [search EXCEPT !.calling = FALSE]
  /\ UNCHANGED <<forestVars, kdVars>>

\* It returns BREAK.
EachBreak ==
  /\ search.calling
  /\ search' = NoSearch
  /\ UNCHANGED <<forestVars, kdVars>>

\* Mutant: the bound of the left side is the node's own.
ReachesOwn(top, box) ==
  /\ SideBound(top) # NaN
  /\ IF top.next = 0 THEN aabb[top.node].max[top.axis] >= box.min[top.axis]
                     ELSE r_fr[top.node] <= box.max[top.axis]

Reaches(top, box) ==
  /\ SideBound(top) # NaN
  /\ IF top.next = 0 THEN l_to[top.node] >= box.min[top.axis]
                     ELSE r_fr[top.node] <= box.max[top.axis]

EachSide ==
  /\ Going /\ ~AtNode
  /\ search' = [search EXCEPT !.stack = SideDone(@, Reaches(Last(@), search.box))]
  /\ UNCHANGED <<forestVars, kdVars>>

EachEnd ==
  /\ search # NoSearch /\ ~search.calling /\ search.stack = <<>>
  /\ search' = NoSearch
  /\ UNCHANGED <<forestVars, kdVars>>

----------------------------------------------------------------------------
KdInit ==
  /\ root = NoNode /\ erased = {} /\ counter = 0 /\ search = NoSearch
  /\ aabb = [n \in Nodes |-> Unread]
  /\ l_to = [n \in Nodes |-> Unread] /\ r_fr = [n \in Nodes |-> Unread]

\* The client inserts and erases, in its callback too.
KdNext ==
  /\ user = "kd"
  /\ \/ /\ search = NoSearch \/ search.calling
        /\ UNCHANGED search
        /\ \/ \E n \in Nodes, box \in Boxes : Insert(n, box)
           \/ \E n \in Nodes : EraseBox(n)
     \/ \E box \in Asked : EachBegin(box)
     \/ EachPass \/ EachMeet \/ EachContinue \/ EachBreak \/ EachSide \/ EachEnd

Init == ForestInit /\ KdInit /\ user \in {"forest", "kd"}

Next == (ForestNext /\ UNCHANGED <<kdVars, search>>) \/ KdNext

Spec == Init /\ [][Next]_allVars

----------------------------------------------------------------------------
(* Properties *)

\* No box as close as this is left out for one as far as that.  A side is skipped if
\* it is further than the square of the distance found, which may leave out a closer
\* box if that is below 1, but none that is not itself further than that square.
Beats(that, this) == that <= this \/ Square(that) < 4 * Square(Grid) * this

\* find_closest_center() finds a box that is not erased, if there is one that is not
\* hidden, and a closest of those, but for what Beats allows.
ClosestIsClosest ==
  search = NoSearch => \A point \in Points :
    LET found == FindClosestCenter(point)
        others == (live \ erased) \ Hidden
    IN  IF root = NoNode \/ others = {} THEN found = NoNode
        ELSE /\ found \in others
             /\ \A n \in others : Beats(DistSqr(found, point), DistSqr(n, point))

\* each_intersecting() calls its callback once for every box that intersects and is
\* not hidden, other than those erased before its turn, whatever the callbacks erase
\* and insert; and count() is that of the boxes that are not erased.
IntersectingAllMet ==
  /\ IsInjective(search.met)
  /\ search # NoSearch /\ search.stack = <<>> => search.due \ erased \subseteq Range(search.met)
  /\ user = "kd" => counter = Cardinality(live \ erased)
==========================================================================
