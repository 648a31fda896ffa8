----------------------------- MODULE Forest -----------------------------
(***************************************************************************)
(* N_Ary_Forest with two children, PARENT_LINKS and CHILD_LINKS: trees     *)
(* whose nodes are linked and erased through an accessor, which caches the *)
(* links of the node that it erased; and the in-order walk over a tree     *)
(* whose body goes on linking and erasing.                                 *)
(*                                                                         *)
(* The client keeps to what the code asks for: it erases no node twice and *)
(* not the one that a walk stands on, and links no node below itself.      *)
(***************************************************************************)
EXTENDS Integers, FiniteSets, SequencesExt

CONSTANTS
  Nodes,   \* the handles of the forest's allocator
  NoNode   \* an invalid handle

ASSUME NodesAssumption == IsFiniteSet(Nodes) /\ NoNode \notin Nodes

VARIABLES
  user,    \* what the forest is used for
  live,    \* the handles of its nodes
  parent,  \* the links of each node
  children,
  acc,     \* the client's accessor
  walk     \* the in-order walk: where it is, what it has met and has to meet

links == <<live, parent, children>>
forestVars == <<user, links, acc, walk>>

Sides == 0 .. 1  \* left and right
NoChildren == [i \in Sides |-> NoNode]

\* An accessor of h, without cached links.
Accessor(h) == [handle |-> h, just_erased |-> FALSE, parent |-> NoNode, children |-> NoChildren]

NoWalk == [at |-> NoNode, met |-> {}, due |-> {}]

GetParent(a) == IF a.just_erased THEN a.parent ELSE parent[a.handle]
GetChildren(a) == IF a.just_erased THEN a.children ELSE children[a.handle]

IsLeft(n) == children[parent[n]][0] = n

----------------------------------------------------------------------------
(* The trees *)

\* The nodes of S lead to no other.
Closed(S) == \A m \in S : \A i \in Sides : children[m][i] \in S \cup {NoNode}

\* The nodes of the tree below n, itself one of them: those of every closed set
\* with n.
Below(n) ==
  IF n = NoNode THEN {}
  ELSE {m \in Nodes : \A S \in SUBSET Nodes : n \in S /\ Closed(S) => m \in S}

\* The tree that n is in.
TreeOf(n) == UNION {Below(r) : r \in {m \in live : n \in Below(m)}}

\* What comes after n in the order of its tree: left, node, right.
After(n) ==
  IF n = NoNode THEN {}
  ELSE Below(children[n][1]) \cup
       UNION {{m} \cup Below(children[m][1]) : m \in {p \in live : n \in Below(children[p][0])}}

----------------------------------------------------------------------------
(* Nodes and links *)

\* What a walk owes, as the trees are changed: what has gone from its tree is
\* no longer due, what has come to it ahead of the walk is.
WalkOn ==
  \E n \in {walk.at} :
    walk' = IF n = NoNode THEN walk
              ELSE [at |-> n,
                    met |-> walk.met \cap TreeOf(n)',
                    due |-> (walk.due \cap TreeOf(n)') \cup (After(n)' \ TreeOf(n))]

\* emplace()
Emplace(n) ==
  /\ n \notin live
  /\ live' = live \cup {n}
  /\ parent' = [parent EXCEPT ![n] = NoNode]
  /\ children' = [children EXCEPT ![n] = NoChildren]
  /\ acc' = Accessor(n)
  /\ UNCHANGED user /\ WalkOn

\* link_child(), which asserts that there is no child and no parent.
LinkChild(i, c) ==
  LET n == acc.handle
  IN  /\ n \in live /\ ~acc.just_erased
      /\ children[n][i] = NoNode
      /\ c \in live /\ parent[c] = NoNode /\ n \notin Below(c)
      /\ children' = [children EXCEPT ![n][i] = c]
      /\ parent' = [parent EXCEPT ![c] = n]
      /\ UNCHANGED <<user, live, acc>> /\ WalkOn

\* emplace_child(): a new node, linked.
EmplaceChild(i, c) ==
  LET n == acc.handle
  IN  /\ n \in live /\ ~acc.just_erased
      /\ children[n][i] = NoNode
      /\ c \notin live
      /\ live' = live \cup {c}
      /\ children' = [children EXCEPT ![n][i] = c, ![c] = NoChildren]
      /\ parent' = [parent EXCEPT ![c] = n]
      /\ UNCHANGED <<user, acc>> /\ WalkOn

\* on_erase(): the links go to the accessor, the node to the allocator.
EraseUnchecked ==
  /\ acc' = [handle |-> acc.handle, just_erased |-> TRUE,
             parent |-> parent[acc.handle], children |-> children[acc.handle]]
  /\ live' = live \ {acc.handle}

\* Mutant: the children keep their link to the node.
ParentsWithoutKeeping(n) == [parent EXCEPT ![n] = NoNode]

\* The links of the other nodes, without those to n.
ParentsWithout(n) ==
  [m \in Nodes |-> IF m = n \/ parent[m] = n THEN NoNode ELSE parent[m]]
ChildrenWithout(n) ==
  [m \in Nodes |-> IF m = n THEN NoChildren
                   ELSE [i \in Sides |-> IF children[m][i] = n THEN NoNode ELSE children[m][i]]]

\* unlink_and_erase()
UnlinkAndErase ==
  LET n == acc.handle
  IN  /\ n \in live /\ ~acc.just_erased /\ walk.at # n
      /\ EraseUnchecked
      /\ parent' = ParentsWithout(n)
      /\ children' = ChildrenWithout(n)
      /\ UNCHANGED user /\ WalkOn

\* erase(): it has neither a parent nor children.
Erase ==
  LET n == acc.handle
  IN  /\ n \in live /\ ~acc.just_erased /\ walk.at # n
      /\ parent[n] = NoNode /\ children[n] = NoChildren
      /\ EraseUnchecked
      /\ UNCHANGED <<user, parent, children>> /\ WalkOn

\* acc = forest(n), acc = acc.parent(), acc = acc.child(i)
Goto(n) == acc' = Accessor(n) /\ UNCHANGED <<user, links, walk>>
GotoNode(n) == n \in live /\ Goto(n)
GotoParent == acc.handle # NoNode /\ Goto(GetParent(acc))
GotoChild(i) == acc.handle # NoNode /\ Goto(GetChildren(acc)[i])

----------------------------------------------------------------------------
(* The walk *)

\* As far to the left as it goes.
Leftmost[n \in live] == IF children[n][0] = NoNode THEN n ELSE Leftmost[children[n][0]]

\* As far up from a right child as it goes, and to the parent.
UpFromRight[n \in live] ==
  IF parent[n] = NoNode \/ IsLeft(n) THEN parent[n] ELSE UpFromRight[parent[n]]

\* Mutant: one to the right, and no further to the left.
BstNextRight(n) == IF children[n][1] # NoNode THEN children[n][1] ELSE UpFromRight[n]

\* bst_next()
BstNext(n) == IF children[n][1] # NoNode THEN Leftmost[children[n][1]] ELSE UpFromRight[n]

\* Inorder(root).begin()
WalkBegin(root) ==
  /\ walk = NoWalk
  /\ root \in live /\ parent[root] = NoNode
  /\ walk' = [at |-> Leftmost[root], met |-> {Leftmost[root]}, due |-> Below(root)]
  /\ UNCHANGED <<user, links, acc>>

\* increment(); an invalid handle is the end.
WalkStep ==
  /\ walk.at # NoNode
  /\ LET n == BstNext(walk.at)
     IN  walk' = [walk EXCEPT !.at = n, !.met = @ \cup ({n} \ {NoNode})]
  /\ UNCHANGED <<user, links, acc>>

WalkEnd ==
  /\ walk # NoWalk /\ walk.at = NoNode
  /\ walk' = NoWalk
  /\ UNCHANGED <<user, links, acc>>

----------------------------------------------------------------------------
ForestInit ==
  /\ live = {} /\ acc = Accessor(NoNode) /\ walk = NoWalk
  /\ parent = [n \in Nodes |-> NoNode] /\ children = [n \in Nodes |-> NoChildren]

ForestNext ==
  /\ user = "forest"
  /\ \/ \E n \in Nodes : Emplace(n) \/ GotoNode(n)
     \/ \E i \in Sides, n \in Nodes : LinkChild(i, n) \/ EmplaceChild(i, n)
     \/ UnlinkAndErase \/ Erase
     \/ GotoParent
     \/ \E i \in Sides : GotoChild(i)
     \/ \E n \in Nodes : WalkBegin(n)
     \/ WalkStep \/ WalkEnd

----------------------------------------------------------------------------
(* Properties *)

\* The links of live nodes name live nodes and each other, no node is below
\* itself, and an accessor that has erased its node leads on to live nodes.
ForestLinked ==
  user = "forest" =>
    /\ \A n \in live :
         /\ \A i \in Sides : children[n][i] # NoNode =>
              children[n][i] \in live /\ parent[children[n][i]] = n
         /\ parent[n] # NoNode =>
              /\ parent[n] \in live
              /\ \E i \in Sides : children[parent[n]][i] = n /\ children[parent[n]][1 - i] # n
         /\ n \notin UNION {Below(children[n][i]) : i \in Sides}
    /\ acc.just_erased => ({acc.parent} \cup Range(acc.children)) \ {NoNode} \subseteq live

\* A walk meets the nodes of its tree in their order and none twice: what it
\* has met lies behind it, and what it has yet to meet, ahead.
WalkInOrder ==
  /\ walk.due \ walk.met \subseteq After(walk.at)
  /\ After(walk.at) \cap walk.met = {}
==========================================================================
