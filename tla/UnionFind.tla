---------------------------- MODULE UnionFind ----------------------------
(***************************************************************************)
(* Union_Find: a forest of nodes in a Dynamic_Array.  A find compresses the *)
(* path it climbs, merge_with() moves the data of one root into the other  *)
(* and destructs it, and add() may have to move all nodes to a new block.  *)
(*                                                                         *)
(* A handle is an index.  The client may use a handle as long as it likes, *)
(* whether its node is still a root or not.                                *)
(***************************************************************************)
EXTENDS Integers, FiniteSets, Bags

CONSTANT MaxNodes   \* bound: the most nodes that are ever added

ASSUME NodesAssumption == MaxNodes \in Nat

NoParent == -1   \* an invalid handle: the node is a root

\* The data of the client joins in a way that the class does not know.  What has
\* been joined in a node is a bag: the nodes whose first data are in it.
FirstData(i) == SetToBag({i})
Destructed == EmptyBag

VARIABLES
  parent,     \* Node::parent of the nodes, a function from 0 .. domain - 1
  data,       \* Node::data
  capacity,   \* the size of the Dynamic_Array's memory block
  count,      \* COUNTABLE's _count
  trivial,    \* the type of the data is trivially move constructible
  aborted     \* a DCHECK has failed

vars == <<parent, data, capacity, count, trivial, aborted>>

Nodes == DOMAIN parent
NumNodes == Cardinality(Nodes)

Roots == {i \in Nodes : parent[i] = NoParent}

----------------------------------------------------------------------------
(* _find() *)

\* Sets of nodes that no parent leads out of.
Closed(S) == \A i \in S : parent[i] # NoParent => parent[i] \in S

\* The nodes that climbing from i passes, i and its root included.
Climb(i) ==
  {j \in Nodes : \A S \in SUBSET Nodes : i \in S /\ Closed(S) => j \in S}

\* The first loop: up to the root.
Find(i) == CHOOSE r \in Climb(i) : parent[r] = NoParent

\* The second loop: every node of the path is hung under the root.
Compressed(i) ==
  LET r == Find(i)
      Path == Climb(i)
  IN  [j \in Nodes |-> IF j \in Path \ {r} THEN r ELSE parent[j]]

\* operator[], operator() and the accessors' _update()
Lookup(i) ==
  /\ ~aborted
  /\ parent' = Compressed(i)
  /\ UNCHANGED <<data, capacity, count, trivial, aborted>>

----------------------------------------------------------------------------
(* merge_with() *)

\* The parents after both nodes have been looked up.
BothCompressed(i, j) ==
  LET Path == Climb(i)
      above_i == Compressed(i)
      above_j == Compressed(j)
  IN  [n \in Nodes |-> IF n \in Path THEN above_i[n] ELSE above_j[n]]

\* operator==, != of accessors: both are brought up to date first.
Compare(i, j) ==
  /\ ~aborted
  /\ parent' = BothCompressed(i, j)
  /\ UNCHANGED <<data, capacity, count, trivial, aborted>>

\* Mutant: a set is hung under itself.
LinkedUnchecked(i, j) == [BothCompressed(i, j) EXCEPT ![Find(i)] = Find(j)]

\* Mutant: the node of i is hung under j's root, whether it is a root or not.
LinkedUnrooted(i, j) ==
  IF Find(i) = Find(j) THEN BothCompressed(i, j)
  ELSE [BothCompressed(i, j) EXCEPT ![i] = Find(j)]

\* The root of i goes under the root of j, if they are not the same.
Linked(i, j) ==
  IF Find(i) = Find(j) THEN BothCompressed(i, j)
  ELSE [BothCompressed(i, j) EXCEPT ![Find(i)] = Find(j)]

\* Mutant: the data stays where it is as well.
MergedDataKept(a, b) == IF a = b THEN data ELSE [data EXCEPT ![b] = @ (+) data[a]]

\* Node::merge_with(): the data of a goes into that of b and is destructed.
MergedData(a, b) ==
  IF a = b THEN data ELSE [data EXCEPT ![b] = @ (+) data[a], ![a] = Destructed]

MergedCount(a, b) == IF a = b THEN count ELSE count - 1

\* merge(i, j), and merge_with(j) on an accessor of i.
Merge(i, j) ==
  /\ ~aborted
  /\ parent' = Linked(i, j)
  /\ data' = MergedData(Find(i), Find(j))
  /\ count' = MergedCount(Find(i), Find(j))
  /\ UNCHANGED <<capacity, trivial, aborted>>

----------------------------------------------------------------------------
(* add() *)

Full == NumNodes = capacity

\* Dynamic_Array::emplace_back()
GrownCapacity == IF Full THEN ((capacity + 1) * 3) \div 2 ELSE capacity

\* Inplace_Storage of a type that is not trivial moves only what is constructed.
Movable == trivial \/ \A i \in Nodes : data[i] # Destructed

Add ==
  /\ ~aborted
  /\ NumNodes < MaxNodes
  /\ Full => Movable
  /\ capacity' = GrownCapacity
  /\ parent' = [i \in 0 .. NumNodes |-> IF i = NumNodes THEN NoParent ELSE parent[i]]
  /\ data' = [i \in 0 .. NumNodes |-> IF i = NumNodes THEN FirstData(i) ELSE data[i]]
  /\ count' = count + 1
  /\ UNCHANGED <<trivial, aborted>>

\* The nodes have to move, and one of them has its data destructed.  The count
\* is up already.
AddMovesDestructed ==
  /\ ~aborted
  /\ NumNodes < MaxNodes
  /\ Full /\ ~Movable
  /\ count' = count + 1
  /\ aborted' = TRUE
  /\ UNCHANGED <<parent, data, capacity, trivial>>

----------------------------------------------------------------------------

\* Union_Find(initial_size)
Init ==
  /\ \E n \in 0 .. MaxNodes :
       /\ parent = [i \in 0 .. n - 1 |-> NoParent]
       /\ data = [i \in 0 .. n - 1 |-> FirstData(i)]
       /\ capacity = n
       /\ count = n
  /\ trivial \in BOOLEAN
  /\ aborted = FALSE

Next ==
  \/ \E i \in Nodes : Lookup(i)
  \/ \E i, j \in Nodes : Compare(i, j) \/ Merge(i, j)
  \/ Add
  \/ AddMovesDestructed

Spec == Init /\ [][Next]_vars

----------------------------------------------------------------------------
(* Properties *)

\* The climb of _find() ends: wherever it starts, it comes to a root.
FindEnds == \A S \in SUBSET Nodes : S # {} /\ Closed(S) => S \cap Roots # {}

SetOf(r) == {i \in Nodes : Find(i) = r}

\* The root of each set holds the data of all nodes of the set, each once, and
\* no other node has data that is left to be destructed.
DataOfWholeSet ==
  \A i \in Nodes :
    data[i] = IF i \in Roots THEN SetToBag(SetOf(i)) ELSE Destructed

\* The forest is a partition.  add() that is cut short has counted already.
Abstract == INSTANCE AbstractPartition
  WITH sets <- {SetOf(r) : r \in Roots}, size <- IF aborted THEN count - 1 ELSE count

\* add() and merge() are the only changes of the partition, and count() is the
\* number of its sets; the path compression of a lookup is invisible in it.
Refines == Abstract!Spec
==========================================================================
