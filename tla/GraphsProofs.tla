-------------------------- MODULE GraphsProofs --------------------------
(***************************************************************************)
(* Theorems about what is in graph/, and Kd, which is made of it.  For     *)
(* every finite set of nodes: whatever is linked, unlinked and erased, the *)
(* links of N_Ary_Forest join live nodes in trees, and an in-order walk    *)
(* meets the nodes of its tree in their order; whatever boxes are inserted *)
(* and erased, the searches of a kd tree miss none that they are to find.  *)
(* For every number of vertices and every bound: the edges of Graph stay   *)
(* whole, and its loops meet what stays.                                   *)
(***************************************************************************)
EXTENDS Graph, Kd, FiniteSetTheorems, SequenceTheorems, WellFoundedInduction, TLAPS

----------------------------------------------------------------------------
(* Trees *)

Kids == [Nodes -> [Sides -> Nodes \cup {NoNode}]]

ClosedIn(ch, S) == \A m \in S : \A i \in Sides : ch[m][i] \in S \cup {NoNode}

BelowIn(ch, n) ==
  IF n = NoNode THEN {}
  ELSE {m \in Nodes : \A S \in SUBSET Nodes : n \in S /\ ClosedIn(ch, S) => m \in S}

\* No node is below a child of its own.
AcyclicIn(ch) == \A m \in Nodes, i \in Sides : m \notin BelowIn(ch, ch[m][i])

\* What is below n is the least closed set with n.
LEMMA BelowIs ==
  ASSUME NEW ch \in Kids, NEW n \in Nodes
  PROVE  /\ BelowIn(ch, n) \in SUBSET Nodes
         /\ n \in BelowIn(ch, n)
         /\ ClosedIn(ch, BelowIn(ch, n))
         /\ \A S \in SUBSET Nodes : n \in S /\ ClosedIn(ch, S) => BelowIn(ch, n) \subseteq S
<1> DEFINE B == BelowIn(ch, n)
<1>1. n # NoNode
  BY NodesAssumption
<1>2. B = {m \in Nodes : \A S \in SUBSET Nodes : n \in S /\ ClosedIn(ch, S) => m \in S}
  BY <1>1 DEF BelowIn
<1>3. n \in B /\ B \in SUBSET Nodes
  BY <1>2
<1> HIDE DEF B
<1>4. ASSUME NEW m \in B, NEW i \in Sides, ch[m][i] # NoNode PROVE ch[m][i] \in B
  <2>1. ch[m][i] \in Nodes
    BY <1>3, <1>4 DEF Kids
  <2>2. ASSUME NEW S \in SUBSET Nodes, n \in S, ClosedIn(ch, S) PROVE ch[m][i] \in S
    <3>1. m \in S
      BY <1>2, <2>2
    <3> QED BY <1>4, <2>2, <3>1 DEF ClosedIn
  <2> QED BY <1>2, <2>1, <2>2
<1>5. ClosedIn(ch, B)
  BY <1>4 DEF ClosedIn
<1>6. \A S \in SUBSET Nodes : n \in S /\ ClosedIn(ch, S) => B \subseteq S
  BY <1>2
<1> QED BY <1>3, <1>5, <1>6 DEF B

\* What is below a node that is below n is below n.
LEMMA BelowTransitive ==
  ASSUME NEW ch \in Kids, NEW n \in Nodes, NEW m \in BelowIn(ch, n)
  PROVE  m \in Nodes /\ BelowIn(ch, m) \subseteq BelowIn(ch, n)
<1>1. BelowIn(ch, n) \in SUBSET Nodes /\ ClosedIn(ch, BelowIn(ch, n))
  BY BelowIs
<1> QED BY <1>1, BelowIs

\* Nothing is below no node.
LEMMA BelowNone == \A ch : BelowIn(ch, NoNode) = {}
BY DEF BelowIn

\* A link from n to c makes no cycle if n is not below c.
LEMMA LinkAcyclic ==
  ASSUME NEW ch \in Kids, NEW new \in Kids, NEW n \in Nodes, NEW i \in Sides, NEW c \in Nodes,
         \A m \in Nodes, j \in Sides : (m = n /\ j = i) \/ new[m][j] = ch[m][j],
         new[n][i] = c,
         n \notin BelowIn(ch, c),
         AcyclicIn(ch)
  PROVE  AcyclicIn(new)
<1> DEFINE C == BelowIn(ch, c)
<1>1. C \in SUBSET Nodes /\ c \in C /\ ClosedIn(ch, C)
  BY BelowIs
<1>2. ClosedIn(new, C)
  BY <1>1 DEF ClosedIn
<1>3. ASSUME NEW m \in Nodes, NEW j \in Sides, new[m][j] # NoNode,
             m \in BelowIn(new, new[m][j])
      PROVE  FALSE
  <2>1. new[m][j] \in Nodes
    BY <1>3 DEF Kids
  <2>2. CASE m = n /\ j = i
    <3>1. BelowIn(new, c) \subseteq C
      BY <1>1, <1>2, BelowIs
    <3> QED BY <1>3, <2>2, <3>1
  <2>3. CASE ~(m = n /\ j = i)
    <3> DEFINE d == ch[m][j]
               D == BelowIn(ch, d)
    <3>1. new[m][j] = d /\ d \in Nodes
      BY <2>1, <2>3
    <3>2. D \in SUBSET Nodes /\ d \in D /\ ClosedIn(ch, D) /\ m \notin D
      BY <3>1, BelowIs DEF AcyclicIn
    <3>3. CASE n \notin D
      <4>1. ClosedIn(new, D)
        BY <3>2, <3>3 DEF ClosedIn
      <4>2. BelowIn(new, d) \subseteq D
        BY <3>1, <3>2, <4>1, BelowIs
      <4> QED BY <1>3, <3>1, <3>2, <4>2
    <3>4. CASE n \in D
      <4>1. ClosedIn(new, D \cup C)
        BY <1>1, <1>2, <3>2 DEF ClosedIn
      <4>2. BelowIn(new, d) \subseteq D \cup C
        BY <1>1, <3>1, <3>2, <4>1, BelowIs
      <4>3. m \in C
        BY <1>3, <3>1, <3>2, <4>2
      <4>4. d \in C
        BY <1>1, <3>1, <4>3, NodesAssumption DEF ClosedIn
      <4>5. D \subseteq C
        BY <4>4, BelowTransitive
      <4> QED BY <3>4, <4>5
    <3> QED BY <3>3, <3>4
  <2> QED BY <2>2, <2>3
<1> QED BY <1>3, BelowNone DEF AcyclicIn

\* Nor does leaving links out.
LEMMA UnlinkAcyclic ==
  ASSUME NEW ch \in Kids, NEW new \in Kids,
         \A m \in Nodes, j \in Sides : new[m][j] \in {ch[m][j], NoNode},
         AcyclicIn(ch)
  PROVE  AcyclicIn(new)
<1>1. ASSUME NEW m \in Nodes, NEW j \in Sides, new[m][j] # NoNode,
             m \in BelowIn(new, new[m][j])
      PROVE  FALSE
  <2> DEFINE d == ch[m][j]
             D == BelowIn(ch, d)
  <2>1. new[m][j] = d /\ d \in Nodes
    BY <1>1 DEF Kids
  <2>2. D \in SUBSET Nodes /\ d \in D /\ ClosedIn(ch, D) /\ m \notin D
    BY <2>1, BelowIs DEF AcyclicIn
  <2>3. ClosedIn(new, D)
    BY <2>2 DEF ClosedIn
  <2>4. BelowIn(new, d) \subseteq D
    BY <2>1, <2>2, <2>3, BelowIs
  <2> QED BY <1>1, <2>1, <2>2, <2>4
<1> QED BY <1>1, BelowNone DEF AcyclicIn

----------------------------------------------------------------------------
(* The links *)

\* Links name live nodes and each other; a handle that is not live has none.
LinkedIn(L, up, ch) ==
  /\ L \in SUBSET Nodes
  /\ up \in [Nodes -> Nodes \cup {NoNode}] /\ ch \in Kids
  /\ \A n \in Nodes, i \in Sides : ch[n][i] # NoNode =>
       n \in L /\ ch[n][i] \in L /\ up[ch[n][i]] = n
  /\ \A n \in Nodes : up[n] # NoNode =>
       n \in L /\ up[n] \in L /\ \E i \in Sides : ch[up[n]][i] = n /\ ch[up[n]][1 - i] # n
  /\ AcyclicIn(ch)

\* The accessor, with or without cached links.
AccIn(a, L) ==
  /\ a.handle \in Nodes \cup {NoNode} /\ a.parent \in Nodes \cup {NoNode}
  /\ a.children \in [Sides -> Nodes \cup {NoNode}] /\ a.just_erased \in BOOLEAN
  /\ a.just_erased =>
       a.parent \in L \cup {NoNode} /\ \A i \in Sides : a.children[i] \in L \cup {NoNode}

ForestInv == user = "forest" => LinkedIn(live, parent, children) /\ AccIn(acc, live)

\* What is below a node, before and after a step.
LEMMA BelowSame ==
  /\ \A n : Below(n) = BelowIn(children, n)
  /\ \A n : Below(n)' = BelowIn(children', n)
<1>1. \A n : Below(n) = BelowIn(children, n)
  BY DEF Below, BelowIn, Closed, ClosedIn
<1>2. \A n : Below(n)' = BelowIn(children', n)
  BY DEF Below, BelowIn, Closed, ClosedIn
<1> QED BY <1>1, <1>2

\* c, which has no parent and not n below it, becomes a child of n.
Linking(L, up, ch, K, upAfter, chAfter, n, i, c) ==
  /\ LinkedIn(L, up, ch)
  /\ L \subseteq K /\ K \in SUBSET Nodes
  /\ n \in L /\ i \in Sides /\ c \in K
  /\ ch[n][i] = NoNode /\ up[c] = NoNode /\ n \notin BelowIn(ch, c)
  /\ upAfter \in [Nodes -> Nodes \cup {NoNode}] /\ chAfter \in Kids
  /\ upAfter[c] = n /\ \A m \in Nodes : m # c => upAfter[m] = up[m]
  /\ chAfter[n][i] = c
  /\ \A m \in Nodes, j \in Sides : (m = n /\ j = i) \/ chAfter[m][j] = ch[m][j]

\* Then all are linked.
LEMMA LinkedAfterLink ==
  ASSUME NEW L, NEW up, NEW ch, NEW K, NEW upAfter, NEW chAfter, NEW n, NEW i, NEW c,
         Linking(L, up, ch, K, upAfter, chAfter, n, i, c)
  PROVE  LinkedIn(K, upAfter, chAfter)
<1> USE DEF Linking
<1>1. /\ n \in Nodes /\ c \in Nodes /\ n # NoNode /\ c # NoNode
      /\ up \in [Nodes -> Nodes \cup {NoNode}]
      /\ ch \in Kids /\ AcyclicIn(ch)
  BY NodesAssumption DEF LinkedIn
<1>2. AcyclicIn(chAfter)
  BY <1>1, LinkAcyclic
<1>3. \A m \in Nodes, j \in Sides : ch[m][j] # c
  BY <1>1, NodesAssumption DEF LinkedIn
<1>4. ASSUME NEW m \in Nodes, NEW j \in Sides, chAfter[m][j] # NoNode
      PROVE  m \in K /\ chAfter[m][j] \in K /\ upAfter[chAfter[m][j]] = m
  <2>1. CASE m = n /\ j = i
    BY <2>1
  <2>2. CASE ~(m = n /\ j = i)
    <3>1. chAfter[m][j] = ch[m][j] /\ ch[m][j] # c
      BY <1>3, <2>2
    <3>2. m \in L /\ ch[m][j] \in L /\ up[ch[m][j]] = m
      BY <1>4, <3>1 DEF LinkedIn
    <3> QED BY <3>1, <3>2
  <2> QED BY <2>1, <2>2
<1>5. ASSUME NEW m \in Nodes, upAfter[m] # NoNode
      PROVE  /\ m \in K /\ upAfter[m] \in K
             /\ \E j \in Sides : chAfter[upAfter[m]][j] = m /\ chAfter[upAfter[m]][1 - j] # m
  <2>1. CASE m = c
    <3>1. 1 - i \in Sides /\ 1 - i # i
      BY DEF Sides
    <3>2. chAfter[n][1 - i] # c
      BY <1>1, <1>3, <3>1
    <3> QED BY <2>1, <3>2
  <2>2. CASE m # c
    <3> DEFINE p == up[m]
    <3>1. upAfter[m] = p
      BY <2>2
    <3>2. m \in L /\ p \in L /\ \E j \in Sides : ch[p][j] = m /\ ch[p][1 - j] # m
      BY <1>5, <3>1 DEF LinkedIn
    <3>3. PICK j \in Sides : ch[p][j] = m /\ ch[p][1 - j] # m
      BY <3>2
    <3>4. 1 - j \in Sides /\ p \in Nodes /\ m # NoNode
      BY <3>2, NodesAssumption DEF Sides, LinkedIn
    <3>5. chAfter[p][j] = m
      BY <1>1, <3>3, <3>4
    <3>6. chAfter[p][1 - j] # m
      BY <2>2, <3>3, <3>4
    <3> QED BY <3>1, <3>2, <3>5, <3>6
  <2> QED BY <2>1, <2>2
<1> QED BY <1>2, <1>4, <1>5 DEF LinkedIn

\* Unlinking n, which leaves.
LEMMA LinkedAfterUnlink ==
  ASSUME NEW L, NEW up, NEW ch, LinkedIn(L, up, ch), NEW n \in L,
         NEW upAfter \in [Nodes -> Nodes \cup {NoNode}], NEW chAfter \in Kids,
         \A m \in Nodes : upAfter[m] = IF m = n \/ up[m] = n THEN NoNode ELSE up[m],
         \A m \in Nodes, j \in Sides :
           chAfter[m][j] = IF m = n \/ ch[m][j] = n THEN NoNode ELSE ch[m][j]
  PROVE  LinkedIn(L \ {n}, upAfter, chAfter)
<1>1. n \in Nodes /\ n # NoNode /\ up \in [Nodes -> Nodes \cup {NoNode}] /\ ch \in Kids
      /\ AcyclicIn(ch)
  BY NodesAssumption DEF LinkedIn
<1>2. AcyclicIn(chAfter)
  BY <1>1, UnlinkAcyclic
<1>3. ASSUME NEW m \in Nodes, NEW j \in Sides, chAfter[m][j] # NoNode
      PROVE  m \in L \ {n} /\ chAfter[m][j] \in L \ {n} /\ upAfter[chAfter[m][j]] = m
  <2>1. chAfter[m][j] = ch[m][j] /\ m # n /\ ch[m][j] # n
    BY <1>3
  <2>2. m \in L /\ ch[m][j] \in L /\ up[ch[m][j]] = m
    BY <1>3, <2>1 DEF LinkedIn
  <2>3. ch[m][j] \in Nodes
    BY <2>2 DEF LinkedIn
  <2> QED BY <2>1, <2>2, <2>3
<1>4. ASSUME NEW m \in Nodes, upAfter[m] # NoNode
      PROVE  /\ m \in L \ {n} /\ upAfter[m] \in L \ {n}
             /\ \E j \in Sides : chAfter[upAfter[m]][j] = m /\ chAfter[upAfter[m]][1 - j] # m
  <2> DEFINE p == up[m]
  <2>1. upAfter[m] = p /\ m # n /\ p # n
    BY <1>4
  <2>2. m \in L /\ p \in L /\ \E j \in Sides : ch[p][j] = m /\ ch[p][1 - j] # m
    BY <1>4, <2>1 DEF LinkedIn
  <2>3. PICK j \in Sides : ch[p][j] = m /\ ch[p][1 - j] # m
    BY <2>2
  <2>4. 1 - j \in Sides /\ p \in Nodes /\ m # NoNode
    BY <2>2, NodesAssumption DEF Sides, LinkedIn
  <2>5. chAfter[p][j] = m
    BY <2>1, <2>3, <2>4
  <2>6. chAfter[p][1 - j] # m
    BY <2>1, <2>3, <2>4
  <2> QED BY <2>1, <2>2, <2>5, <2>6
<1>5. L \ {n} \in SUBSET Nodes
  BY DEF LinkedIn
<1> QED BY <1>2, <1>3, <1>4, <1>5 DEF LinkedIn

\* A set that has all live nodes may grow; one that loses nodes without links may
\* shrink.
LEMMA LinkedSame ==
  ASSUME NEW L, NEW up, NEW ch, LinkedIn(L, up, ch), NEW K \in SUBSET Nodes,
         \A n \in L \ K : up[n] = NoNode /\ \A i \in Sides : ch[n][i] = NoNode
  PROVE  LinkedIn(K, up, ch)
<1>1. ASSUME NEW n \in Nodes, NEW i \in Sides, ch[n][i] # NoNode
      PROVE  n \in K /\ ch[n][i] \in K /\ up[ch[n][i]] = n
  <2>1. n \in L /\ ch[n][i] \in L /\ up[ch[n][i]] = n /\ n # NoNode
    BY <1>1, NodesAssumption DEF LinkedIn
  <2> QED BY <1>1, <2>1
<1>2. ASSUME NEW n \in Nodes, up[n] # NoNode
      PROVE  /\ n \in K /\ up[n] \in K
             /\ \E i \in Sides : ch[up[n]][i] = n /\ ch[up[n]][1 - i] # n
  <2>1. /\ n \in L /\ up[n] \in L /\ n # NoNode
        /\ \E i \in Sides : ch[up[n]][i] = n /\ ch[up[n]][1 - i] # n
    BY <1>2, NodesAssumption DEF LinkedIn
  <2> QED BY <1>2, <2>1
<1>3. up \in [Nodes -> Nodes \cup {NoNode}] /\ ch \in Kids /\ AcyclicIn(ch)
  BY DEF LinkedIn
<1> QED BY <1>1, <1>2, <1>3 DEF LinkedIn

----------------------------------------------------------------------------
(* Steps *)

\* It holds of an empty forest.
LEMMA ForestInvInit == Init => ForestInv
<1> SUFFICES ASSUME Init PROVE ForestInv
  OBVIOUS
<1>1. live = {} /\ acc = Accessor(NoNode)
      /\ parent = [n \in Nodes |-> NoNode] /\ children = [n \in Nodes |-> NoChildren]
  BY DEF Init, ForestInit
<1>2. children \in Kids /\ \A n \in Nodes, i \in Sides : children[n][i] = NoNode
  BY <1>1 DEF Kids, NoChildren
<1>3. AcyclicIn(children)
  BY <1>2, BelowNone DEF AcyclicIn
<1>4. LinkedIn(live, parent, children)
  BY <1>1, <1>2, <1>3 DEF LinkedIn
<1>5. AccIn(acc, live)
  BY <1>1 DEF AccIn, Accessor, NoChildren
<1> QED BY <1>4, <1>5 DEF ForestInv

\* A new accessor has no cached links.
LEMMA NewAccessor ==
  ASSUME NEW n \in Nodes \cup {NoNode}, NEW L
  PROVE  AccIn(Accessor(n), L)
BY DEF AccIn, Accessor, NoChildren

\* The set of live nodes of an accessor that has not erased may change.
LEMMA AccSame ==
  ASSUME NEW a, NEW L, NEW K, AccIn(a, L), ~a.just_erased
  PROVE  AccIn(a, K)
BY DEF AccIn

\* emplace()
LEMMA EmplaceKeeps ==
  ASSUME ForestInv, user = "forest", NEW n \in Nodes, Emplace(n)
  PROVE  ForestInv'
<1>1. /\ LinkedIn(live, parent, children)
      /\ n \notin live /\ live' = live \cup {n} /\ acc' = Accessor(n)
      /\ parent' = [parent EXCEPT ![n] = NoNode]
      /\ children' = [children EXCEPT ![n] = NoChildren]
  BY DEF ForestInv, Emplace
<1>2. parent \in [Nodes -> Nodes \cup {NoNode}] /\ children \in Kids
  BY <1>1 DEF LinkedIn
<1>3. parent[n] = NoNode /\ \A i \in Sides : children[n][i] = NoNode
  BY <1>1 DEF LinkedIn
<1>4. children[n] = NoChildren
  BY <1>2, <1>3 DEF Kids, NoChildren
<1>5. parent' = parent /\ children' = children
  BY <1>1, <1>2, <1>3, <1>4 DEF Kids
<1>6. live' \in SUBSET Nodes
  BY <1>1 DEF LinkedIn
<1>7. LinkedIn(live', parent, children)
  BY <1>1, <1>6, LinkedSame
<1>8. AccIn(acc', live')
  BY <1>1, NewAccessor
<1> QED BY <1>5, <1>7, <1>8 DEF ForestInv

\* link_child()
LEMMA LinkChildKeeps ==
  ASSUME ForestInv, user = "forest", NEW i \in Sides, NEW c \in Nodes, LinkChild(i, c)
  PROVE  ForestInv'
<1> DEFINE n == acc.handle
<1>1. /\ LinkedIn(live, parent, children) /\ AccIn(acc, live)
      /\ n \in live /\ ~acc.just_erased /\ children[n][i] = NoNode
      /\ c \in live /\ parent[c] = NoNode /\ n \notin Below(c)
      /\ children' = [children EXCEPT ![n][i] = c]
      /\ parent' = [parent EXCEPT ![c] = n]
      /\ UNCHANGED <<user, live, acc>>
  BY DEF ForestInv, LinkChild
<1>2. parent \in [Nodes -> Nodes \cup {NoNode}] /\ children \in Kids /\ live \in SUBSET Nodes
  BY <1>1 DEF LinkedIn
<1> HIDE DEF n
<1>3. /\ parent' \in [Nodes -> Nodes \cup {NoNode}]
      /\ parent'[c] = n /\ \A m \in Nodes : m # c => parent'[m] = parent[m]
  BY <1>1, <1>2
<1>4. /\ children' \in Kids /\ children'[n][i] = c
      /\ \A m \in Nodes, j \in Sides : (m = n /\ j = i) \/ children'[m][j] = children[m][j]
  BY <1>1, <1>2 DEF Kids
<1>5. n \notin BelowIn(children, c)
  BY <1>1, BelowSame
<1>6. LinkedIn(live, parent', children')
  <2>1. Linking(live, parent, children, live, parent', children', n, i, c)
    BY <1>1, <1>2, <1>3, <1>4, <1>5 DEF Linking
  <2> QED BY <2>1, LinkedAfterLink
<1> QED BY <1>1, <1>6 DEF ForestInv

\* emplace_child()
LEMMA EmplaceChildKeeps ==
  ASSUME ForestInv, user = "forest", NEW i \in Sides, NEW c \in Nodes, EmplaceChild(i, c)
  PROVE  ForestInv'
<1> DEFINE n == acc.handle
<1>1. /\ LinkedIn(live, parent, children) /\ AccIn(acc, live)
      /\ n \in live /\ ~acc.just_erased /\ children[n][i] = NoNode
      /\ c \notin live /\ live' = live \cup {c}
      /\ children' = [children EXCEPT ![n][i] = c, ![c] = NoChildren]
      /\ parent' = [parent EXCEPT ![c] = n]
      /\ UNCHANGED <<user, acc>>
  BY DEF ForestInv, EmplaceChild
<1>2. parent \in [Nodes -> Nodes \cup {NoNode}] /\ children \in Kids /\ live \in SUBSET Nodes
  BY <1>1 DEF LinkedIn
<1> HIDE DEF n
<1>3. /\ parent' \in [Nodes -> Nodes \cup {NoNode}]
      /\ parent'[c] = n /\ \A m \in Nodes : m # c => parent'[m] = parent[m]
  BY <1>1, <1>2
<1>4. parent[c] = NoNode /\ \A j \in Sides : children[c][j] = NoNode
  BY <1>1 DEF LinkedIn
<1>5. children[c] = NoChildren /\ c # n
  BY <1>1, <1>2, <1>4 DEF Kids, NoChildren
<1>6. children' = [children EXCEPT ![n] = [@ EXCEPT ![i] = c]]
  <2> DEFINE f == [children EXCEPT ![n] = [@ EXCEPT ![i] = c]]
  <2>1. f \in Kids /\ f[c] = NoChildren
    BY <1>2, <1>5 DEF Kids
  <2>2. children' = [f EXCEPT ![c] = NoChildren]
    BY <1>1
  <2> HIDE DEF f
  <2>3. children' = f
    BY <2>1, <2>2 DEF Kids
  <2> QED BY <2>3 DEF f
<1>7. /\ children' \in Kids /\ children'[n][i] = c
      /\ \A m \in Nodes, j \in Sides : (m = n /\ j = i) \/ children'[m][j] = children[m][j]
  BY <1>1, <1>2, <1>6 DEF Kids
<1>8. n \notin BelowIn(children, c)
  <2>1. ClosedIn(children, {c})
    BY <1>4 DEF ClosedIn
  <2>2. BelowIn(children, c) \subseteq {c}
    BY <1>2, <2>1, BelowIs
  <2> QED BY <1>5, <2>2
<1>9. LinkedIn(live', parent', children')
  <2>1. live \subseteq live' /\ live' \in SUBSET Nodes /\ c \in live'
    BY <1>1, <1>2
  <2>2. Linking(live, parent, children, live', parent', children', n, i, c)
    BY <1>1, <1>3, <1>4, <1>7, <1>8, <2>1 DEF Linking
  <2> QED BY <2>2, LinkedAfterLink
<1>10. AccIn(acc', live')
  BY <1>1, AccSame
<1> QED BY <1>9, <1>10 DEF ForestInv

\* unlink_and_erase()
LEMMA UnlinkAndEraseKeeps ==
  ASSUME ForestInv, user = "forest", UnlinkAndErase
  PROVE  ForestInv'
<1> DEFINE n == acc.handle
<1>1. /\ LinkedIn(live, parent, children) /\ AccIn(acc, live)
      /\ n \in live /\ live' = live \ {n}
      /\ acc' = [handle |-> n, just_erased |-> TRUE, parent |-> parent[n],
                 children |-> children[n]]
      /\ parent' = ParentsWithout(n) /\ children' = ChildrenWithout(n)
  BY DEF ForestInv, UnlinkAndErase, EraseUnchecked
<1>2. parent \in [Nodes -> Nodes \cup {NoNode}] /\ children \in Kids /\ n \in Nodes
      /\ live \in SUBSET Nodes
  BY <1>1 DEF LinkedIn
<1> HIDE DEF n
<1>3. /\ parent' \in [Nodes -> Nodes \cup {NoNode}]
      /\ \A m \in Nodes : parent'[m] = IF m = n \/ parent[m] = n THEN NoNode ELSE parent[m]
  BY <1>1, <1>2 DEF ParentsWithout
<1>4. /\ children' \in Kids
      /\ \A m \in Nodes, j \in Sides :
           children'[m][j] = IF m = n \/ children[m][j] = n THEN NoNode ELSE children[m][j]
  BY <1>1, <1>2 DEF ChildrenWithout, Kids, NoChildren
<1>5. LinkedIn(live', parent', children')
  BY <1>1, <1>3, <1>4, LinkedAfterUnlink
<1>6. /\ parent[n] \in live' \cup {NoNode}
      /\ \A i \in Sides : children[n][i] \in live' \cup {NoNode}
  <2>1. \A m \in Nodes, i \in Sides : m # NoNode => children[m][i] # m
    BY <1>1, <1>2, BelowIs DEF LinkedIn, AcyclicIn
  <2>2. n # NoNode
    BY <1>2, NodesAssumption
  <2>3. parent[n] # n
    BY <1>1, <1>2, <2>1, <2>2 DEF LinkedIn
  <2> QED BY <1>1, <1>2, <2>1, <2>2, <2>3 DEF LinkedIn
<1>7. AccIn(acc', live')
  BY <1>1, <1>2, <1>6 DEF AccIn, Kids
<1> QED BY <1>5, <1>7 DEF ForestInv

\* erase()
LEMMA EraseKeeps ==
  ASSUME ForestInv, user = "forest", Erase
  PROVE  ForestInv'
<1> DEFINE n == acc.handle
<1>1. /\ LinkedIn(live, parent, children) /\ AccIn(acc, live)
      /\ n \in live /\ live' = live \ {n}
      /\ acc' = [handle |-> n, just_erased |-> TRUE, parent |-> parent[n],
                 children |-> children[n]]
      /\ parent[n] = NoNode /\ children[n] = NoChildren
      /\ UNCHANGED <<user, parent, children>>
  BY DEF ForestInv, Erase, EraseUnchecked
<1>2. n \in Nodes /\ live' \in SUBSET Nodes /\ \A i \in Sides : children[n][i] = NoNode
  BY <1>1 DEF LinkedIn, NoChildren
<1> HIDE DEF n
<1>3. LinkedIn(live', parent, children)
  BY <1>1, <1>2, LinkedSame
<1>4. AccIn(acc', live')
  BY <1>1, <1>2 DEF AccIn, NoChildren
<1> QED BY <1>1, <1>3, <1>4 DEF ForestInv

\* Another accessor.
LEMMA GotoKeeps ==
  ASSUME ForestInv, user = "forest", NEW n \in Nodes \cup {NoNode}, Goto(n)
  PROVE  ForestInv'
<1>1. LinkedIn(live, parent, children) /\ UNCHANGED <<user, live, parent, children>>
      /\ acc' = Accessor(n)
  BY DEF ForestInv, Goto, links
<1>2. AccIn(acc', live')
  BY <1>1, NewAccessor
<1> QED BY <1>1, <1>2 DEF ForestInv

\* Every step keeps it, those of a Kd tree too.
LEMMA ForestInvNext == ForestInv /\ [Next]_allVars => ForestInv'
<1> SUFFICES ASSUME ForestInv, [Next]_allVars PROVE ForestInv'
  OBVIOUS
<1>1. CASE UNCHANGED <<user, live, parent, children, acc>>
  BY <1>1 DEF ForestInv
<1>2. CASE UNCHANGED allVars
  BY <1>1, <1>2 DEF allVars, forestVars, links
<1>3. CASE KdNext
  <2>1. user = "kd"
    BY <1>3 DEF KdNext
  <2>2. user' = user
    BY <1>3 DEF KdNext, Insert, InsertRoot, InsertBelow, NewNode, EraseBox, EachBegin, EachPass,
       EachMeet, EachContinue, EachBreak, EachSide, EachEnd, forestVars
  <2> QED BY <2>1, <2>2 DEF ForestInv
<1>4. CASE ForestNext
  <2>1. user = "forest"
    BY <1>4 DEF ForestNext
  <2>2. ASSUME NEW n \in Nodes, Emplace(n) PROVE ForestInv'
    BY <2>1, <2>2, EmplaceKeeps
  <2>3. ASSUME NEW n \in Nodes, GotoNode(n) PROVE ForestInv'
    BY <2>1, <2>3, GotoKeeps DEF GotoNode
  <2>4. ASSUME NEW i \in Sides, NEW n \in Nodes, LinkChild(i, n) PROVE ForestInv'
    BY <2>1, <2>4, LinkChildKeeps
  <2>5. ASSUME NEW i \in Sides, NEW n \in Nodes, EmplaceChild(i, n) PROVE ForestInv'
    BY <2>1, <2>5, EmplaceChildKeeps
  <2>6. CASE UnlinkAndErase
    BY <2>1, <2>6, UnlinkAndEraseKeeps
  <2>7. CASE Erase
    BY <2>1, <2>7, EraseKeeps
  <2>8. LinkedIn(live, parent, children) /\ AccIn(acc, live)
    BY <2>1 DEF ForestInv
  <2>9. CASE GotoParent
    <3>1. GetParent(acc) \in Nodes \cup {NoNode}
      BY <2>8, <2>9 DEF GotoParent, GetParent, LinkedIn, AccIn
    <3> QED BY <2>1, <2>9, <3>1, GotoKeeps DEF GotoParent
  <2>10. ASSUME NEW i \in Sides, GotoChild(i) PROVE ForestInv'
    <3>1. GetChildren(acc)[i] \in Nodes \cup {NoNode}
      BY <2>8, <2>10 DEF GotoChild, GetChildren, LinkedIn, AccIn, Kids
    <3> QED BY <2>1, <2>10, <3>1, GotoKeeps DEF GotoChild
  <2>11. ASSUME NEW n \in Nodes, WalkBegin(n) PROVE ForestInv'
    BY <1>1, <2>11 DEF WalkBegin, links
  <2>12. CASE WalkStep \/ WalkEnd
    BY <1>1, <2>12 DEF WalkStep, WalkEnd, links
  <2> QED BY <1>4, <2>2, <2>3, <2>4, <2>5, <2>6, <2>7, <2>9, <2>10, <2>11, <2>12 DEF ForestNext
<1> QED BY <1>2, <1>3, <1>4 DEF Next

\* It holds in every behaviour.
LEMMA ForestInvAlways == Spec => []ForestInv
BY ForestInvInit, ForestInvNext, PTL DEF Spec

\* The forest stays one: links name live nodes and each other, there are no cycles,
\* and an accessor that has erased its node leads on to live nodes.
THEOREM Linked == Spec => []ForestLinked
<1>1. ForestInv => ForestLinked
  <2> SUFFICES ASSUME ForestInv, user = "forest" PROVE ForestLinked
    BY DEF ForestLinked
  <2>1. LinkedIn(live, parent, children) /\ AccIn(acc, live)
    BY DEF ForestInv
  <2>2. ASSUME NEW n \in live
        PROVE  n \notin UNION {Below(children[n][i]) : i \in Sides}
    BY <2>1, BelowSame DEF LinkedIn, AcyclicIn
  <2>3. acc.just_erased => ({acc.parent} \cup Range(acc.children)) \ {NoNode} \subseteq live
    BY <2>1 DEF AccIn, Range
  <2>4. ASSUME NEW n \in live
        PROVE  /\ \A i \in Sides : children[n][i] # NoNode =>
                    children[n][i] \in live /\ parent[children[n][i]] = n
               /\ parent[n] # NoNode =>
                    /\ parent[n] \in live
                    /\ \E i \in Sides : children[parent[n]][i] = n /\ children[parent[n]][1 - i] # n
    BY <2>1 DEF LinkedIn
  <2> QED BY <2>2, <2>3, <2>4 DEF ForestLinked
<1> QED BY <1>1, ForestInvAlways, PTL

----------------------------------------------------------------------------
(* The order of a tree *)

\* A tree is its root, what is below the left, and what is below the right child.
LEMMA BelowParts ==
  ASSUME NEW ch \in Kids, NEW n \in Nodes
  PROVE  BelowIn(ch, n) = {n} \cup BelowIn(ch, ch[n][0]) \cup BelowIn(ch, ch[n][1])
<1> DEFINE l == ch[n][0]
           r == ch[n][1]
           S == {n} \cup BelowIn(ch, l) \cup BelowIn(ch, r)
<1>1. l \in Nodes \cup {NoNode} /\ r \in Nodes \cup {NoNode} /\ n # NoNode
  BY NodesAssumption DEF Kids, Sides
<1>2. /\ BelowIn(ch, l) \in SUBSET Nodes /\ ClosedIn(ch, BelowIn(ch, l))
      /\ l # NoNode => l \in BelowIn(ch, l)
  BY <1>1, BelowIs, BelowNone DEF ClosedIn
<1>3. /\ BelowIn(ch, r) \in SUBSET Nodes /\ ClosedIn(ch, BelowIn(ch, r))
      /\ r # NoNode => r \in BelowIn(ch, r)
  BY <1>1, BelowIs, BelowNone DEF ClosedIn
<1>4. ClosedIn(ch, S)
  <2>1. \A i \in Sides : ch[n][i] \in S \cup {NoNode}
    BY <1>2, <1>3 DEF Sides
  <2> QED BY <1>2, <1>3, <2>1 DEF ClosedIn
<1>5. BelowIn(ch, n) \subseteq S
  BY <1>2, <1>3, <1>4, BelowIs
<1>6. /\ n \in BelowIn(ch, n)
      /\ l \in BelowIn(ch, n) \cup {NoNode}
      /\ r \in BelowIn(ch, n) \cup {NoNode}
  BY BelowIs DEF ClosedIn, Sides
<1>7. BelowIn(ch, l) \subseteq BelowIn(ch, n)
  BY <1>6, BelowTransitive, BelowNone
<1>8. BelowIn(ch, r) \subseteq BelowIn(ch, n)
  BY <1>6, BelowTransitive, BelowNone
<1> QED BY <1>5, <1>6, <1>7, <1>8

\* A node below another has a parent that is too.
LEMMA BelowParent ==
  ASSUME NEW L, NEW up, NEW ch, LinkedIn(L, up, ch), NEW n \in Nodes, NEW k \in BelowIn(ch, n),
         k # n
  PROVE  up[k] \in BelowIn(ch, n)
<1> DEFINE B == BelowIn(ch, n)
           S == {n} \cup {m \in B : up[m] \in B}
<1>1. ch \in Kids /\ B \in SUBSET Nodes /\ n \in B /\ ClosedIn(ch, B)
  BY BelowIs DEF LinkedIn
<1> HIDE DEF B
<1>2. ASSUME NEW m \in S, NEW i \in Sides, ch[m][i] # NoNode PROVE ch[m][i] \in S
  <2>1. m \in B /\ m \in Nodes
    BY <1>1, <1>2
  <2>2. ch[m][i] \in B
    BY <1>1, <1>2, <2>1 DEF ClosedIn
  <2>3. up[ch[m][i]] = m
    BY <1>2, <2>1 DEF LinkedIn
  <2> QED BY <2>1, <2>2, <2>3
<1>3. ClosedIn(ch, S)
  BY <1>2 DEF ClosedIn
<1>4. S \in SUBSET Nodes /\ n \in S
  BY <1>1
<1>5. B \subseteq S
  BY <1>1, <1>3, <1>4, BelowIs DEF B
<1> QED BY <1>5 DEF B

\* Two nodes with a node below both are one below the other.
LEMMA BelowChain ==
  ASSUME NEW L, NEW up, NEW ch, LinkedIn(L, up, ch), NEW a \in Nodes, NEW b \in Nodes,
         NEW x, x \in BelowIn(ch, a), x \in BelowIn(ch, b)
  PROVE  a \in BelowIn(ch, b) \/ b \in BelowIn(ch, a)
<1> SUFFICES ASSUME a \notin BelowIn(ch, b), b \notin BelowIn(ch, a) PROVE FALSE
  OBVIOUS
<1> DEFINE A == BelowIn(ch, a)
           B == BelowIn(ch, b)
           S == A \ B
<1>1. ch \in Kids /\ A \in SUBSET Nodes /\ a \in A /\ ClosedIn(ch, A)
  BY BelowIs DEF LinkedIn
<1>2. ASSUME NEW m \in S, NEW i \in Sides, ch[m][i] # NoNode PROVE ch[m][i] \in S
  <2>1. ch[m][i] \in A /\ up[ch[m][i]] = m
    BY <1>1, <1>2 DEF ClosedIn, LinkedIn
  <2>2. ch[m][i] # b
    BY <2>1
  <2> QED BY <1>2, <2>1, <2>2, BelowParent
<1>3. ClosedIn(ch, S)
  BY <1>2 DEF ClosedIn
<1>4. A \subseteq S
  BY <1>1, <1>3, BelowIs
<1> QED BY <1>4

\* Only a node itself is both above and below it.
LEMMA BelowOnce ==
  ASSUME NEW ch \in Kids, AcyclicIn(ch), NEW a \in Nodes, NEW b \in Nodes,
         a \in BelowIn(ch, b), b \in BelowIn(ch, a)
  PROVE  a = b
<1> SUFFICES ASSUME a # b PROVE FALSE
  OBVIOUS
<1>1. PICK i \in Sides : a \in BelowIn(ch, ch[b][i])
  BY BelowParts DEF Sides
<1>2. ch[b][i] \in Nodes
  BY <1>1, BelowNone DEF Kids
<1>3. b \in BelowIn(ch, ch[b][i])
  BY <1>1, <1>2, BelowTransitive
<1> QED BY <1>3 DEF AcyclicIn

\* Nothing is below both children.
LEMMA SidesDisjoint ==
  ASSUME NEW L, NEW up, NEW ch, LinkedIn(L, up, ch), NEW n \in Nodes
  PROVE  BelowIn(ch, ch[n][0]) \cap BelowIn(ch, ch[n][1]) = {}
<1> SUFFICES ASSUME NEW x \in BelowIn(ch, ch[n][0]), x \in BelowIn(ch, ch[n][1]) PROVE FALSE
  OBVIOUS
<1> DEFINE l == ch[n][0]
           r == ch[n][1]
<1>1. ch \in Kids /\ AcyclicIn(ch) /\ 0 \in Sides /\ 1 \in Sides
  BY DEF LinkedIn, Sides
<1>2. l \in Nodes /\ r \in Nodes /\ l # NoNode /\ r # NoNode
  BY <1>1, BelowNone DEF Kids
<1>3. up[l] = n /\ up[r] = n /\ n # NoNode
  BY <1>1, <1>2, NodesAssumption DEF LinkedIn
<1>4. l # r
  <2>1. PICK i \in Sides : ch[n][i] = l /\ ch[n][1 - i] # l
    BY <1>2, <1>3 DEF LinkedIn
  <2>2. i = 0 \/ i = 1
    BY DEF Sides
  <2>3. CASE i = 0
    BY <2>1, <2>3
  <2>4. CASE i = 1
    BY <2>1, <2>4
  <2> QED BY <2>2, <2>3, <2>4
<1>5. n \notin BelowIn(ch, l) /\ n \notin BelowIn(ch, r)
  BY <1>1 DEF AcyclicIn
<1> HIDE DEF l, r
<1>6. l \in BelowIn(ch, r) \/ r \in BelowIn(ch, l)
  BY <1>2, BelowChain DEF l, r
<1> QED BY <1>2, <1>3, <1>4, <1>5, <1>6, BelowParent

\* x comes after n: it is to the right of it, or n is to the left of, or left of
\* what x is to the right of.
IsAfter(ch, n, x) ==
  \/ x \in BelowIn(ch, ch[n][1])
  \/ \E p \in Nodes : n \in BelowIn(ch, ch[p][0]) /\ (x = p \/ x \in BelowIn(ch, ch[p][1]))

\* Two nodes of a tree.
Together(ch, n, x) == \E m \in Nodes : n \in BelowIn(ch, m) /\ x \in BelowIn(ch, m)

\* The links of f are among those of g.
Fewer(f, g) == \A m \in Nodes, i \in Sides : f[m][i] \in {g[m][i], NoNode}

\* With fewer links, less is below a node.
LEMMA FewerBelow ==
  ASSUME NEW f \in Kids, NEW g \in Kids, Fewer(f, g), NEW n \in Nodes \cup {NoNode}
  PROVE  BelowIn(f, n) \subseteq BelowIn(g, n)
<1>1. CASE n = NoNode
  BY <1>1, BelowNone
<1>2. CASE n \in Nodes
  <2>1. BelowIn(g, n) \in SUBSET Nodes /\ n \in BelowIn(g, n) /\ ClosedIn(g, BelowIn(g, n))
    BY <1>2, BelowIs
  <2>2. ClosedIn(f, BelowIn(g, n))
    BY <2>1 DEF ClosedIn, Fewer
  <2> QED BY <1>2, <2>1, <2>2, BelowIs
<1> QED BY <1>1, <1>2

\* And less comes after it.
LEMMA FewerAfter ==
  ASSUME NEW f \in Kids, NEW g \in Kids, Fewer(f, g), NEW n \in Nodes, NEW x, IsAfter(f, n, x)
  PROVE  IsAfter(g, n, x)
<1>1. \A m \in Nodes, i \in Sides : BelowIn(f, f[m][i]) \subseteq BelowIn(g, g[m][i])
  <2> SUFFICES ASSUME NEW m \in Nodes, NEW i \in Sides
               PROVE  BelowIn(f, f[m][i]) \subseteq BelowIn(g, g[m][i])
    OBVIOUS
  <2>1. CASE f[m][i] = NoNode
    BY <2>1, BelowNone
  <2>2. CASE f[m][i] # NoNode
    <3>1. f[m][i] = g[m][i] /\ g[m][i] \in Nodes \cup {NoNode}
      BY <2>2 DEF Fewer, Kids
    <3> QED BY <3>1, FewerBelow
  <2> QED BY <2>1, <2>2
<1>2. 0 \in Sides /\ 1 \in Sides
  BY DEF Sides
<1> QED BY <1>1, <1>2 DEF IsAfter

\* Two linked forests, one with fewer links.
Pruned(L1, up1, f, L2, up2, g) ==
  LinkedIn(L1, up1, f) /\ LinkedIn(L2, up2, g) /\ Fewer(f, g)

\* Nodes that stay together stay one below the other.
LEMMA PrunedBelow ==
  ASSUME NEW L1, NEW up1, NEW f, NEW L2, NEW up2, NEW g, Pruned(L1, up1, f, L2, up2, g),
         NEW m \in Nodes, NEW z \in BelowIn(f, m), NEW x \in BelowIn(f, m), x \in BelowIn(g, z)
  PROVE  x \in BelowIn(f, z)
<1> SUFFICES ASSUME x \notin BelowIn(f, z) PROVE FALSE
  OBVIOUS
<1> DEFINE M == BelowIn(f, m)
           G == BelowIn(g, z)
           F == BelowIn(f, z)
           S == M \ (G \ F)
<1>1. f \in Kids /\ g \in Kids /\ AcyclicIn(g) /\ Fewer(f, g)
  BY DEF Pruned, LinkedIn
<1>2. M \in SUBSET Nodes /\ m \in M /\ ClosedIn(f, M)
  BY <1>1, BelowIs
<1>3. z \in Nodes /\ G \in SUBSET Nodes /\ F \in SUBSET Nodes /\ z \in F /\ ClosedIn(f, F)
  BY <1>1, <1>2, BelowIs
<1>4. m \in S
  <2>1. CASE m \in G
    <3>1. z \in BelowIn(g, m)
      BY <1>1, FewerBelow
    <3>2. z = m
      BY <1>1, <1>3, <2>1, <3>1, BelowOnce
    <3> QED BY <1>2, <1>3, <3>2
  <2>2. CASE m \notin G
    BY <1>2, <2>2
  <2> QED BY <2>1, <2>2
<1>5. ASSUME NEW k \in S, NEW i \in Sides, f[k][i] # NoNode PROVE f[k][i] \in S
  <2> DEFINE j == f[k][i]
  <2>1. k \in Nodes /\ j \in M /\ j = g[k][i] /\ up2[j] = k
    BY <1>1, <1>2, <1>5 DEF ClosedIn, Fewer, Pruned, LinkedIn
  <2>2. ASSUME j \in G, j \notin F PROVE FALSE
    <3>1. j # z
      BY <1>3, <2>2
    <3>2. k \in G
      BY <1>3, <2>1, <2>2, <3>1, BelowParent DEF Pruned
    <3>3. k \in F
      BY <1>5, <3>2
    <3> QED BY <1>3, <1>5, <2>2, <3>3 DEF ClosedIn
  <2> QED BY <2>1, <2>2
<1>6. ClosedIn(f, S)
  BY <1>5 DEF ClosedIn
<1>7. S \in SUBSET Nodes
  BY <1>2
<1>8. M \subseteq S
  BY <1>1, <1>4, <1>6, <1>7, BelowIs
<1> QED BY <1>8

\* What was between a node and one below it is still there.
LEMMA PrunedBetween ==
  ASSUME NEW L1, NEW up1, NEW f, NEW L2, NEW up2, NEW g, Pruned(L1, up1, f, L2, up2, g),
         NEW m \in Nodes, NEW x \in BelowIn(f, m), NEW p \in BelowIn(g, m), x \in BelowIn(g, p)
  PROVE  p \in BelowIn(f, m)
<1> SUFFICES ASSUME p \notin BelowIn(f, m) PROVE FALSE
  OBVIOUS
<1> DEFINE M == BelowIn(f, m)
           P == BelowIn(g, p)
           S == M \ P
<1>1. f \in Kids /\ g \in Kids /\ AcyclicIn(g) /\ Fewer(f, g)
  BY DEF Pruned, LinkedIn
<1>2. M \in SUBSET Nodes /\ m \in M /\ ClosedIn(f, M) /\ p \in Nodes
  BY <1>1, BelowIs
<1>3. m \in S
  BY <1>1, <1>2, BelowOnce
<1>4. ASSUME NEW k \in S, NEW i \in Sides, f[k][i] # NoNode PROVE f[k][i] \in S
  <2> DEFINE j == f[k][i]
  <2>1. k \in Nodes /\ j \in M /\ j = g[k][i] /\ up2[j] = k
    BY <1>1, <1>2, <1>4 DEF ClosedIn, Fewer, Pruned, LinkedIn
  <2>2. ASSUME j \in P PROVE FALSE
    <3>1. j # p
      BY <2>1
    <3> QED BY <1>2, <1>4, <2>1, <2>2, <3>1, BelowParent DEF Pruned
  <2> QED BY <2>1, <2>2
<1>5. ClosedIn(f, S)
  BY <1>4 DEF ClosedIn
<1>6. M \subseteq S
  BY <1>1, <1>2, <1>3, <1>5, BelowIs
<1> QED BY <1>6

\* The order of two nodes that stay together is that of all the links.
LEMMA OrderKept ==
  ASSUME NEW L1, NEW up1, NEW f, NEW L2, NEW up2, NEW g, Pruned(L1, up1, f, L2, up2, g),
         NEW n \in Nodes, NEW x, Together(f, n, x), IsAfter(g, n, x)
  PROVE  IsAfter(f, n, x)
<1>1. f \in Kids /\ g \in Kids /\ AcyclicIn(g) /\ Fewer(f, g) /\ LinkedIn(L2, up2, g)
  BY DEF Pruned, LinkedIn
<1>2. PICK m \in Nodes : n \in BelowIn(f, m) /\ x \in BelowIn(f, m)
  BY DEF Together
<1>3. BelowIn(f, m) \in SUBSET Nodes
  BY <1>1, BelowIs
<1>4. n \in BelowIn(g, m) /\ x \in BelowIn(g, m)
  BY <1>1, <1>2, FewerBelow
\* Below a side of p, and of the tree of p: the same side.
<1>5. ASSUME NEW p \in Nodes, NEW i \in Sides, NEW y \in BelowIn(f, p),
             y \in BelowIn(g, g[p][i])
      PROVE  y \in BelowIn(f, f[p][i])
  <2>1. y # p
    BY <1>1, <1>5 DEF AcyclicIn
  <2>2. y \in BelowIn(f, f[p][0]) \/ y \in BelowIn(f, f[p][1])
    BY <1>1, <2>1, BelowParts
  <2>3. ASSUME NEW j \in Sides, y \in BelowIn(f, f[p][j]) PROVE j = i
    <3>1. f[p][j] \in Nodes /\ f[p][j] # NoNode /\ f[p][j] = g[p][j]
      BY <1>1, <2>3, BelowNone DEF Kids, Fewer
    <3>2. y \in BelowIn(g, g[p][j])
      BY <1>1, <2>3, <3>1, FewerBelow
    <3>3. BelowIn(g, g[p][0]) \cap BelowIn(g, g[p][1]) = {}
      BY <1>1, SidesDisjoint
    <3> QED BY <1>5, <3>2, <3>3 DEF Sides
  <2> QED BY <2>2, <2>3 DEF Sides
<1>6. CASE x \in BelowIn(g, g[n][1])
  <2>1. g[n][1] \in BelowIn(g, n)
    <3>1. g[n][1] # NoNode /\ 1 \in Sides
      BY <1>6, BelowNone DEF Sides
    <3> QED BY <1>1, <3>1, BelowIs DEF ClosedIn
  <2>2. x \in BelowIn(g, n)
    BY <1>1, <1>6, <2>1, BelowTransitive
  <2>3. x \in BelowIn(f, n)
    BY <1>2, <2>2, PrunedBelow
  <2>4. x \in BelowIn(f, f[n][1])
    BY <1>5, <1>6, <2>3 DEF Sides
  <2> QED BY <2>4 DEF IsAfter
<1>7. ASSUME NEW p \in Nodes, n \in BelowIn(g, g[p][0]), x = p \/ x \in BelowIn(g, g[p][1])
      PROVE  IsAfter(f, n, x)
  <2>1. /\ BelowIn(g, g[p][0]) \subseteq BelowIn(g, p)
        /\ BelowIn(g, g[p][1]) \subseteq BelowIn(g, p)
        /\ p \in BelowIn(g, p)
    BY <1>1, BelowParts
  <2>2. n \in BelowIn(g, p) /\ x \in BelowIn(g, p)
    BY <1>7, <2>1
  <2>3. p \in BelowIn(g, m)
    <3>1. CASE m \in BelowIn(g, p) /\ m # p
      <4>1. m \in BelowIn(g, g[p][0]) \/ m \in BelowIn(g, g[p][1])
        BY <1>1, <3>1, BelowParts
      <4>2. BelowIn(g, g[p][0]) \cap BelowIn(g, g[p][1]) = {}
        BY <1>1, SidesDisjoint
      <4>3. g[p][0] \in Nodes \cup {NoNode} /\ g[p][1] \in Nodes \cup {NoNode}
        BY <1>1 DEF Kids, Sides
      <4>4. CASE m \in BelowIn(g, g[p][0])
        <5>1. x \in BelowIn(g, g[p][0])
          BY <1>1, <1>4, <4>3, <4>4, BelowTransitive, BelowNone
        <5>2. x # p
          BY <1>1, <5>1 DEF AcyclicIn, Sides
        <5> QED BY <1>7, <4>2, <5>1, <5>2
      <4>5. CASE m \in BelowIn(g, g[p][1])
        <5>1. n \in BelowIn(g, g[p][1])
          BY <1>1, <1>4, <4>3, <4>5, BelowTransitive, BelowNone
        <5> QED BY <1>7, <4>2, <5>1
      <4> QED BY <4>1, <4>4, <4>5
    <3>2. CASE m = p
      BY <1>1, <3>2, BelowIs
    <3> QED BY <1>1, <1>4, <2>2, <3>1, <3>2, BelowChain
  <2>4. p \in BelowIn(f, m)
    BY <1>2, <2>2, <2>3, PrunedBetween
  <2>5. n \in BelowIn(f, p) /\ x \in BelowIn(f, p)
    BY <1>2, <2>2, <2>4, PrunedBelow
  <2>6. n \in BelowIn(f, f[p][0])
    BY <1>5, <1>7, <2>5 DEF Sides
  <2>7. x = p \/ x \in BelowIn(f, f[p][1])
    BY <1>5, <1>7, <2>5 DEF Sides
  <2> QED BY <2>6, <2>7 DEF IsAfter
<1> QED BY <1>6, <1>7 DEF IsAfter

----------------------------------------------------------------------------
(* The walk *)

\* n is to the left of, or left of what x is to the right of.
IsOutside(ch, n, x) ==
  \E p \in Nodes : n \in BelowIn(ch, ch[p][0]) /\ (x = p \/ x \in BelowIn(ch, ch[p][1]))

\* What is after n is on its right, or outside of what is below n.
LEMMA AfterParts ==
  \A ch, n, x : IsAfter(ch, n, x) <=> x \in BelowIn(ch, ch[n][1]) \/ IsOutside(ch, n, x)
BY DEF IsAfter, IsOutside

\* Nothing is outside of a whole tree.
LEMMA OutsideRoot ==
  ASSUME NEW L, NEW up, NEW ch, LinkedIn(L, up, ch), NEW n \in Nodes, up[n] = NoNode, NEW x
  PROVE  ~IsOutside(ch, n, x)
<1> SUFFICES ASSUME NEW p \in Nodes, n \in BelowIn(ch, ch[p][0]) PROVE FALSE
  BY DEF IsOutside
<1>1. ch \in Kids /\ 0 \in Sides
  BY DEF LinkedIn, Sides
<1>2. ch[p][0] \in Nodes /\ ch[p][0] # NoNode /\ p # NoNode
  BY <1>1, BelowNone, NodesAssumption DEF Kids
<1>3. n # ch[p][0]
  BY <1>1, <1>2 DEF LinkedIn
<1>4. NoNode \in BelowIn(ch, ch[p][0])
  BY <1>2, <1>3, BelowParent
<1> QED BY <1>1, <1>2, <1>4, BelowIs, NodesAssumption

\* What is outside of a right child is outside of its parent.
LEMMA OutsideRight ==
  ASSUME NEW L, NEW up, NEW ch, LinkedIn(L, up, ch), NEW n \in Nodes, ch[n][1] # NoNode, NEW x
  PROVE  IsOutside(ch, ch[n][1], x) <=> IsOutside(ch, n, x)
<1> DEFINE c == ch[n][1]
<1>1. ch \in Kids /\ 0 \in Sides /\ 1 \in Sides /\ AcyclicIn(ch)
  BY DEF LinkedIn, Sides
<1>2. c \in Nodes /\ up[c] = n /\ n # NoNode
  BY <1>1, NodesAssumption DEF LinkedIn, Kids
<1>3. ASSUME NEW p \in Nodes PROVE c \in BelowIn(ch, ch[p][0]) <=> n \in BelowIn(ch, ch[p][0])
  <2> DEFINE l == ch[p][0]
  <2>1. l \in Nodes \cup {NoNode}
    BY <1>1 DEF Kids
  <2>2. CASE l = NoNode
    BY <2>2, BelowNone
  <2>3. CASE l # NoNode
    <3>1. l \in Nodes /\ up[l] = p
      BY <1>1, <2>1, <2>3 DEF LinkedIn
    <3>2. c # l
      <4>1. SUFFICES ASSUME c = l PROVE FALSE
        OBVIOUS
      <4>2. ch[n][0] = c /\ ch[n][1] = c
        BY <1>2, <3>1, <4>1
      <4>3. BelowIn(ch, c) \cap BelowIn(ch, c) = {}
        BY <4>2, SidesDisjoint
      <4> QED BY <1>1, <1>2, <4>3, BelowIs
    <3> HIDE DEF c, l
    <3>3. ASSUME c \in BelowIn(ch, l) PROVE n \in BelowIn(ch, l)
      BY <1>2, <3>1, <3>2, <3>3, BelowParent
    <3>4. ASSUME n \in BelowIn(ch, l) PROVE c \in BelowIn(ch, l)
      <4>1. ClosedIn(ch, BelowIn(ch, l))
        BY <1>1, <3>1, BelowIs
      <4>2. ch[n][1] \in BelowIn(ch, l) \cup {NoNode}
        BY <1>1, <3>4, <4>1 DEF ClosedIn
      <4> QED BY <4>2 DEF c
    <3> QED BY <3>3, <3>4 DEF c, l
  <2> QED BY <2>1, <2>2, <2>3
<1> QED BY <1>3 DEF IsOutside

\* Outside of a left child is its parent, and what is after that.
LEMMA OutsideLeft ==
  ASSUME NEW L, NEW up, NEW ch, LinkedIn(L, up, ch), NEW n \in Nodes, ch[n][0] # NoNode, NEW x
  PROVE  IsOutside(ch, ch[n][0], x) <=> x = n \/ IsAfter(ch, n, x)
<1> DEFINE c == ch[n][0]
<1>1. ch \in Kids /\ 0 \in Sides /\ 1 \in Sides /\ AcyclicIn(ch)
  BY DEF LinkedIn, Sides
<1>2. c \in Nodes /\ up[c] = n /\ n # NoNode /\ c \in BelowIn(ch, c)
  BY <1>1, NodesAssumption, BelowIs DEF LinkedIn, Kids
<1>3. ASSUME NEW p \in Nodes, p # n
      PROVE  c \in BelowIn(ch, ch[p][0]) <=> n \in BelowIn(ch, ch[p][0])
  <2> DEFINE l == ch[p][0]
  <2>1. l \in Nodes \cup {NoNode}
    BY <1>1 DEF Kids
  <2>2. CASE l = NoNode
    BY <2>2, BelowNone
  <2>3. CASE l # NoNode
    <3>1. l \in Nodes /\ up[l] = p
      BY <1>1, <2>1, <2>3 DEF LinkedIn
    <3>2. c # l
      BY <1>2, <1>3, <3>1
    <3> HIDE DEF c, l
    <3>3. ASSUME c \in BelowIn(ch, l) PROVE n \in BelowIn(ch, l)
      BY <1>2, <3>1, <3>2, <3>3, BelowParent
    <3>4. ASSUME n \in BelowIn(ch, l) PROVE c \in BelowIn(ch, l)
      <4>1. ClosedIn(ch, BelowIn(ch, l))
        BY <1>1, <3>1, BelowIs
      <4>2. ch[n][0] \in BelowIn(ch, l) \cup {NoNode}
        BY <1>1, <3>4, <4>1 DEF ClosedIn
      <4> QED BY <4>2 DEF c
    <3> QED BY <3>3, <3>4 DEF c, l
  <2> QED BY <2>1, <2>2, <2>3
<1>4. n \notin BelowIn(ch, c)
  BY <1>1 DEF AcyclicIn
<1>5. ASSUME IsOutside(ch, c, x) PROVE x = n \/ IsAfter(ch, n, x)
  <2>1. PICK p \in Nodes :
          c \in BelowIn(ch, ch[p][0]) /\ (x = p \/ x \in BelowIn(ch, ch[p][1]))
    BY <1>5 DEF IsOutside
  <2>2. CASE p = n
    BY <2>1, <2>2 DEF IsAfter
  <2>3. CASE p # n
    BY <1>3, <2>1, <2>3 DEF IsAfter
  <2> QED BY <2>2, <2>3
<1>6. ASSUME x = n \/ x \in BelowIn(ch, ch[n][1]) PROVE IsOutside(ch, c, x)
  BY <1>2, <1>6 DEF IsOutside
<1>7. ASSUME NEW p \in Nodes, n \in BelowIn(ch, ch[p][0]), x = p \/ x \in BelowIn(ch, ch[p][1])
      PROVE  IsOutside(ch, c, x)
  <2>1. p # n
    BY <1>1, <1>7 DEF AcyclicIn
  <2>2. c \in BelowIn(ch, ch[p][0])
    BY <1>3, <1>7, <2>1
  <2> QED BY <1>7, <2>2 DEF IsOutside
<1> QED BY <1>5, <1>6, <1>7 DEF IsAfter

\* No node is after itself.
LEMMA NotAfterItself ==
  ASSUME NEW L, NEW up, NEW ch, LinkedIn(L, up, ch), NEW n \in Nodes
  PROVE  ~IsAfter(ch, n, n)
<1>1. ch \in Kids /\ 0 \in Sides /\ 1 \in Sides /\ AcyclicIn(ch)
  BY DEF LinkedIn, Sides
<1>2. n \notin BelowIn(ch, ch[n][1])
  BY <1>1 DEF AcyclicIn
<1>3. ASSUME NEW p \in Nodes, n \in BelowIn(ch, ch[p][0]), n = p \/ n \in BelowIn(ch, ch[p][1])
      PROVE  FALSE
  <2>1. n # p
    BY <1>1, <1>3 DEF AcyclicIn
  <2>2. BelowIn(ch, ch[p][0]) \cap BelowIn(ch, ch[p][1]) = {}
    BY SidesDisjoint
  <2> QED BY <1>3, <2>1, <2>2
<1> QED BY <1>2, <1>3 DEF IsAfter

\* What is after a node is in its tree.
LEMMA AfterTogether ==
  ASSUME NEW ch \in Kids, NEW n \in Nodes, NEW x, IsAfter(ch, n, x)
  PROVE  Together(ch, n, x)
<1>1. ASSUME NEW p \in Nodes
      PROVE  BelowIn(ch, p) = {p} \cup BelowIn(ch, ch[p][0]) \cup BelowIn(ch, ch[p][1])
  BY BelowParts
<1> QED BY <1>1 DEF IsAfter, Together

\* Being in a tree together is transitive.
LEMMA TogetherTransitive ==
  ASSUME NEW L, NEW up, NEW ch, LinkedIn(L, up, ch), NEW n, NEW x, NEW y,
         Together(ch, n, x), Together(ch, n, y)
  PROVE  Together(ch, y, x)
<1>1. ch \in Kids
  BY DEF LinkedIn
<1>2. PICK a \in Nodes : n \in BelowIn(ch, a) /\ x \in BelowIn(ch, a)
  BY DEF Together
<1>3. PICK b \in Nodes : n \in BelowIn(ch, b) /\ y \in BelowIn(ch, b)
  BY DEF Together
<1>4. a \in BelowIn(ch, b) \/ b \in BelowIn(ch, a)
  BY <1>2, <1>3, BelowChain
<1>5. CASE a \in BelowIn(ch, b)
  BY <1>1, <1>2, <1>3, <1>5, BelowTransitive DEF Together
<1>6. CASE b \in BelowIn(ch, a)
  BY <1>1, <1>2, <1>3, <1>6, BelowTransitive DEF Together
<1> QED BY <1>4, <1>5, <1>6

\* A set of naturals has a least element.
LEMMA Least ==
  ASSUME NEW T, T \subseteq Nat, T # {}
  PROVE  \E n \in T : \A m \in T : n <= m
<1>1. PICK n \in T : \A m \in T : ~(<<m, n>> \in OpToRel(<, Nat))
  BY NatLessThanWellFounded, WFMin
<1>2. \A m \in T : ~(m < n)
  BY <1>1 DEF OpToRel
<1> QED BY <1>2

\* Induction by a rank: what has each element whose lower ones it has, has all.
LEMMA ByRank ==
  ASSUME NEW D, NEW K \in Nat, NEW rank \in [D -> 0 .. K], NEW T,
         \A d \in D : (\A e \in D : rank[e] < rank[d] => e \in T) => d \in T
  PROVE  D \subseteq T
<1> DEFINE U == {rank[d] : d \in D \ T}
<1>1. SUFFICES ASSUME U # {} PROVE FALSE
  OBVIOUS
<1>2. U \subseteq Nat
  OBVIOUS
<1>3. PICK u \in U : \A m \in U : u <= m
  <2> HIDE DEF U
  <2> QED BY <1>1, <1>2, Least
<1>4. PICK d \in D \ T : u = rank[d]
  BY <1>3
<1>5. \A e \in D : rank[e] < rank[d] => e \in T
  <2> SUFFICES ASSUME NEW e \in D, rank[e] < rank[d], e \notin T PROVE FALSE
    OBVIOUS
  <2>1. rank[e] \in U /\ rank[e] \in Nat /\ rank[d] \in Nat
    OBVIOUS
  <2> QED BY <1>3, <1>4, <2>1
<1> QED BY <1>4, <1>5

\* f follows next from each element of D to the last, and gives its base.
Follows(f, D, next, base) == f = [d \in D |-> IF next[d] = NoNode THEN base[d] ELSE f[next[d]]]

\* There is such a function if the rank falls.
LEMMA FollowExists ==
  ASSUME NEW D, NoNode \notin D, NEW K \in Nat, NEW rank \in [D -> 0 .. K],
         NEW next \in [D -> D \cup {NoNode}], NEW base,
         \A d \in D : next[d] # NoNode => rank[next[d]] < rank[d]
  PROVE  \E f : Follows(f, D, next, base)
<1> DEFINE E(k) == {d \in D : rank[d] < k}
           T == {k \in 0 .. K + 1 : \E f : Follows(f, E(k), next, base)}
           U == {k \in 0 .. K + 1 : k \notin T}
<1>1. SUFFICES ASSUME U # {} PROVE FALSE
  <2>1. K + 1 \in T
    <3> HIDE DEF T
    <3> QED BY <1>1
  <2>2. E(K + 1) = D
    OBVIOUS
  <2>3. \E f : Follows(f, E(K + 1), next, base)
    BY <2>1
  <2> QED BY <2>2, <2>3
<1>2. PICK k \in U : \A m \in U : k <= m
  <2>1. U \subseteq Nat
    OBVIOUS
  <2> HIDE DEF U
  <2> QED BY <1>1, <2>1, Least
<1>3. k # 0
  <2>1. E(0) = {}
    OBVIOUS
  <2> DEFINE f == [d \in {} |-> NoNode]
  <2>2. Follows(f, E(0), next, base)
    BY <2>1 DEF Follows
  <2> HIDE DEF f, E
  <2>3. 0 \in T
    BY <2>2
  <2> QED BY <2>3
<1>4. k - 1 \in T
  BY <1>2, <1>3
<1>5. PICK f : Follows(f, E(k - 1), next, base)
  BY <1>4
<1> DEFINE g == [d \in E(k) |-> IF next[d] = NoNode THEN base[d] ELSE f[next[d]]]
<1>6. \A d \in E(k) : next[d] # NoNode => next[d] \in E(k - 1) /\ next[d] \in E(k)
  BY <1>2
<1>7. \A e \in E(k - 1) : e \in E(k) /\ g[e] = f[e]
  <2>1. \A e \in E(k - 1) : f[e] = IF next[e] = NoNode THEN base[e] ELSE f[next[e]]
    BY <1>5 DEF Follows
  <2>2. \A e \in E(k - 1) : e \in E(k)
    BY <1>2
  <2> QED BY <2>1, <2>2
<1>8. \A d \in E(k) : g[d] = IF next[d] = NoNode THEN base[d] ELSE g[next[d]]
  <2> HIDE DEF E
  <2> QED BY <1>6, <1>7
<1>9. g = [d \in E(k) |-> IF next[d] = NoNode THEN base[d] ELSE g[next[d]]]
  <2>1. g = [d \in E(k) |-> g[d]]
    OBVIOUS
  <2> HIDE DEF g, E
  <2> QED BY <1>8, <2>1
<1>10. k \in T
  <2>1. Follows(g, E(k), next, base)
    <3> HIDE DEF g, E
    <3> QED BY <1>9 DEF Follows
  <2> HIDE DEF g
  <2> QED BY <1>2, <2>1
<1> QED BY <1>2, <1>10

Size(ch, n) == Cardinality(BelowIn(ch, n))

\* There is less below a child than below its parent.
LEMMA ChildSmaller ==
  ASSUME NEW ch \in Kids, AcyclicIn(ch)
  PROVE  /\ Cardinality(Nodes) \in Nat
         /\ \A n \in Nodes : Size(ch, n) \in 0 .. Cardinality(Nodes)
         /\ \A n \in Nodes, i \in Sides : ch[n][i] # NoNode => Size(ch, ch[n][i]) < Size(ch, n)
<1>1. IsFiniteSet(Nodes) /\ Cardinality(Nodes) \in Nat
  BY NodesAssumption, FS_CardinalityType
<1>2. ASSUME NEW n \in Nodes
      PROVE  IsFiniteSet(BelowIn(ch, n)) /\ Size(ch, n) \in 0 .. Cardinality(Nodes)
  <2>1. BelowIn(ch, n) \in SUBSET Nodes
    BY BelowIs
  <2>2. /\ IsFiniteSet(BelowIn(ch, n)) /\ Cardinality(BelowIn(ch, n)) <= Cardinality(Nodes)
        /\ Cardinality(BelowIn(ch, n)) \in Nat
    BY <1>1, <2>1, FS_Subset, FS_CardinalityType
  <2> QED BY <1>1, <2>2 DEF Size
<1>3. ASSUME NEW n \in Nodes, NEW i \in Sides, ch[n][i] # NoNode
      PROVE  Size(ch, ch[n][i]) < Size(ch, n)
  <2> DEFINE c == ch[n][i]
             B == BelowIn(ch, n)
  <2>1. c \in Nodes /\ n \notin BelowIn(ch, c)
    BY <1>3 DEF Kids, AcyclicIn
  <2>2. n \in B /\ c \in B
    BY <1>3, BelowIs DEF ClosedIn
  <2>3. BelowIn(ch, c) \subseteq B \ {n}
    BY <2>1, <2>2, BelowTransitive
  <2>4. IsFiniteSet(B) /\ Cardinality(B) \in Nat /\ Cardinality(BelowIn(ch, c)) \in Nat
    BY <1>2, <2>1 DEF Size
  <2>5. IsFiniteSet(B \ {n}) /\ Cardinality(B \ {n}) = Cardinality(B) - 1
    BY <2>2, <2>4, FS_RemoveElement
  <2>6. Cardinality(BelowIn(ch, c)) <= Cardinality(B \ {n})
    BY <2>3, <2>5, FS_Subset
  <2> QED BY <2>4, <2>5, <2>6 DEF Size
<1> QED BY <1>1, <1>2, <1>3

\* Leftmost is the function that its equation describes.
LEMMA LeftmostIs ==
  ASSUME LinkedIn(live, parent, children)
  PROVE  \A n \in live :
           Leftmost[n] = IF children[n][0] = NoNode THEN n ELSE Leftmost[children[n][0]]
<1> DEFINE next == [n \in live |-> children[n][0]]
           base == [n \in live |-> n]
           rank == [n \in live |-> Size(children, n)]
<1>1. /\ children \in Kids /\ AcyclicIn(children) /\ live \in SUBSET Nodes /\ 0 \in Sides
      /\ \A n \in live : children[n][0] \in live \cup {NoNode}
  BY DEF LinkedIn, Sides
<1>2. rank \in [live -> 0 .. Cardinality(Nodes)] /\ next \in [live -> live \cup {NoNode}]
      /\ Cardinality(Nodes) \in Nat /\ NoNode \notin live
  BY <1>1, ChildSmaller, NodesAssumption
<1>3. \A n \in live : next[n] # NoNode => rank[next[n]] < rank[n]
  BY <1>1, ChildSmaller
<1>4. PICK f : Follows(f, live, next, base)
  <2> HIDE DEF next, base, rank
  <2> QED BY <1>2, <1>3, FollowExists
<1>5. \A n \in live : f[n] = IF children[n][0] = NoNode THEN n ELSE f[children[n][0]]
  BY <1>4 DEF Follows
<1>6. f = [n \in live |-> f[n]]
  BY <1>4 DEF Follows
<1>7. f = [n \in live |-> IF children[n][0] = NoNode THEN n ELSE f[children[n][0]]]
  BY <1>5, <1>6
<1>8. Leftmost = [n \in live |-> IF children[n][0] = NoNode THEN n ELSE Leftmost[children[n][0]]]
  BY <1>7 DEF Leftmost
<1> QED BY <1>8

\* And so is UpFromRight.
LEMMA UpFromRightIs ==
  ASSUME LinkedIn(live, parent, children)
  PROVE  \A n \in live : UpFromRight[n] = IF parent[n] = NoNode \/ IsLeft(n) THEN parent[n]
                                          ELSE UpFromRight[parent[n]]
<1> DEFINE next == [n \in live |-> IF parent[n] = NoNode \/ IsLeft(n) THEN NoNode ELSE parent[n]]
           base == [n \in live |-> parent[n]]
           K == Cardinality(Nodes)
           rank == [n \in live |-> K - Size(children, n)]
<1>1. /\ children \in Kids /\ AcyclicIn(children) /\ live \in SUBSET Nodes
      /\ \A n \in live : parent[n] # NoNode =>
           parent[n] \in live /\ \E i \in Sides : children[parent[n]][i] = n
  BY DEF LinkedIn
<1>2. /\ K \in Nat /\ NoNode \notin live
      /\ \A n \in live : Size(children, n) \in 0 .. K
      /\ \A n \in live : parent[n] # NoNode => Size(children, n) < Size(children, parent[n])
  <2>1. K \in Nat /\ NoNode \notin live /\ \A n \in live : Size(children, n) \in 0 .. K
    BY <1>1, ChildSmaller, NodesAssumption
  <2>2. ASSUME NEW n \in live, parent[n] # NoNode
        PROVE  Size(children, n) < Size(children, parent[n])
    <3>1. PICK i \in Sides : children[parent[n]][i] = n
      BY <1>1, <2>2
    <3> QED BY <1>1, <2>1, <2>2, <3>1, ChildSmaller
  <2> QED BY <2>1, <2>2
<1> HIDE DEF K
<1>3. rank \in [live -> 0 .. K] /\ next \in [live -> live \cup {NoNode}]
  BY <1>1, <1>2
<1>4. \A n \in live : next[n] # NoNode => rank[next[n]] < rank[n]
  <2> SUFFICES ASSUME NEW n \in live, next[n] # NoNode PROVE rank[next[n]] < rank[n]
    OBVIOUS
  <2>1. next[n] = parent[n] /\ parent[n] # NoNode /\ parent[n] \in live
    BY <1>1
  <2>2. rank[n] = K - Size(children, n) /\ rank[next[n]] = K - Size(children, parent[n])
    BY <2>1
  <2>3. Size(children, n) \in Int /\ Size(children, parent[n]) \in Int /\ K \in Int
        /\ Size(children, n) < Size(children, parent[n])
    BY <1>2, <2>1
  <2> HIDE DEF rank, next
  <2> QED BY <2>2, <2>3
<1>5. PICK f : Follows(f, live, next, base)
  <2> HIDE DEF next, base, rank
  <2> QED BY <1>2, <1>3, <1>4, FollowExists
<1>6. \A n \in live : f[n] = IF parent[n] = NoNode \/ IsLeft(n) THEN parent[n] ELSE f[parent[n]]
  <2> SUFFICES ASSUME NEW n \in live
               PROVE  f[n] = IF parent[n] = NoNode \/ IsLeft(n) THEN parent[n] ELSE f[parent[n]]
    OBVIOUS
  <2>1. f[n] = IF next[n] = NoNode THEN base[n] ELSE f[next[n]]
    BY <1>5 DEF Follows
  <2>2. /\ next[n] = IF parent[n] = NoNode \/ IsLeft(n) THEN NoNode ELSE parent[n]
        /\ base[n] = parent[n]
    OBVIOUS
  <2> HIDE DEF next, base
  <2> QED BY <2>1, <2>2
<1>7. f = [n \in live |-> f[n]]
  BY <1>5 DEF Follows
<1>8. f = [n \in live |-> IF parent[n] = NoNode \/ IsLeft(n) THEN parent[n] ELSE f[parent[n]]]
  BY <1>6, <1>7
<1>9. UpFromRight = [n \in live |-> IF parent[n] = NoNode \/ IsLeft(n) THEN parent[n]
                                    ELSE UpFromRight[parent[n]]]
  BY <1>8 DEF UpFromRight
<1> QED BY <1>9

\* t is the first of the tree below n.
IsFirst(t, n) ==
  /\ t \in live /\ t \in BelowIn(children, n)
  /\ \A x \in BelowIn(children, n) : x = t \/ IsAfter(children, t, x)
  /\ \A x : IsAfter(children, t, x) => x \in BelowIn(children, n) \/ IsOutside(children, n, x)
  /\ \A x : IsOutside(children, n, x) => IsAfter(children, t, x)

\* Leftmost finds the first.
LEMMA LeftmostFirst ==
  ASSUME LinkedIn(live, parent, children), NEW n \in live
  PROVE  IsFirst(Leftmost[n], n)
<1> DEFINE T == {d \in live : IsFirst(Leftmost[d], d)}
           rank == [d \in live |-> Size(children, d)]
<1>1. /\ children \in Kids /\ AcyclicIn(children) /\ live \in SUBSET Nodes /\ 0 \in Sides
      /\ \A d \in live : children[d][0] \in live \cup {NoNode}
  BY DEF LinkedIn, Sides
<1>2. /\ Cardinality(Nodes) \in Nat /\ rank \in [live -> 0 .. Cardinality(Nodes)]
      /\ \A d \in live : children[d][0] # NoNode => rank[children[d][0]] < rank[d]
  BY <1>1, ChildSmaller
<1>3. ASSUME NEW d \in live, \A e \in live : rank[e] < rank[d] => e \in T PROVE d \in T
  <2> DEFINE l == children[d][0]
  <2>1. BelowIn(children, d) = {d} \cup BelowIn(children, l) \cup BelowIn(children, children[d][1])
    BY <1>1, BelowParts
  <2>2. Leftmost[d] = IF l = NoNode THEN d ELSE Leftmost[l]
    BY LeftmostIs
  <2>3. CASE l = NoNode
    <3>1. Leftmost[d] = d /\ BelowIn(children, l) = {}
      BY <2>2, <2>3, BelowNone
    <3>2. IsFirst(d, d)
      BY <2>1, <3>1, AfterParts DEF IsFirst
    <3> QED BY <3>1, <3>2
  <2>4. CASE l # NoNode
    <3> DEFINE t == Leftmost[l]
    <3>1. l \in live /\ Leftmost[d] = t /\ d \in Nodes
      BY <1>1, <2>2, <2>4
    <3>2. IsFirst(t, l)
      BY <1>2, <1>3, <2>4, <3>1
    <3>3. \A x : IsOutside(children, l, x) <=> x = d \/ IsAfter(children, d, x)
      BY <2>4, <3>1, OutsideLeft
    <3> HIDE DEF t
    <3>4. \A x \in BelowIn(children, d) : x = t \/ IsAfter(children, t, x)
      BY <2>1, <3>2, <3>3, AfterParts DEF IsFirst
    <3>5. \A x : IsAfter(children, t, x) =>
                   x \in BelowIn(children, d) \/ IsOutside(children, d, x)
      BY <2>1, <3>2, <3>3, AfterParts DEF IsFirst
    <3>6. \A x : IsOutside(children, d, x) => IsAfter(children, t, x)
      BY <3>2, <3>3, AfterParts DEF IsFirst
    <3>7. t \in live /\ t \in BelowIn(children, d)
      BY <2>1, <3>2 DEF IsFirst
    <3>8. IsFirst(t, d)
      BY <3>4, <3>5, <3>6, <3>7 DEF IsFirst
    <3> QED BY <3>1, <3>8
  <2> QED BY <2>3, <2>4
<1>4. live \subseteq T
  <2> HIDE DEF T, rank
  <2> QED BY <1>2, <1>3, ByRank
<1> QED BY <1>4

\* q is the next outside of the tree below n, or there is none.
IsOuter(q, n) ==
  /\ q \in live \cup {NoNode}
  /\ q = NoNode => \A x : ~IsOutside(children, n, x)
  /\ q # NoNode => \A x : IsOutside(children, n, x) <=> x = q \/ IsAfter(children, q, x)

\* UpFromRight finds it.
LEMMA UpFromRightOuter ==
  ASSUME LinkedIn(live, parent, children), NEW n \in live
  PROVE  IsOuter(UpFromRight[n], n)
<1> DEFINE T == {d \in live : IsOuter(UpFromRight[d], d)}
           K == Cardinality(Nodes)
           rank == [d \in live |-> K - Size(children, d)]
<1>1. /\ children \in Kids /\ AcyclicIn(children) /\ live \in SUBSET Nodes
      /\ \A d \in live : parent[d] # NoNode =>
           parent[d] \in live /\ \E i \in Sides : children[parent[d]][i] = d
  BY DEF LinkedIn
<1>2. K \in Nat /\ NoNode \notin live /\ \A d \in live : Size(children, d) \in 0 .. K
  BY <1>1, ChildSmaller, NodesAssumption
<1>3. ASSUME NEW d \in live, parent[d] # NoNode PROVE rank[parent[d]] < rank[d]
  <2>1. PICK i \in Sides : children[parent[d]][i] = d
    BY <1>1, <1>3
  <2>2. parent[d] \in live /\ Size(children, d) < Size(children, parent[d])
    BY <1>1, <1>2, <1>3, <2>1, ChildSmaller
  <2>3. Size(children, d) \in Int /\ Size(children, parent[d]) \in Int /\ K \in Int
    BY <1>2, <2>2
  <2>4. rank[d] = K - Size(children, d) /\ rank[parent[d]] = K - Size(children, parent[d])
    BY <2>2
  <2> HIDE DEF rank, K
  <2> QED BY <2>2, <2>3, <2>4
<1>4. rank \in [live -> 0 .. K]
  <2> HIDE DEF K
  <2> QED BY <1>2
<1>5. ASSUME NEW d \in live, \A e \in live : rank[e] < rank[d] => e \in T PROVE d \in T
  <2> DEFINE p == parent[d]
             q == UpFromRight[d]
  <2>1. q = IF p = NoNode \/ IsLeft(d) THEN p ELSE UpFromRight[p]
    BY UpFromRightIs
  <2>2. d \in Nodes /\ d # NoNode
    BY <1>1, <1>2
  <2> HIDE DEF q
  <2>3. CASE p = NoNode
    <3>1. q = NoNode /\ \A x : ~IsOutside(children, d, x)
      BY <2>1, <2>2, <2>3, OutsideRoot
    <3>2. IsOuter(q, d)
      BY <3>1 DEF IsOuter
    <3> QED BY <3>2 DEF q
  <2>4. CASE p # NoNode /\ IsLeft(d)
    <3>1. q = p /\ p \in live /\ p \in Nodes /\ children[p][0] = d
      BY <1>1, <2>1, <2>4 DEF IsLeft
    <3>2. \A x : IsOutside(children, d, x) <=> x = p \/ IsAfter(children, p, x)
      BY <2>2, <3>1, OutsideLeft
    <3>3. IsOuter(q, d)
      BY <2>4, <3>1, <3>2 DEF IsOuter
    <3> QED BY <3>3 DEF q
  <2>5. CASE p # NoNode /\ ~IsLeft(d)
    <3>1. q = UpFromRight[p] /\ p \in live /\ p \in Nodes
      BY <1>1, <2>1, <2>5
    <3>2. PICK i \in Sides : children[p][i] = d
      BY <1>1, <2>5
    <3>3. children[p][1] = d
      BY <2>5, <3>2 DEF Sides, IsLeft
    <3>4. \A x : IsOutside(children, d, x) <=> IsOutside(children, p, x)
      BY <2>2, <3>1, <3>3, OutsideRight
    <3>5. IsOuter(q, p)
      BY <1>3, <1>5, <2>5, <3>1
    <3>6. IsOuter(q, d)
      BY <3>4, <3>5 DEF IsOuter
    <3> QED BY <3>6 DEF q
  <2> QED BY <2>3, <2>4, <2>5
<1>6. live \subseteq T
  <2> HIDE DEF T, rank, K
  <2> QED BY <1>2, <1>4, <1>5, ByRank
<1> QED BY <1>6

\* bst_next() goes to the next in the order, if there is one.
LEMMA BstNextIs ==
  ASSUME LinkedIn(live, parent, children), NEW n \in live, NEW q, q = BstNext(n)
  PROVE  /\ q \in live \cup {NoNode}
         /\ q = NoNode => \A x : ~IsAfter(children, n, x)
         /\ q # NoNode => \A x : IsAfter(children, n, x) <=> x = q \/ IsAfter(children, q, x)
<1> DEFINE r == children[n][1]
<1>1. /\ children \in Kids /\ live \in SUBSET Nodes /\ 1 \in Sides
      /\ r \in live \cup {NoNode} /\ NoNode \notin live
  BY NodesAssumption DEF LinkedIn, Sides
<1>2. CASE r # NoNode
  <2>1. q = Leftmost[r] /\ r \in live
    BY <1>1, <1>2 DEF BstNext
  <2>2. IsFirst(q, r)
    BY <2>1, LeftmostFirst
  <2>3. \A x : IsOutside(children, r, x) <=> IsOutside(children, n, x)
    BY <1>1, <1>2, OutsideRight
  <2> HIDE DEF r
  <2>4. \A x : IsAfter(children, n, x) <=>
                 x \in BelowIn(children, r) \/ IsOutside(children, n, x)
    BY AfterParts DEF r
  <2> QED BY <1>1, <2>2, <2>3, <2>4 DEF IsFirst
<1>3. CASE r = NoNode
  <2>1. q = UpFromRight[n]
    BY <1>3 DEF BstNext
  <2>2. IsOuter(q, n)
    BY <2>1, UpFromRightOuter
  <2>3. \A x : IsAfter(children, n, x) <=> IsOutside(children, n, x)
    BY <1>3, AfterParts, BelowNone
  <2> QED BY <2>2, <2>3 DEF IsOuter
<1> QED BY <1>2, <1>3

\* Where a walk is, what it has met and what it has to meet.
WalkIn(L, ch, at, met, owed) ==
  /\ at \in L \cup {NoNode}
  /\ at = NoNode => owed \subseteq met
  /\ at # NoNode =>
       /\ \A x \in owed \ met : IsAfter(ch, at, x)
       /\ \A x \in met : ~IsAfter(ch, at, x) /\ Together(ch, at, x)

WalkInv ==
  /\ walk = [at |-> walk.at, met |-> walk.met, due |-> walk.due]
  /\ IF user = "forest" THEN WalkIn(live, children, walk.at, walk.met, walk.due)
     ELSE walk = NoWalk

\* What After says is what comes after.
LEMMA AfterIs ==
  ASSUME LinkedIn(live, parent, children), NEW n \in Nodes
  PROVE  \A x : x \in After(n) <=> IsAfter(children, n, x)
<1>1. n # NoNode /\ 0 \in Sides /\ children \in Kids /\ live \subseteq Nodes
  BY NodesAssumption DEF LinkedIn, Sides
<1>2. \A p \in Nodes : n \in BelowIn(children, children[p][0]) => p \in live
  BY <1>1, BelowNone DEF LinkedIn
<1>3. After(n) = BelowIn(children, children[n][1]) \cup
        UNION {{m} \cup BelowIn(children, children[m][1]) :
                 m \in {p \in live : n \in BelowIn(children, children[p][0])}}
  BY <1>1, BelowSame DEF After
<1> QED BY <1>1, <1>2, <1>3 DEF IsAfter

\* And after a step.
LEMMA AfterIsNext ==
  ASSUME LinkedIn(live', parent', children'), NEW n \in Nodes
  PROVE  \A x : x \in After(n)' <=> IsAfter(children', n, x)
<1>1. n # NoNode /\ 0 \in Sides /\ children' \in Kids /\ live' \subseteq Nodes
  BY NodesAssumption DEF LinkedIn, Sides
<1>2. \A p \in Nodes : n \in BelowIn(children', children'[p][0]) => p \in live'
  BY <1>1, BelowNone DEF LinkedIn
<1>3. After(n)' = BelowIn(children', children'[n][1]) \cup
        UNION {{m} \cup BelowIn(children', children'[m][1]) :
                 m \in {p \in live' : n \in BelowIn(children', children'[p][0])}}
  BY <1>1, BelowSame DEF After
<1> QED BY <1>1, <1>2, <1>3 DEF IsAfter

\* The nodes of a tree are together.
LEMMA TreeIsNext ==
  ASSUME LinkedIn(live', parent', children'), NEW n \in Nodes, NEW x \in TreeOf(n)'
  PROVE  Together(children', n, x)
<1>1. live' \subseteq Nodes
  BY DEF LinkedIn
<1>2. TreeOf(n)' = UNION {BelowIn(children', r) :
                            r \in {m \in live' : n \in BelowIn(children', m)}}
  BY BelowSame DEF TreeOf
<1> QED BY <1>1, <1>2 DEF Together

\* A walk stays what it is when links are added, or taken away.
LEMMA WalkOnKeeps ==
  ASSUME WalkInv, user = "forest", user' = user,
         LinkedIn(live, parent, children), LinkedIn(live', parent', children'),
         Fewer(children, children') \/ Fewer(children', children),
         walk.at \in live' \cup {NoNode},
         WalkOn
  PROVE  WalkInv'
<1> DEFINE n == walk.at
           T == TreeOf(n)
<1>1. WalkIn(live, children, n, walk.met, walk.due)
  BY DEF WalkInv
<1>2. CASE n = NoNode
  <2>1. walk' = walk
    BY <1>2 DEF WalkOn
  <2>2. WalkIn(live', children', walk'.at, walk'.met, walk'.due)
    BY <1>1, <1>2, <2>1 DEF WalkIn
  <2> QED BY <2>1, <2>2 DEF WalkInv
<1>3. CASE n # NoNode
  <2>1. n \in Nodes /\ n \in live' /\ children \in Kids /\ children' \in Kids
    BY <1>1, <1>3 DEF LinkedIn, WalkIn
  <2>2. PICK k \in {n} :
          walk' = IF k = NoNode THEN walk
                  ELSE [at |-> k, met |-> walk.met \cap TreeOf(k)',
                        due |-> (walk.due \cap TreeOf(k)') \cup (After(k)' \ TreeOf(k))]
    BY DEF WalkOn
  <2>3. /\ k = n
        /\ walk' = [at |-> k, met |-> walk.met \cap TreeOf(k)',
                    due |-> (walk.due \cap TreeOf(k)') \cup (After(k)' \ TreeOf(k))]
    BY <1>3, <2>2
  <2>4. k \in Nodes /\ k \in live' /\ k # NoNode
    BY <1>3, <2>1, <2>3
  <2>5. /\ walk'.at = k /\ walk'.met = walk.met \cap TreeOf(k)'
        /\ walk'.due = (walk.due \cap TreeOf(k)') \cup (After(k)' \ TreeOf(k))
        /\ walk' = [at |-> walk'.at, met |-> walk'.met, due |-> walk'.due]
    BY <2>3
  <2>6. /\ \A x \in walk.due \ walk.met : IsAfter(children, k, x)
        /\ \A x \in walk.met : ~IsAfter(children, k, x) /\ Together(children, k, x)
    BY <1>1, <2>3, <2>4 DEF WalkIn
  <2>7. /\ \A x \in TreeOf(k)' : Together(children', k, x)
        /\ \A x \in After(k)' : IsAfter(children', k, x)
    BY <2>4, AfterIsNext, TreeIsNext
  <2> HIDE DEF n
  <2>8. ASSUME NEW x, x \in TreeOf(k)', IsAfter(children, k, x) PROVE IsAfter(children', k, x)
    <3>1. CASE Fewer(children, children')
      BY <2>1, <2>4, <2>8, <3>1, FewerAfter
    <3>2. CASE Fewer(children', children)
      <4>1. Pruned(live', parent', children', live, parent, children)
        BY <3>2 DEF Pruned
      <4>2. Together(children', k, x)
        BY <2>7, <2>8
      <4> QED BY <2>4, <2>8, <4>1, <4>2, OrderKept
    <3> QED BY <3>1, <3>2
  <2>9. ASSUME NEW x, Together(children, k, x), IsAfter(children', k, x)
        PROVE  IsAfter(children, k, x)
    <3>1. CASE Fewer(children', children)
      BY <2>1, <2>4, <2>9, <3>1, FewerAfter
    <3>2. CASE Fewer(children, children')
      <4>1. Pruned(live, parent, children, live', parent', children')
        BY <3>2 DEF Pruned
      <4> QED BY <2>4, <2>9, <4>1, OrderKept
    <3> QED BY <3>1, <3>2
  <2>10. ASSUME NEW x \in walk'.due \ walk'.met PROVE IsAfter(children', k, x)
    <3>1. CASE x \in After(k)'
      BY <2>7, <3>1
    <3>2. CASE x \notin After(k)'
      <4>1. x \in walk.due \ walk.met /\ x \in TreeOf(k)'
        BY <2>5, <3>2
      <4> QED BY <2>6, <2>8, <4>1
    <3> QED BY <3>1, <3>2
  <2>11. ASSUME NEW x \in walk'.met PROVE ~IsAfter(children', k, x) /\ Together(children', k, x)
    <3>1. x \in walk.met /\ x \in TreeOf(k)'
      BY <2>5
    <3> QED BY <2>6, <2>7, <2>9, <3>1
  <2>12. WalkIn(live', children', k, walk'.met, walk'.due)
    BY <2>4, <2>10, <2>11 DEF WalkIn
  <2> QED BY <2>5, <2>12 DEF WalkInv
<1> QED BY <1>2, <1>3

\* A step that leaves links and walk alone.
LEMMA WalkSame ==
  ASSUME WalkInv, UNCHANGED <<user, live, children, walk>>
  PROVE  WalkInv'
BY DEF WalkInv

\* The walk begins at the first node of a tree.
LEMMA WalkBeginKeeps ==
  ASSUME WalkInv, user = "forest", LinkedIn(live, parent, children), NEW n \in Nodes, WalkBegin(n)
  PROVE  WalkInv'
<1> DEFINE t == Leftmost[n]
<1>1. /\ n \in live /\ parent[n] = NoNode
      /\ walk' = [at |-> t, met |-> {t}, due |-> Below(n)]
      /\ user' = user /\ live' = live /\ children' = children
  BY DEF WalkBegin, links
<1>2. IsFirst(t, n)
  BY <1>1, LeftmostFirst
<1> HIDE DEF t
<1>3. /\ t \in live /\ t \in Nodes /\ t # NoNode
      /\ \A x \in BelowIn(children, n) : x = t \/ IsAfter(children, t, x)
  BY <1>2, NodesAssumption DEF IsFirst, LinkedIn
<1>4. ~IsAfter(children, t, t)
  BY <1>3, NotAfterItself
<1>5. Together(children, t, t)
  BY <1>3, BelowIs DEF Together, LinkedIn
<1>6. /\ walk'.at = t /\ walk'.met = {t} /\ walk'.due = BelowIn(children, n)
      /\ walk' = [at |-> walk'.at, met |-> walk'.met, due |-> walk'.due]
  BY <1>1, BelowSame
<1>7. WalkIn(live, children, t, walk'.met, walk'.due)
  BY <1>3, <1>4, <1>5, <1>6 DEF WalkIn
<1> QED BY <1>1, <1>6, <1>7 DEF WalkInv

\* It goes on to the next.
LEMMA WalkStepKeeps ==
  ASSUME WalkInv, user = "forest", LinkedIn(live, parent, children), WalkStep
  PROVE  WalkInv'
<1> DEFINE n == walk.at
           q == BstNext(n)
<1>1. /\ n # NoNode
      /\ walk' = [walk EXCEPT !.at = q, !.met = @ \cup ({q} \ {NoNode})]
      /\ user' = user /\ live' = live /\ children' = children
  BY DEF WalkStep, links
<1>2. WalkIn(live, children, n, walk.met, walk.due)
  BY DEF WalkInv
<1>3. n \in live /\ n \in Nodes
  BY <1>1, <1>2 DEF WalkIn, LinkedIn
<1>4. /\ q \in live \cup {NoNode}
      /\ q = NoNode => \A x : ~IsAfter(children, n, x)
      /\ q # NoNode => \A x : IsAfter(children, n, x) <=> x = q \/ IsAfter(children, q, x)
  BY <1>3, BstNextIs
<1> HIDE DEF n, q
<1>5. /\ walk'.at = q /\ walk'.met = walk.met \cup ({q} \ {NoNode}) /\ walk'.due = walk.due
      /\ walk' = [at |-> walk'.at, met |-> walk'.met, due |-> walk'.due]
  <2>1. walk = [at |-> walk.at, met |-> walk.met, due |-> walk.due]
    BY DEF WalkInv
  <2> QED BY <1>1, <2>1
<1>6. /\ \A x \in walk.due \ walk.met : IsAfter(children, n, x)
      /\ \A x \in walk.met : ~IsAfter(children, n, x) /\ Together(children, n, x)
  BY <1>1, <1>2 DEF WalkIn
<1>7. CASE q = NoNode
  <2>1. WalkIn(live, children, q, walk'.met, walk'.due)
    BY <1>4, <1>5, <1>6, <1>7 DEF WalkIn
  <2> QED BY <1>1, <1>5, <2>1 DEF WalkInv
<1>8. CASE q # NoNode
  <2>1. q \in live /\ q \in Nodes /\ children \in Kids
    BY <1>4, <1>8 DEF LinkedIn
  <2>2. ~IsAfter(children, q, q)
    BY <2>1, NotAfterItself
  <2>3. IsAfter(children, n, q)
    BY <1>4, <1>8
  <2>4. Together(children, n, q)
    BY <1>3, <2>1, <2>3, AfterTogether
  <2>5. ASSUME NEW x \in walk.met PROVE Together(children, q, x)
    BY <1>6, <2>4, TogetherTransitive
  <2>6. Together(children, q, q)
    BY <2>1, BelowIs DEF Together
  <2>7. ASSUME NEW x \in walk'.due \ walk'.met PROVE IsAfter(children, q, x)
    BY <1>4, <1>5, <1>6, <1>8
  <2>8. ASSUME NEW x \in walk'.met PROVE ~IsAfter(children, q, x) /\ Together(children, q, x)
    <3>1. CASE x = q
      BY <2>2, <2>6, <3>1
    <3>2. CASE x # q
      BY <1>4, <1>5, <1>6, <1>8, <2>5, <3>2
    <3> QED BY <3>1, <3>2
  <2>9. WalkIn(live, children, q, walk'.met, walk'.due)
    BY <1>8, <2>1, <2>7, <2>8 DEF WalkIn
  <2> QED BY <1>1, <1>5, <2>9 DEF WalkInv
<1> QED BY <1>7, <1>8

\* There is no walk.
LEMMA NoWalkInv == walk' = NoWalk => WalkInv'
BY DEF WalkInv, WalkIn, NoWalk

\* Links that are added or taken away.
LEMMA WalkFewer ==
  ASSUME ForestInv, user = "forest", NEW n \in Nodes,
         Emplace(n) \/ (\E i \in Sides : LinkChild(i, n) \/ EmplaceChild(i, n))
  PROVE  Fewer(children, children') /\ live \subseteq live' /\ user' = user /\ WalkOn
<1>1. LinkedIn(live, parent, children) /\ children \in Kids
  BY DEF ForestInv, LinkedIn
<1>2. CASE Emplace(n)
  <2>1. \A i \in Sides : children[n][i] = NoNode
    BY <1>1, <1>2 DEF Emplace, LinkedIn
  <2>2. children' = [children EXCEPT ![n] = NoChildren]
    BY <1>2 DEF Emplace
  <2>3. Fewer(children, children')
    BY <1>1, <2>1, <2>2 DEF Fewer, Kids, NoChildren
  <2> QED BY <1>2, <2>3 DEF Emplace
<1>3. ASSUME NEW i \in Sides, LinkChild(i, n)
      PROVE  Fewer(children, children') /\ live \subseteq live' /\ user' = user /\ WalkOn
  <2> DEFINE m == acc.handle
  <2>1. /\ m \in Nodes /\ children[m][i] = NoNode
        /\ children' = [children EXCEPT ![m][i] = n]
    BY <1>1, <1>3 DEF LinkChild, LinkedIn
  <2> HIDE DEF m
  <2>2. Fewer(children, children')
    BY <1>1, <2>1 DEF Fewer, Kids
  <2> QED BY <1>3, <2>2 DEF LinkChild
<1>4. ASSUME NEW i \in Sides, EmplaceChild(i, n)
      PROVE  Fewer(children, children') /\ live \subseteq live' /\ user' = user /\ WalkOn
  <2> DEFINE m == acc.handle
  <2>1. /\ m \in Nodes /\ children[m][i] = NoNode /\ m # n
        /\ children' = [children EXCEPT ![m][i] = n, ![n] = NoChildren]
        /\ \A j \in Sides : children[n][j] = NoNode
    BY <1>1, <1>4 DEF EmplaceChild, LinkedIn
  <2> HIDE DEF m
  <2>2. Fewer(children, children')
    <3>1. ASSUME NEW k \in Nodes, NEW j \in Sides
          PROVE  children[k][j] \in {children'[k][j], NoNode}
      BY <1>1, <2>1 DEF Kids
    <3> QED BY <3>1 DEF Fewer
  <2> QED BY <1>4, <2>2 DEF EmplaceChild
<1> QED BY <1>2, <1>3, <1>4

\* Links that are taken away with a node.
LEMMA WalkFewerNext ==
  ASSUME ForestInv, user = "forest", UnlinkAndErase \/ Erase
  PROVE  /\ Fewer(children', children) /\ live' = live \ {acc.handle} /\ walk.at # acc.handle
         /\ user' = user /\ WalkOn
<1>1. children \in Kids
  BY DEF ForestInv, LinkedIn
<1>2. CASE UnlinkAndErase
  <2>1. children' = ChildrenWithout(acc.handle)
    BY <1>2 DEF UnlinkAndErase
  <2>2. Fewer(children', children)
    BY <1>1, <2>1 DEF Fewer, ChildrenWithout, NoChildren
  <2> QED BY <1>2, <2>2 DEF UnlinkAndErase, EraseUnchecked
<1>3. CASE Erase
  BY <1>3 DEF Erase, EraseUnchecked, Fewer
<1> QED BY <1>2, <1>3

\* Every step keeps the walk in order.
LEMMA WalkInvNext == ForestInv /\ WalkInv /\ [Next]_allVars => WalkInv'
<1> SUFFICES ASSUME ForestInv, WalkInv, [Next]_allVars PROVE WalkInv'
  OBVIOUS
<1>1. ForestInv'
  BY ForestInvNext
<1>2. CASE UNCHANGED allVars
  BY <1>2, WalkSame DEF allVars, forestVars, links
<1>3. CASE KdNext
  <2>1. user = "kd"
    BY <1>3 DEF KdNext
  <2>2. user' = user /\ walk' = walk
    BY <1>3 DEF KdNext, Insert, InsertRoot, InsertBelow, NewNode, EraseBox, EachBegin, EachPass,
       EachMeet, EachContinue, EachBreak, EachSide, EachEnd, forestVars
  <2> QED BY <2>1, <2>2 DEF WalkInv
<1>4. CASE ForestNext
  <2>1. user = "forest" /\ LinkedIn(live, parent, children)
    BY <1>4 DEF ForestNext, ForestInv
  <2>2. walk.at \in live \cup {NoNode}
    BY <2>1 DEF WalkInv, WalkIn
  <2>3. ASSUME NEW n \in Nodes,
               Emplace(n) \/ (\E i \in Sides : LinkChild(i, n) \/ EmplaceChild(i, n))
        PROVE  WalkInv'
    <3>1. Fewer(children, children') /\ live \subseteq live' /\ user' = user /\ WalkOn
      BY <2>1, <2>3, WalkFewer
    <3>2. LinkedIn(live', parent', children')
      BY <1>1, <2>1, <3>1 DEF ForestInv
    <3> QED BY <2>1, <2>2, <3>1, <3>2, WalkOnKeeps
  <2>4. CASE UnlinkAndErase \/ Erase
    <3>1. /\ Fewer(children', children) /\ live' = live \ {acc.handle} /\ walk.at # acc.handle
          /\ user' = user /\ WalkOn
      BY <2>1, <2>4, WalkFewerNext
    <3>2. LinkedIn(live', parent', children')
      BY <1>1, <2>1, <3>1 DEF ForestInv
    <3> QED BY <2>1, <2>2, <3>1, <3>2, WalkOnKeeps
  <2>5. ASSUME NEW n, Goto(n) PROVE WalkInv'
    BY <2>5, WalkSame DEF Goto, links
  <2>6. CASE GotoParent
    BY <2>5, <2>6 DEF GotoParent
  <2>7. ASSUME NEW i \in Sides, GotoChild(i) PROVE WalkInv'
    BY <2>5, <2>7 DEF GotoChild
  <2>8. ASSUME NEW n \in Nodes, GotoNode(n) PROVE WalkInv'
    BY <2>5, <2>8 DEF GotoNode
  <2>9. ASSUME NEW n \in Nodes, WalkBegin(n) PROVE WalkInv'
    BY <2>1, <2>9, WalkBeginKeeps
  <2>10. CASE WalkStep
    BY <2>1, <2>10, WalkStepKeeps
  <2>11. CASE WalkEnd
    BY <2>11, NoWalkInv DEF WalkEnd
  <2>12. \/ \E n \in Nodes : Emplace(n) \/ GotoNode(n)
         \/ \E i \in Sides, n \in Nodes : LinkChild(i, n) \/ EmplaceChild(i, n)
         \/ UnlinkAndErase \/ Erase
         \/ GotoParent
         \/ \E i \in Sides : GotoChild(i)
         \/ \E n \in Nodes : WalkBegin(n)
         \/ WalkStep \/ WalkEnd
    BY <1>4 DEF ForestNext
  <2> QED BY <2>3, <2>4, <2>6, <2>7, <2>8, <2>9, <2>10, <2>11, <2>12
<1> QED BY <1>2, <1>3, <1>4 DEF Next

\* An in-order walk meets the nodes of its tree in their order and none twice,
\* whatever its body links and erases: what it has met lies behind it, what it has
\* yet to meet, ahead.
THEOREM WalksInOrder == Spec => []WalkInOrder
<1>1. Init => WalkInv
  BY DEF Init, ForestInit, WalkInv, WalkIn, NoWalk
<1>2. ForestInv /\ WalkInv => WalkInOrder
  <2> SUFFICES ASSUME ForestInv, WalkInv PROVE WalkInOrder
    OBVIOUS
  <2>1. CASE walk.at = NoNode
    <3>1. After(walk.at) = {}
      BY <2>1 DEF After
    <3>2. walk.due \subseteq walk.met
      BY <2>1 DEF WalkInv, WalkIn, NoWalk
    <3> QED BY <3>1, <3>2 DEF WalkInOrder
  <2>2. CASE walk.at # NoNode
    <3>1. user = "forest"
      BY <2>2 DEF WalkInv, NoWalk
    <3>2. LinkedIn(live, parent, children) /\ WalkIn(live, children, walk.at, walk.met, walk.due)
      BY <3>1 DEF ForestInv, WalkInv
    <3>3. walk.at \in Nodes
      BY <2>2, <3>2 DEF WalkIn, LinkedIn
    <3>4. \A x : x \in After(walk.at) <=> IsAfter(children, walk.at, x)
      BY <3>2, <3>3, AfterIs
    <3> QED BY <2>2, <3>2, <3>4 DEF WalkIn, WalkInOrder
  <2> QED BY <2>1, <2>2
<1> QED BY <1>1, <1>2, ForestInvAlways, WalkInvNext, PTL DEF Spec

----------------------------------------------------------------------------
(* The kd tree *)

\* Every live node is below the root; each has its axis, and its children have the
\* next one.
KdTree(L, up, ch, rt, ax) ==
  /\ LinkedIn(L, up, ch)
  /\ rt = NoNode => L = {}
  /\ rt # NoNode => rt \in L /\ L \subseteq BelowIn(ch, rt) /\ ax[rt] = 0
  /\ ax \in [Nodes -> 0 .. Dim - 1]
  /\ \A n \in Nodes, i \in Sides : ch[n][i] # NoNode => ax[ch[n][i]] = NextAxis(ax[n])

\* What has been read of an uninitialized bound is a number, or none.
Bounds == Int \cup {NaN}

\* A bound that tells how far a box reaches; one that is no number tells nothing,
\* and hides the box.
ReachesTo(lt, x) == lt \in Int /\ x <= lt
ReachesFrom(rf, x) == rf = NaN \/ (rf \in Int /\ rf <= x)

\* The boxes below the left child of a node reach no further than its l_to, those
\* below the right child begin no earlier than its r_fr, if that is a number.  Both
\* have been read if it has a child.
BoundsIn(L, ch, ax, bx, lt, rf) ==
  /\ bx \in [Nodes -> Boxes \cup {Unread}] /\ \A n \in L : bx[n] \in Boxes
  /\ lt \in [Nodes -> Bounds \cup {Unread}] /\ rf \in [Nodes -> Bounds \cup {Unread}]
  /\ \A n \in L, i \in Sides : ch[n][i] # NoNode => lt[n] \in Bounds /\ rf[n] \in Bounds
  /\ \A n \in L : /\ \A m \in BelowIn(ch, ch[n][0]) : ReachesTo(lt[n], bx[m].max[ax[n]])
                  /\ \A m \in BelowIn(ch, ch[n][1]) : ReachesFrom(rf[n], bx[m].min[ax[n]])

\* The places where a search looks: the nodes themselves, and their sides.
Places(ch, n) == BelowIn(ch, n) \X (-1 .. 1)

\* Those that a frame leads to.
Region(ch, f) ==
  IF f.next = Itself THEN Places(ch, f.node)
  ELSE {<<f.node, f.next>>} \cup Places(ch, ch[f.node][f.next])

Frames(L, ax) == {f \in [node : L, axis : 0 .. Dim - 1, next : -1 .. 1] : f.axis = ax[f.node]}

\* No place is reached from two frames.
StackIn(L, ch, ax, st) ==
  /\ st \in Seq(Frames(L, ax))
  /\ \A j, k \in 1 .. Len(st) : j # k => Region(ch, st[j]) \cap Region(ch, st[k]) = {}

\* Where a search is yet to look.
LeftOf(ch, st) == UNION {Region(ch, st[k]) : k \in 1 .. Len(st)}

\* A search is a record of these.
SearchFields(s) ==
  s = [box |-> s.box, stack |-> s.stack, met |-> s.met, due |-> s.due, calling |-> s.calling]

\* A search meets no box twice, and every one that is due it has met, or has yet
\* to come to.
SearchIn(s, L, ch, ax, bx, er) ==
  /\ SearchFields(s)
  /\ s.box \in Asked
  /\ StackIn(L, ch, ax, s.stack)
  /\ s.met \in Seq(L)
  /\ \A j, k \in 1 .. Len(s.met) : s.met[j] = s.met[k] => j = k
  /\ \A k \in 1 .. Len(s.met) : <<s.met[k], Itself>> \notin LeftOf(ch, s.stack)
  /\ s.due \subseteq L /\ \A m \in s.due : Intersects(bx[m], s.box)
  /\ \A m \in s.due \ er :
       (\E k \in 1 .. Len(s.met) : s.met[k] = m) \/ <<m, Itself>> \in LeftOf(ch, s.stack)

\* What holds of the tree, whatever a search does.
TreeHas(up, ax) ==
  /\ KdTree(live, up, children, root, ax)
  /\ BoundsIn(live, children, ax, aabb, l_to, r_fr)
  /\ erased \subseteq live /\ counter = Cardinality(live \ erased)

\* None of these is hidden.
Seen(L, ch, rf, D) == \A n \in L : rf[n] = NaN => BelowIn(ch, ch[n][1]) \cap D = {}

SearchOf(s, ax) ==
  /\ root # NoNode
  /\ SearchIn(s, live, children, ax, aabb, erased)
  /\ Seen(live, children, r_fr, s.due)

SearchHas(ax) == search # NoSearch => SearchOf(search, ax)

KdInv ==
  /\ user = "kd" => \E up, ax : TreeHas(up, ax) /\ SearchHas(ax)
  /\ user # "kd" => search = NoSearch /\ root = NoNode

\* A side is 0 or 1.
LEMMA SidesAre == Sides = {0, 1} /\ Itself = -1 /\ -1 .. 1 = {-1, 0, 1}
BY DEF Sides, Itself

\* What is below a live node is live.
LEMMA BelowLive ==
  ASSUME NEW L, NEW up, NEW ch, LinkedIn(L, up, ch), NEW n \in L
  PROVE  n \in Nodes /\ BelowIn(ch, n) \subseteq L
<1>1. n \in Nodes /\ L \in SUBSET Nodes /\ ch \in Kids
  BY DEF LinkedIn
<1>2. ClosedIn(ch, L)
  BY <1>1 DEF LinkedIn, ClosedIn
<1> QED BY <1>1, <1>2, BelowIs

\* The places of a node are itself, and those of its two sides.
LEMMA RegionParts ==
  ASSUME NEW L, NEW up, NEW ch, LinkedIn(L, up, ch), NEW f, f.node \in L, f.next = Itself,
         NEW g, NEW h, g.node = f.node, h.node = f.node, g.next = 0, h.next = 1
  PROVE  /\ Region(ch, f) = {<<f.node, Itself>>} \cup Region(ch, g) \cup Region(ch, h)
         /\ Region(ch, g) \cap Region(ch, h) = {}
         /\ <<f.node, Itself>> \notin Region(ch, g) \cup Region(ch, h)
<1> DEFINE n == f.node
           A == BelowIn(ch, ch[n][0])
           B == BelowIn(ch, ch[n][1])
<1>1. n \in Nodes /\ ch \in Kids /\ AcyclicIn(ch)
  BY DEF LinkedIn
<1>2. BelowIn(ch, n) = {n} \cup A \cup B /\ A \cap B = {}
  BY <1>1, BelowParts, SidesDisjoint
<1>3. n \notin A /\ n \notin B
  BY <1>1, SidesAre DEF AcyclicIn
<1>4. /\ Region(ch, f) = BelowIn(ch, n) \X {-1, 0, 1}
      /\ Region(ch, g) = {<<n, 0>>} \cup A \X {-1, 0, 1}
      /\ Region(ch, h) = {<<n, 1>>} \cup B \X {-1, 0, 1}
  BY SidesAre DEF Region, Places
<1> HIDE DEF A, B, n
<1>5. Region(ch, f) = {<<n, -1>>} \cup Region(ch, g) \cup Region(ch, h)
  <2>1. ({n} \cup A \cup B) \X {-1, 0, 1}
          = {<<n, -1>>, <<n, 0>>, <<n, 1>>} \cup A \X {-1, 0, 1} \cup B \X {-1, 0, 1}
    OBVIOUS
  <2> QED BY <1>2, <1>4, <2>1
<1>6. Region(ch, g) \cap Region(ch, h) = {}
  BY <1>2, <1>3, <1>4
<1>7. <<n, -1>> \notin Region(ch, g) \cup Region(ch, h)
  BY <1>3, <1>4
<1> QED BY <1>5, <1>6, <1>7, SidesAre DEF n

\* Those of a side are the side, and what its child leads to.
LEMMA RegionSide ==
  ASSUME NEW L, NEW up, NEW ch, LinkedIn(L, up, ch), NEW f, f.node \in L, f.next \in Sides,
         NEW c, c = ch[f.node][f.next], NEW axis
  PROVE  /\ c = NoNode => Region(ch, f) = {<<f.node, f.next>>}
         /\ c # NoNode => /\ c \in L
                          /\ Region(ch, f) = {<<f.node, f.next>>} \cup Region(ch, Frame(c, axis))
         /\ Region(ch, Frame(c, axis)) = Places(ch, c)
         /\ <<f.node, f.next>> \notin Places(ch, c)
<1>1. f.node \in Nodes /\ ch \in Kids /\ AcyclicIn(ch) /\ f.next # Itself
  BY SidesAre DEF LinkedIn
<1>2. f.node \notin BelowIn(ch, c)
  BY <1>1 DEF AcyclicIn
<1>3. Region(ch, Frame(c, axis)) = Places(ch, c)
  BY DEF Region, Frame
<1>4. Region(ch, f) = {<<f.node, f.next>>} \cup Places(ch, c)
  BY <1>1 DEF Region
<1>5. c = NoNode => Places(ch, c) = {}
  BY BelowNone DEF Places
<1>6. c # NoNode => c \in L
  BY <1>1 DEF LinkedIn
<1>7. <<f.node, f.next>> \notin Places(ch, c)
  BY <1>2 DEF Places
<1> QED BY <1>3, <1>4, <1>5, <1>6, <1>7

\* The frame at the top, and the others.
LEMMA TopOf ==
  ASSUME NEW T, NEW st \in Seq(T), st # <<>>
  PROVE  /\ Last(st) \in T /\ Len(st) \in Nat \ {0} /\ Last(st) = st[Len(st)]
         /\ Front(st) \in Seq(T) /\ Len(Front(st)) = Len(st) - 1
         /\ \A k \in 1 .. Len(st) - 1 : Front(st)[k] = st[k]
<1>1. Len(st) \in Nat \ {0} /\ \A k \in 1 .. Len(st) : st[k] \in T
  OBVIOUS
<1>2. Last(st) = st[Len(st)] /\ Front(st) = SubSeq(st, 1, Len(st) - 1)
  BY DEF Last, Front
<1> DEFINE n == Len(st)
<1>3. \A i \in 1 .. n - 1 : st[i] \in T
  BY <1>1
<1>4. /\ SubSeq(st, 1, n - 1) \in Seq(T)
      /\ Len(SubSeq(st, 1, n - 1)) = IF 1 <= n - 1 THEN (n - 1) - 1 + 1 ELSE 0
      /\ \A i \in 1 .. (n - 1) - 1 + 1 : SubSeq(st, 1, n - 1)[i] = st[1 + i - 1]
  <2>1. 1 \in Int /\ n - 1 \in Int
    BY <1>1
  <2> QED BY <1>3, <2>1, SubSeqProperties
<1>5. Len(Front(st)) = n - 1 /\ \A k \in 1 .. n - 1 : Front(st)[k] = st[k]
  <2>1. \A k \in 1 .. n - 1 : k \in 1 .. (n - 1) - 1 + 1 /\ 1 + k - 1 = k
    BY <1>1
  <2>2. \A k \in 1 .. n - 1 : SubSeq(st, 1, n - 1)[k] = st[1 + k - 1]
    BY <1>4, <2>1
  <2>3. Len(SubSeq(st, 1, n - 1)) = n - 1
    <3> DEFINE q == Len(SubSeq(st, 1, n - 1))
    <3>1. q = IF 1 <= n - 1 THEN (n - 1) - 1 + 1 ELSE 0
      BY <1>4
    <3> HIDE DEF q, n
    <3>2. n \in Nat \ {0}
      BY <1>1 DEF n
    <3>3. q = n - 1
      BY <3>1, <3>2
    <3> QED BY <3>3 DEF q
  <2> HIDE DEF n
  <2> QED BY <1>2, <2>1, <2>2, <2>3 DEF n
<1>6. Front(st) \in Seq(T) /\ Last(st) \in T
  BY <1>1, <1>2, <1>4
<1> QED BY <1>1, <1>2, <1>5, <1>6

\* What is left, apart from the top.
LEMMA LeftTop ==
  ASSUME NEW L, NEW ch, NEW ax, NEW st, StackIn(L, ch, ax, st), st # <<>>
  PROVE  /\ StackIn(L, ch, ax, Front(st))
         /\ Last(st) \in Frames(L, ax)
         /\ LeftOf(ch, st) = LeftOf(ch, Front(st)) \cup Region(ch, Last(st))
         /\ LeftOf(ch, Front(st)) \cap Region(ch, Last(st)) = {}
<1> DEFINE fr == Front(st)
           n == Len(st)
<1>1. /\ st \in Seq(Frames(L, ax)) /\ n \in Nat \ {0} /\ Last(st) \in Frames(L, ax)
      /\ Last(st) = st[n] /\ fr \in Seq(Frames(L, ax)) /\ Len(fr) = n - 1
      /\ \A k \in 1 .. n - 1 : fr[k] = st[k]
  BY TopOf DEF StackIn
<1> HIDE DEF fr, n
<1>2. \A j, k \in 1 .. n : j # k => Region(ch, st[j]) \cap Region(ch, st[k]) = {}
  BY DEF StackIn, n
<1>3. StackIn(L, ch, ax, fr)
  <2>1. \A j \in 1 .. Len(fr) : j \in 1 .. n /\ fr[j] = st[j]
    BY <1>1
  <2> QED BY <1>1, <1>2, <2>1 DEF StackIn
<1>4. 1 .. n = (1 .. n - 1) \cup {n} /\ n \notin 1 .. n - 1
  BY <1>1
<1>5. LeftOf(ch, st) = LeftOf(ch, fr) \cup Region(ch, Last(st))
  BY <1>1, <1>4 DEF LeftOf, n
<1>6. LeftOf(ch, fr) \cap Region(ch, Last(st)) = {}
  <2>1. \A k \in 1 .. n - 1 : Region(ch, fr[k]) \cap Region(ch, st[n]) = {}
    BY <1>1, <1>2, <1>4
  <2> QED BY <1>1, <2>1 DEF LeftOf
<1> QED BY <1>1, <1>3, <1>5, <1>6 DEF fr

\* A frame is put on top.
LEMMA LeftAppend ==
  ASSUME NEW L, NEW ch, NEW ax, NEW st, StackIn(L, ch, ax, st), NEW f \in Frames(L, ax),
         Region(ch, f) \cap LeftOf(ch, st) = {}
  PROVE  /\ StackIn(L, ch, ax, Append(st, f))
         /\ LeftOf(ch, Append(st, f)) = LeftOf(ch, st) \cup Region(ch, f)
<1> DEFINE s == Append(st, f)
           n == Len(st)
<1>1. /\ st \in Seq(Frames(L, ax)) /\ n \in Nat /\ s \in Seq(Frames(L, ax)) /\ Len(s) = n + 1
      /\ s[n + 1] = f /\ \A k \in 1 .. n : s[k] = st[k]
  BY DEF StackIn
<1>2. 1 .. n + 1 = (1 .. n) \cup {n + 1} /\ n + 1 \notin 1 .. n
  BY <1>1
<1> HIDE DEF s
<1>3. LeftOf(ch, s) = LeftOf(ch, st) \cup Region(ch, f)
  BY <1>1, <1>2 DEF LeftOf
<1>4. \A j \in 1 .. n : Region(ch, st[j]) \subseteq LeftOf(ch, st)
  BY DEF LeftOf
<1>5. \A j, k \in 1 .. n : j # k => Region(ch, st[j]) \cap Region(ch, st[k]) = {}
  BY DEF StackIn
<1>6. ASSUME NEW j \in 1 .. n + 1, NEW k \in 1 .. n + 1, j # k
      PROVE  Region(ch, s[j]) \cap Region(ch, s[k]) = {}
  <2>1. CASE j \in 1 .. n /\ k \in 1 .. n
    BY <1>1, <1>5, <1>6, <2>1
  <2>2. CASE j = n + 1
    BY <1>1, <1>2, <1>4, <1>6, <2>2
  <2>3. CASE k = n + 1
    BY <1>1, <1>2, <1>4, <1>6, <2>3
  <2> QED BY <1>2, <2>1, <2>2, <2>3
<1>7. StackIn(L, ch, ax, s)
  BY <1>1, <1>6 DEF StackIn
<1> QED BY <1>3, <1>7 DEF s


\* A node has been looked at: its sides are left.
LEMMA NodeDoneLeft ==
  ASSUME NEW L, NEW up, NEW ch, LinkedIn(L, up, ch), NEW ax, NEW st, StackIn(L, ch, ax, st),
         st # <<>>, Last(st).next = Itself
  PROVE  /\ StackIn(L, ch, ax, NodeDone(st))
         /\ LeftOf(ch, NodeDone(st)) = LeftOf(ch, st) \ {<<Last(st).node, Itself>>}
         /\ <<Last(st).node, Itself>> \in LeftOf(ch, st)
         /\ Last(st).node \in L
<1> DEFINE f == Last(st)
           g == [f EXCEPT !.next = 0]
           h == [f EXCEPT !.next = 1]
           fr == Front(st)
           p == <<f.node, Itself>>
<1>1. /\ StackIn(L, ch, ax, fr) /\ f \in Frames(L, ax)
      /\ LeftOf(ch, st) = LeftOf(ch, fr) \cup Region(ch, f)
      /\ LeftOf(ch, fr) \cap Region(ch, f) = {}
  BY LeftTop
<1>2. /\ g \in Frames(L, ax) /\ h \in Frames(L, ax) /\ f.node \in L
      /\ g.node = f.node /\ h.node = f.node /\ g.next = 0 /\ h.next = 1
  BY <1>1 DEF Frames
<1>3. NodeDone(st) = Append(Append(fr, h), g)
  <2>1. fr \in Seq(Frames(L, ax))
    BY <1>1 DEF StackIn
  <2>2. NodeDone(st) = fr \o <<h, g>>
    BY DEF NodeDone
  <2> HIDE DEF fr, g, h
  <2>3. fr \o <<h, g>> = Append(Append(fr, h), g)
    BY <1>2, <2>1
  <2> QED BY <2>2, <2>3
<1> HIDE DEF fr, g, h
<1>4. /\ Region(ch, f) = {p} \cup Region(ch, g) \cup Region(ch, h)
      /\ Region(ch, g) \cap Region(ch, h) = {}
      /\ p \notin Region(ch, g) \cup Region(ch, h)
  BY <1>2, RegionParts
<1> HIDE DEF f, p
<1>5. StackIn(L, ch, ax, Append(fr, h)) /\ LeftOf(ch, Append(fr, h))
        = LeftOf(ch, fr) \cup Region(ch, h)
  <2>1. Region(ch, h) \cap LeftOf(ch, fr) = {}
    BY <1>1, <1>4
  <2> QED BY <1>1, <1>2, <2>1, LeftAppend
<1>6. /\ StackIn(L, ch, ax, NodeDone(st))
      /\ LeftOf(ch, NodeDone(st)) = LeftOf(ch, fr) \cup Region(ch, h) \cup Region(ch, g)
  <2>1. Region(ch, g) \cap LeftOf(ch, Append(fr, h)) = {}
    BY <1>1, <1>4, <1>5
  <2> QED BY <1>2, <1>3, <1>5, <2>1, LeftAppend
<1> QED BY <1>1, <1>2, <1>4, <1>6 DEF f, p

\* A side has been looked at: what its child leads to is left, if it is gone down to.
LEMMA SideDoneLeft ==
  ASSUME NEW up, NEW ax, KdTree(live, up, children, root, ax), NEW st,
         StackIn(live, children, ax, st), st # <<>>, Last(st).next # Itself, NEW within
  PROVE  LET n == Last(st).node
             i == Last(st).next
             gone == LeftOf(children, st) \ LeftOf(children, SideDone(st, within))
         IN  /\ n \in live /\ i \in Sides /\ Last(st).axis = ax[n]
             /\ StackIn(live, children, ax, SideDone(st, within))
             /\ LeftOf(children, SideDone(st, within)) \subseteq LeftOf(children, st)
             /\ <<n, i>> \in gone
             /\ \A m : <<m, Itself>> \in gone => ~within /\ m \in Below(children[n][i])
<1> DEFINE f == Last(st)
           fr == Front(st)
           n == f.node
           i == f.next
           c == children[n][i]
           P == Places(children, c)
<1>1. /\ StackIn(live, children, ax, fr) /\ f \in Frames(live, ax)
      /\ LeftOf(children, st) = LeftOf(children, fr) \cup Region(children, f)
      /\ LeftOf(children, fr) \cap Region(children, f) = {}
  BY LeftTop
<1>2. n \in live /\ i \in Sides /\ f.axis = ax[n] /\ LinkedIn(live, up, children)
  BY <1>1, SidesAre DEF Frames, KdTree
<1>3. /\ c = NoNode => Region(children, f) = {<<n, i>>}
      /\ c # NoNode => /\ c \in live
                       /\ Region(children, f)
                            = {<<n, i>>} \cup Region(children, Frame(c, NextAxis(f.axis)))
      /\ Region(children, Frame(c, NextAxis(f.axis))) = P
      /\ <<n, i>> \notin P
  BY <1>2, RegionSide
<1>4. \A m : <<m, Itself>> \in Region(children, f) => m \in Below(c)
  <2>1. \A m : <<m, Itself>> \in P => m \in BelowIn(children, c)
    BY DEF Places
  <2>2. \A m : <<m, Itself>> # <<n, i>>
    BY <1>2, SidesAre
  <2>3. Region(children, f) = {<<n, i>>} \cup P
    <3>1. c = NoNode => P = {}
      BY BelowNone DEF Places
    <3> QED BY <1>3, <3>1
  <2> QED BY <2>1, <2>2, <2>3, BelowSame
<1>5. SideDone(st, within) = IF c # NoNode /\ within THEN Append(fr, Frame(c, NextAxis(f.axis)))
                                                   ELSE fr
  BY DEF SideDone
<1> DEFINE t == Frame(c, NextAxis(f.axis))
           gone == LeftOf(children, st) \ LeftOf(children, SideDone(st, within))
<1>6. CASE c # NoNode /\ within
  <2>1. t \in Frames(live, ax)
    <3>1. ax[c] = NextAxis(ax[n]) /\ ax[c] \in 0 .. Dim - 1
      <4>1. n \in Nodes /\ c \in Nodes
        BY <1>2, <1>3, <1>6 DEF LinkedIn
      <4> QED BY <1>2, <1>6, <4>1 DEF KdTree
    <3> QED BY <1>2, <1>3, <1>6, <3>1, SidesAre DEF Frames, Frame
  <2> HIDE DEF t, f, fr, c, P
  <2>2. Region(children, t) \cap LeftOf(children, fr) = {} /\ Region(children, t) = P
    BY <1>1, <1>3, <1>6 DEF t
  <2>3. /\ StackIn(live, children, ax, SideDone(st, within))
        /\ LeftOf(children, SideDone(st, within)) = LeftOf(children, fr) \cup P
    BY <1>1, <1>5, <1>6, <2>1, <2>2, LeftAppend DEF t
  <2>4. gone = {<<n, i>>}
    BY <1>1, <1>3, <1>6, <2>2, <2>3 DEF t
  <2>5. \A m : <<m, Itself>> # <<n, i>>
    BY <1>2, SidesAre
  <2>6. LeftOf(children, SideDone(st, within)) \subseteq LeftOf(children, st)
    BY <1>1, <1>3, <1>6, <2>2, <2>3 DEF t
  <2> QED BY <1>2, <2>3, <2>4, <2>5, <2>6 DEF f, c
<1>7. CASE ~(c # NoNode /\ within)
  <2>1. SideDone(st, within) = fr
    BY <1>5, <1>7
  <2>2. <<n, i>> \in Region(children, f)
    BY <1>3
  <2>3. c = NoNode => \A m : <<m, Itself>> \notin Region(children, f)
    BY <1>2, <1>3, SidesAre
  <2> HIDE DEF f, fr, c, P
  <2>4. gone = Region(children, f)
    BY <1>1, <2>1
  <2> QED BY <1>1, <1>2, <1>4, <1>7, <2>1, <2>2, <2>3, <2>4 DEF f, c
<1> QED BY <1>6, <1>7

----------------------------------------------------------------------------
(* A new leaf *)

\* n becomes the child i of a.
Grown(L, up, ch, new, a, i, n) ==
  /\ LinkedIn(L, up, ch)
  /\ a \in L /\ i \in Sides /\ n \in Nodes \ L /\ ch[a][i] = NoNode
  /\ new \in Kids /\ new[a][i] = n
  /\ \A m \in Nodes, j \in Sides : (m = a /\ j = i) \/ new[m][j] = ch[m][j]

\* It is below what its parent is below.
LEMMA GrownBelow ==
  ASSUME NEW L, NEW up, NEW ch, NEW new, NEW a, NEW i, NEW n, Grown(L, up, ch, new, a, i, n)
  PROVE  /\ BelowIn(new, n) = {n}
         /\ \A m \in L : BelowIn(new, m)
              = BelowIn(ch, m) \cup (IF a \in BelowIn(ch, m) THEN {n} ELSE {})
<1>1. /\ L \in SUBSET Nodes /\ a \in Nodes /\ n \in Nodes /\ a # n /\ n # NoNode
      /\ ch \in Kids /\ new \in Kids /\ NoNode \notin Nodes
  BY NodesAssumption DEF Grown, LinkedIn
<1>2. \A j \in Sides : ch[n][j] = NoNode /\ new[n][j] = NoNode
  BY <1>1 DEF Grown, LinkedIn
<1>3. BelowIn(new, n) = {n}
  <2>1. ClosedIn(new, {n})
    BY <1>2 DEF ClosedIn
  <2> QED BY <1>1, <2>1, BelowIs
<1>4. ASSUME NEW m \in L
      PROVE  BelowIn(new, m) = BelowIn(ch, m) \cup (IF a \in BelowIn(ch, m) THEN {n} ELSE {})
  <2> DEFINE B == BelowIn(ch, m)
             S == B \cup (IF a \in B THEN {n} ELSE {})
  <2>1. m \in Nodes /\ B \in SUBSET Nodes /\ m \in B /\ ClosedIn(ch, B)
    BY <1>1, <1>4, BelowIs
  <2>2. Fewer(ch, new)
    BY <1>1 DEF Fewer, Grown
  <2>3. B \subseteq BelowIn(new, m)
    BY <1>1, <2>1, <2>2, FewerBelow
  <2>4. a \in B => n \in BelowIn(new, m)
    <3>1. ClosedIn(new, BelowIn(new, m))
      BY <1>1, <2>1, BelowIs
    <3> QED BY <1>1, <2>3, <3>1 DEF ClosedIn, Grown
  <2> HIDE DEF B
  <2>5. ClosedIn(new, S)
    <3>1. ASSUME NEW x \in S, NEW j \in Sides PROVE new[x][j] \in S \cup {NoNode}
      <4>1. CASE x = n
        BY <1>2, <4>1
      <4>2. CASE x # n /\ x = a /\ j = i
        BY <1>1, <2>1, <3>1, <4>2 DEF Grown
      <4>3. CASE x # n /\ ~(x = a /\ j = i)
        <5>1. x \in B /\ x \in Nodes /\ new[x][j] = ch[x][j]
          BY <2>1, <4>3 DEF Grown
        <5> QED BY <2>1, <5>1 DEF ClosedIn
      <4> QED BY <4>1, <4>2, <4>3
    <3> QED BY <3>1 DEF ClosedIn
  <2>6. S \in SUBSET Nodes /\ m \in S
    BY <1>1, <2>1
  <2>7. BelowIn(new, m) \subseteq S
    <3> HIDE DEF S
    <3> QED BY <1>1, <2>1, <2>5, <2>6, BelowIs
  <2> QED BY <2>3, <2>4, <2>7 DEF B
<1> QED BY <1>3, <1>4

\* It adds its places to the frame that leads to its side.
LEMMA GrownRegion ==
  ASSUME NEW L, NEW up, NEW ch, NEW new, NEW a, NEW i, NEW n, Grown(L, up, ch, new, a, i, n),
         NEW f, f.node \in L, f.next \in -1 .. 1
  PROVE  Region(new, f) = Region(ch, f) \cup
           (IF <<a, i>> \in Region(ch, f) THEN {n} \X (-1 .. 1) ELSE {})
<1> DEFINE x == f.node
           j == f.next
           c == ch[x][j]
<1>1. /\ x \in L /\ x \in Nodes /\ j \in {-1, 0, 1} /\ i \in Sides /\ a \in L
      /\ \A m \in L : BelowIn(new, m)
           = BelowIn(ch, m) \cup (IF a \in BelowIn(ch, m) THEN {n} ELSE {})
      /\ BelowIn(new, n) = {n} /\ -1 .. 1 = {-1, 0, 1} /\ Itself = -1 /\ Sides = {0, 1}
  <2>1. x \in L /\ x \in Nodes /\ i \in Sides /\ a \in L
    BY DEF Grown, LinkedIn
  <2>2. j \in {-1, 0, 1} /\ -1 .. 1 = {-1, 0, 1} /\ Itself = -1 /\ Sides = {0, 1}
    BY SidesAre
  <2>3. /\ \A m \in L : BelowIn(new, m)
             = BelowIn(ch, m) \cup (IF a \in BelowIn(ch, m) THEN {n} ELSE {})
        /\ BelowIn(new, n) = {n}
    BY GrownBelow
  <2> QED BY <2>1, <2>2, <2>3
<1>2. i \in -1 .. 1
  BY <1>1
<1>3. \A m \in L : Places(new, m) = Places(ch, m) \cup
                     (IF <<a, i>> \in Places(ch, m) THEN {n} \X (-1 .. 1) ELSE {})
  <2> SUFFICES ASSUME NEW m \in L
               PROVE  Places(new, m) = Places(ch, m) \cup
                        (IF <<a, i>> \in Places(ch, m) THEN {n} \X (-1 .. 1) ELSE {})
    OBVIOUS
  <2> DEFINE B == BelowIn(ch, m)
  <2>1. BelowIn(new, m) = B \cup (IF a \in B THEN {n} ELSE {})
    BY <1>1
  <2>2. <<a, i>> \in B \X (-1 .. 1) <=> a \in B
    BY <1>2
  <2> HIDE DEF B
  <2>3. CASE a \in B
    BY <2>1, <2>2, <2>3 DEF Places, B
  <2>4. CASE a \notin B
    BY <2>1, <2>2, <2>4 DEF Places, B
  <2> QED BY <2>3, <2>4
<1>4. CASE j = -1
  BY <1>1, <1>3, <1>4 DEF Region
<1>5. CASE j # -1 /\ x = a /\ j = i
  <2>1. c = NoNode /\ new[x][j] = n
    BY <1>5 DEF Grown
  <2>2. Region(ch, f) = {<<a, i>>}
    BY <1>1, <1>5, <2>1, BelowNone DEF Region, Places
  <2>3. Region(new, f) = {<<a, i>>} \cup {n} \X (-1 .. 1)
    BY <1>1, <1>5, <2>1 DEF Region, Places
  <2> QED BY <2>2, <2>3
<1>6. CASE j # -1 /\ ~(x = a /\ j = i)
  <2>1. new[x][j] = c /\ j \in Sides
    BY <1>1, <1>6 DEF Grown
  <2>2. /\ Region(ch, f) = {<<x, j>>} \cup Places(ch, c)
        /\ Region(new, f) = {<<x, j>>} \cup Places(new, c)
    BY <1>1, <1>6, <2>1 DEF Region
  <2>3. c \in L \cup {NoNode}
    BY <1>1, <2>1 DEF Grown, LinkedIn, Kids
  <2>4. <<a, i>> # <<x, j>>
    BY <1>6
  <2>5. CASE c \in L
    <3> HIDE DEF c, x, j
    <3> QED BY <1>3, <2>2, <2>4, <2>5
  <2>6. CASE c = NoNode
    <3>1. Places(ch, c) = {} /\ Places(new, c) = {}
      BY <2>6, BelowNone DEF Places
    <3> QED BY <2>2, <2>4, <3>1
  <2> QED BY <2>3, <2>5, <2>6
<1> QED BY <1>1, <1>4, <1>5, <1>6

\* A search goes on after it; the new node is not one that it has met.
LEMMA GrownSearch ==
  ASSUME NEW L, NEW up, NEW ch, NEW new, NEW a, NEW i, NEW n, Grown(L, up, ch, new, a, i, n),
         NEW ax, NEW ax2, \A m \in L : ax2[m] = ax[m],
         NEW bx, NEW bx2, \A m \in L : bx2[m] = bx[m],
         NEW er, NEW s, SearchIn(s, L, ch, ax, bx, er)
  PROVE  SearchIn(s, L \cup {n}, new, ax2, bx2, er)
<1> DEFINE st == s.stack
           K == L \cup {n}
           N == {n} \X (-1 .. 1)
<1>1. st \in Seq(Frames(L, ax)) /\ \A k \in 1 .. Len(st) : st[k] \in Frames(L, ax)
  BY DEF SearchIn, StackIn
<1>2. \A f \in Frames(L, ax) : f.node \in L /\ f.next \in -1 .. 1 /\ f \in Frames(K, ax2)
  BY DEF Frames
<1>3. \A k \in 1 .. Len(st) :
        Region(new, st[k]) = Region(ch, st[k]) \cup
          (IF <<a, i>> \in Region(ch, st[k]) THEN N ELSE {})
  BY <1>1, <1>2, GrownRegion
<1>4. \A k \in 1 .. Len(st) : \A p \in Region(ch, st[k]) : p[1] # n /\ p[1] \in L
  <2> SUFFICES ASSUME NEW f \in Frames(L, ax), NEW p \in Region(ch, f) PROVE p[1] \in L
    BY <1>1 DEF Grown
  <2>1. f.node \in L /\ BelowIn(ch, f.node) \subseteq L /\ f.node \in Nodes
    BY <1>2, BelowLive DEF Grown
  <2>2. ch[f.node][f.next] # NoNode /\ f.next \in Sides
          => BelowIn(ch, ch[f.node][f.next]) \subseteq L
    BY <2>1, BelowLive DEF Grown, LinkedIn
  <2>3. f.next = Itself \/ f.next \in Sides
    BY <1>2, SidesAre
  <2> QED BY <2>1, <2>2, <2>3, BelowNone DEF Region, Places
<1> HIDE DEF st, K, N
<1>5. StackIn(K, new, ax2, st)
  <2>1. st \in Seq(Frames(K, ax2))
    BY <1>1, <1>2
  <2>2. ASSUME NEW j \in 1 .. Len(st), NEW k \in 1 .. Len(st), j # k
        PROVE  Region(new, st[j]) \cap Region(new, st[k]) = {}
    <3>1. Region(ch, st[j]) \cap Region(ch, st[k]) = {}
      BY <2>2 DEF SearchIn, StackIn, st
    <3>2. \A p \in N : p[1] = n
      BY DEF N
    <3> QED BY <1>3, <1>4, <3>1, <3>2
  <2> QED BY <2>1, <2>2 DEF StackIn
<1>6. \A m \in L : <<m, Itself>> \in LeftOf(new, st) <=> <<m, Itself>> \in LeftOf(ch, st)
  <2> SUFFICES ASSUME NEW m \in L, NEW k \in 1 .. Len(st)
               PROVE  <<m, Itself>> \in Region(new, st[k]) <=> <<m, Itself>> \in Region(ch, st[k])
    BY DEF LeftOf
  <2>1. <<m, Itself>> \notin N
    BY DEF N, Grown
  <2> QED BY <1>3, <2>1
<1>7. s.met \in Seq(L) /\ s.due \subseteq L /\ \A k \in 1 .. Len(s.met) : s.met[k] \in L
  BY DEF SearchIn
<1>8. s.met \in Seq(K) /\ s.due \subseteq K
  BY <1>7 DEF K
<1>9. \A k \in 1 .. Len(s.met) : <<s.met[k], Itself>> \notin LeftOf(new, st)
  BY <1>6, <1>7 DEF SearchIn, st
<1>10. \A m \in s.due : Intersects(bx2[m], s.box)
  BY <1>7 DEF SearchIn
<1>11. \A m \in s.due \ er :
         (\E k \in 1 .. Len(s.met) : s.met[k] = m) \/ <<m, Itself>> \in LeftOf(new, st)
  BY <1>6, <1>7 DEF SearchIn, st
<1> QED BY <1>5, <1>8, <1>9, <1>10, <1>11 DEF SearchIn, st, K

----------------------------------------------------------------------------
(* What is done turn by turn *)

\* A set that has 0, and i + 1 with every i, has all numbers up to n.
LEMMA UpTo ==
  ASSUME NEW n \in Nat, NEW T, 0 \in T, \A i \in 0 .. n - 1 : i \in T => i + 1 \in T
  PROVE  0 .. n \subseteq T
<1> DEFINE U == {i \in 0 .. n : i \notin T}
<1>1. SUFFICES ASSUME U # {} PROVE FALSE
  OBVIOUS
<1>2. U \subseteq Nat
  OBVIOUS
<1>3. PICK u \in U : \A m \in U : u <= m
  <2> HIDE DEF U
  <2> QED BY <1>1, <1>2, Least
<1>4. u # 0 /\ u - 1 \in 0 .. n - 1 /\ u - 1 \notin U
  BY <1>3
<1> QED BY <1>3, <1>4

AreTurns(g, N, x0, F) == g = [k \in 0 .. N |-> IF k = 0 THEN x0 ELSE F[k - 1][g[k - 1]]]

\* What the turns of a loop lead to.
LEMMA TurnsExist ==
  ASSUME NEW N \in Nat, NEW x0, NEW F
  PROVE  \E g : AreTurns(g, N, x0, F)
<1> DEFINE T == {m \in 0 .. N : \E g : AreTurns(g, m, x0, F)}
<1>1. 0 \in T
  <2> DEFINE g == [k \in 0 .. 0 |-> x0]
  <2>1. AreTurns(g, 0, x0, F)
    BY DEF AreTurns
  <2> QED BY <2>1
<1>2. ASSUME NEW m \in 0 .. N - 1, m \in T PROVE m + 1 \in T
  <2>1. PICK g : AreTurns(g, m, x0, F)
    BY <1>2
  <2> DEFINE h == [k \in 0 .. m + 1 |-> IF k <= m THEN g[k] ELSE F[m][g[m]]]
  <2>2. ASSUME NEW k \in 0 .. m + 1 PROVE h[k] = IF k = 0 THEN x0 ELSE F[k - 1][h[k - 1]]
    <3>1. CASE k = 0
      <4>1. h[k] = g[0] /\ 0 \in 0 .. m
        BY <3>1
      <4>2. g[0] = x0
        BY <2>1, <4>1 DEF AreTurns
      <4> QED BY <3>1, <4>1, <4>2
    <3>2. CASE k # 0 /\ k <= m
      <4>1. h[k] = g[k] /\ h[k - 1] = g[k - 1] /\ k \in 0 .. m
        BY <3>2
      <4>2. g[k] = F[k - 1][g[k - 1]]
        BY <2>1, <3>2, <4>1 DEF AreTurns
      <4> QED BY <3>2, <4>1, <4>2
    <3>3. CASE k = m + 1
      <4>1. h[k] = F[m][g[m]] /\ h[k - 1] = g[m] /\ k - 1 = m /\ k # 0
        BY <3>3
      <4> QED BY <4>1
    <3> QED BY <3>1, <3>2, <3>3
  <2>3. h = [k \in 0 .. m + 1 |-> h[k]]
    OBVIOUS
  <2>4. AreTurns(h, m + 1, x0, F)
    <3> HIDE DEF h
    <3> QED BY <2>2, <2>3 DEF AreTurns
  <2> HIDE DEF h
  <2> QED BY <1>2, <2>4
<1> HIDE DEF T
<1>3. 0 .. N \subseteq T
  BY <1>1, <1>2, UpTo
<1> QED BY <1>3 DEF T

\* No turn leaves T.
StayIn(T, N, F) == \A k \in 0 .. N - 1, x \in T : F[k][x] \in T

\* Then all of them are in it.
LEMMA TurnsStay ==
  ASSUME NEW N \in Nat, NEW T, NEW x0 \in T, NEW F, StayIn(T, N, F),
         NEW g, AreTurns(g, N, x0, F)
  PROVE  /\ g \in [0 .. N -> T]
         /\ g[0] = x0
         /\ \A k \in 0 .. N - 1 : g[k + 1] = F[k][g[k]]
<1>1. \A k \in 0 .. N : g[k] = IF k = 0 THEN x0 ELSE F[k - 1][g[k - 1]]
  BY DEF AreTurns
<1>2. g[0] = x0
  BY <1>1
<1>3. ASSUME NEW k \in 0 .. N - 1 PROVE g[k + 1] = F[k][g[k]]
  <2>1. k + 1 \in 0 .. N /\ k + 1 # 0 /\ (k + 1) - 1 = k
    OBVIOUS
  <2> QED BY <1>1, <2>1
<1> DEFINE S == {k \in 0 .. N : g[k] \in T}
<1>4. \A k \in 0 .. N - 1 : k \in S => k + 1 \in S
  BY <1>3 DEF StayIn
<1>5. 0 \in S
  BY <1>2
<1> HIDE DEF S
<1>6. 0 .. N \subseteq S
  BY <1>4, <1>5, UpTo
<1>7. g = [k \in 0 .. N |-> g[k]]
  BY DEF AreTurns
<1> QED BY <1>2, <1>3, <1>6, <1>7 DEF S

----------------------------------------------------------------------------
(* Going down *)

\* The greater and the lesser of two numbers.
LEMMA MaxMin ==
  ASSUME NEW x \in Int, NEW y \in Int
  PROVE  /\ Max({x, y}) = (IF x <= y THEN y ELSE x)
         /\ Min({x, y}) = (IF x <= y THEN x ELSE y)
<1>1. Max({x, y}) = CHOOSE m \in {x, y} : \A z \in {x, y} : m >= z
  BY DEF Max
<1>2. Min({x, y}) = CHOOSE m \in {x, y} : \A z \in {x, y} : m <= z
  BY DEF Min
<1>3. \A m \in {x, y} : (\A z \in {x, y} : m >= z) <=> m = (IF x <= y THEN y ELSE x)
  OBVIOUS
<1>4. \A m \in {x, y} : (\A z \in {x, y} : m <= z) <=> m = (IF x <= y THEN x ELSE y)
  OBVIOUS
<1> QED BY <1>1, <1>2, <1>3, <1>4

\* The new box is to be on this side of n.
Passes(d, n, i) == d.node \in BelowIn(children, children[n][i])
                     \/ (d.found /\ n = d.node /\ d.side = i)

\* How bounds may change: those that are numbers are moved outwards.
Moved(lt, rf, lt2, rf2) ==
  /\ lt \in Int => lt2 \in Int /\ lt <= lt2
  /\ rf \in Int => rf2 \in Int /\ rf2 <= rf
  /\ rf = NaN => rf2 = NaN

\* Where a descent is, whose bounds began as lt and rf: those on its way include the
\* box by now.
DescentIn(d, ax, box, lt, rf) ==
  /\ d \in [node : live, axis : 0 .. Dim - 1, side : Sides, found : BOOLEAN,
            l_to : [Nodes -> Bounds], r_fr : [Nodes -> Bounds]]
  /\ d.axis = ax[d.node]
  /\ d.found => children[d.node][d.side] = NoNode
  /\ \A n \in Nodes : Moved(lt[n], rf[n], d.l_to[n], d.r_fr[n])
  /\ \A n \in live : /\ Passes(d, n, 0) => ReachesTo(d.l_to[n], box.max[ax[n]])
                     /\ Passes(d, n, 1) => ReachesFrom(d.r_fr[n], box.min[ax[n]])

\* A turn goes down to a smaller tree, or ends the descent.
LEMMA DescendKeeps ==
  ASSUME NEW up, NEW ax, KdTree(live, up, children, root, ax), NEW box \in Boxes,
         NEW lt \in [Nodes -> Bounds], NEW rf \in [Nodes -> Bounds],
         NEW d, DescentIn(d, ax, box, lt, rf), ~d.found
  PROVE  /\ DescentIn(Descend(d, box), ax, box, lt, rf)
         /\ ~Descend(d, box).found => Size(children, Descend(d, box).node) < Size(children, d.node)
<1> DEFINE n == d.node
           a == d.axis
           left == /\ NaN \notin {d.l_to[n], d.r_fr[n]}
                   /\ box.max[a] - d.l_to[n] < d.r_fr[n] - box.min[a]
           i == IF left THEN 0 ELSE 1
           c == children[n][i]
           tl == IF left THEN Max({d.l_to[n], box.max[a]}) ELSE d.l_to[n]
           tr == IF left \/ d.r_fr[n] = NaN THEN d.r_fr[n] ELSE Min({d.r_fr[n], box.min[a]})
           e == Descend(d, box)
<1>1. /\ n \in live /\ n \in Nodes /\ a \in 0 .. Dim - 1 /\ a = ax[n]
      /\ d.l_to \in [Nodes -> Bounds] /\ d.r_fr \in [Nodes -> Bounds]
      /\ box.min[a] \in Int /\ box.max[a] \in Int
      /\ d = [node |-> n, axis |-> a, side |-> d.side, found |-> d.found, l_to |-> d.l_to,
              r_fr |-> d.r_fr]
      /\ LinkedIn(live, up, children) /\ children \in Kids /\ AcyclicIn(children)
  <2>1. LinkedIn(live, up, children)
    BY DEF KdTree
  <2>2. d \in [node : live, axis : 0 .. Dim - 1, side : Sides, found : BOOLEAN,
               l_to : [Nodes -> Bounds], r_fr : [Nodes -> Bounds]] /\ a = ax[n]
    BY DEF DescentIn
  <2>3. n \in live /\ n \in Nodes /\ a \in 0 .. Dim - 1
    BY <2>1, <2>2 DEF LinkedIn
  <2>4. box.min \in [0 .. Dim - 1 -> Int] /\ box.max \in [0 .. Dim - 1 -> Int]
    BY BoxesAssumption
  <2>5. children \in Kids /\ AcyclicIn(children)
    BY <2>1 DEF LinkedIn
  <2> QED BY <2>1, <2>2, <2>3, <2>4, <2>5
<1>2. /\ tl \in Bounds /\ tr \in Bounds /\ Moved(d.l_to[n], d.r_fr[n], tl, tr)
      /\ (left => ReachesTo(tl, box.max[a])) /\ (~left => ReachesFrom(tr, box.min[a]))
  <2>1. d.l_to[n] \in Bounds /\ d.r_fr[n] \in Bounds /\ NaN \notin Int
    BY <1>1, GarbageAssumption
  <2>2. \A x, y \in Int : /\ Max({x, y}) = IF x <= y THEN y ELSE x
                         /\ Min({x, y}) = IF x <= y THEN x ELSE y
    BY MaxMin
  <2>3. CASE left
    <3>1. d.l_to[n] \in Int /\ d.r_fr[n] \in Int
      BY <2>1, <2>3 DEF Bounds
    <3>2. tl = (IF d.l_to[n] <= box.max[a] THEN box.max[a] ELSE d.l_to[n]) /\ tr = d.r_fr[n]
      BY <1>1, <2>2, <2>3, <3>1
    <3> HIDE DEF tl, tr, left
    <3> QED BY <1>1, <2>1, <2>3, <3>1, <3>2 DEF Bounds, Moved, ReachesTo
  <2>4. CASE ~left /\ d.r_fr[n] = NaN
    <3>1. tl = d.l_to[n] /\ tr = NaN
      BY <2>4
    <3> HIDE DEF tl, tr, left
    <3> QED BY <2>1, <2>4, <3>1 DEF Bounds, Moved, ReachesFrom
  <2>5. CASE ~left /\ d.r_fr[n] # NaN
    <3>1. d.r_fr[n] \in Int
      BY <2>1, <2>5 DEF Bounds
    <3>2. tl = d.l_to[n] /\ tr = (IF d.r_fr[n] <= box.min[a] THEN d.r_fr[n] ELSE box.min[a])
      BY <1>1, <2>2, <2>5, <3>1
    <3> HIDE DEF tl, tr, left
    <3> QED BY <1>1, <2>1, <2>5, <3>1, <3>2 DEF Bounds, Moved, ReachesFrom
  <2> QED BY <2>3, <2>4, <2>5
<1>3. e = [node |-> IF c = NoNode THEN n ELSE c, axis |-> IF c = NoNode THEN a ELSE NextAxis(a),
           side |-> i, found |-> c = NoNode,
           l_to |-> [d.l_to EXCEPT ![n] = tl], r_fr |-> [d.r_fr EXCEPT ![n] = tr]]
  <2>1. e = [d EXCEPT !.l_to[n] = tl, !.r_fr[n] = tr, !.side = i, !.found = c = NoNode,
                      !.node = IF c = NoNode THEN n ELSE c,
                      !.axis = IF c = NoNode THEN a ELSE NextAxis(a)]
    BY Zenon DEF Descend
  <2> HIDE DEF e, tl, tr, c, i, a, left
  <2> QED BY <1>1, <2>1
<1>4. i \in Sides /\ (left <=> i = 0) /\ (~left <=> i = 1)
  BY SidesAre
<1> HIDE DEF tl, tr, e, left, i
<1>5. c \in live \cup {NoNode} /\ (c # NoNode => c \in Nodes /\ up[c] = n)
  BY <1>1, <1>4 DEF LinkedIn, Kids
<1>6. c # NoNode => NextAxis(a) = ax[c] /\ NextAxis(a) \in 0 .. Dim - 1
  <2>1. c # NoNode => ax[c] = NextAxis(ax[n]) /\ ax[c] \in 0 .. Dim - 1
    BY <1>1, <1>4, <1>5 DEF KdTree
  <2> QED BY <1>1, <2>1
<1> HIDE DEF n, a
<1>7. /\ e \in [node : live, axis : 0 .. Dim - 1, side : Sides, found : BOOLEAN,
                l_to : [Nodes -> Bounds], r_fr : [Nodes -> Bounds]]
      /\ e.axis = ax[e.node] /\ (e.found => children[e.node][e.side] = NoNode)
  BY <1>1, <1>2, <1>3, <1>4, <1>5, <1>6
<1>8. \A m \in Nodes : /\ e.l_to[m] \in Bounds /\ e.r_fr[m] \in Bounds
                       /\ Moved(d.l_to[m], d.r_fr[m], e.l_to[m], e.r_fr[m])
  <2> SUFFICES ASSUME NEW m \in Nodes
               PROVE  /\ e.l_to[m] \in Bounds /\ e.r_fr[m] \in Bounds
                      /\ Moved(d.l_to[m], d.r_fr[m], e.l_to[m], e.r_fr[m])
    OBVIOUS
  <2>1. CASE m = n
    BY <1>1, <1>2, <1>3, <2>1
  <2>2. CASE m # n
    <3>1. e.l_to[m] = d.l_to[m] /\ e.r_fr[m] = d.r_fr[m]
      BY <1>1, <1>3, <2>2
    <3>2. d.l_to[m] \in Bounds /\ d.r_fr[m] \in Bounds
      BY <1>1
    <3>3. \A x, y \in Bounds : Moved(x, y, x, y)
      BY DEF Moved
    <3> QED BY <3>1, <3>2, <3>3
  <2> QED BY <2>1, <2>2
<1>9. \A m \in Nodes : Moved(lt[m], rf[m], e.l_to[m], e.r_fr[m])
  <2> SUFFICES ASSUME NEW m \in Nodes PROVE Moved(lt[m], rf[m], e.l_to[m], e.r_fr[m])
    OBVIOUS
  <2>1. Moved(lt[m], rf[m], d.l_to[m], d.r_fr[m])
    BY DEF DescentIn
  <2> QED BY <1>8, <2>1 DEF Moved
<1>10. ASSUME NEW m \in live, NEW j \in Sides, Passes(e, m, j)
       PROVE  Passes(d, m, j) \/ (m = n /\ j = i)
  <2>1. m \in Nodes
    BY <1>1, <1>10 DEF LinkedIn
  <2>2. CASE c = NoNode
    BY <1>3, <1>10, <2>2 DEF Passes, n
  <2>3. CASE c # NoNode
    <3> DEFINE b == children[m][j]
    <3>1. c \in BelowIn(children, b) /\ b # NoNode
      BY <1>3, <1>10, <2>3, BelowNone DEF Passes
    <3>2. b \in Nodes /\ up[b] = m
      BY <1>1, <1>10, <2>1, <3>1 DEF LinkedIn, Kids
    <3>3. CASE c # b
      <4>1. n \in BelowIn(children, b)
        BY <1>1, <1>5, <2>3, <3>1, <3>2, <3>3, BelowParent
      <4> QED BY <4>1 DEF Passes, n
    <3>4. CASE c = b
      <4>1. m = n
        BY <1>5, <2>3, <3>2, <3>4
      <4>2. PICK k \in Sides : children[n][k] = c /\ children[n][1 - k] # c
        <5>1. up[c] # NoNode /\ c \in Nodes /\ up[c] = n
          BY <1>1, <1>5, <2>3, NodesAssumption
        <5> QED BY <1>1, <5>1 DEF LinkedIn
      <4>3. j = k /\ i = k
        BY <1>4, <3>4, <4>1, <4>2, SidesAre
      <4> QED BY <4>1, <4>3
    <3> QED BY <3>3, <3>4
  <2> QED BY <2>2, <2>3
<1>11. \A m \in live : /\ Passes(e, m, 0) => ReachesTo(e.l_to[m], box.max[ax[m]])
                       /\ Passes(e, m, 1) => ReachesFrom(e.r_fr[m], box.min[ax[m]])
  <2> SUFFICES ASSUME NEW m \in live
               PROVE  /\ Passes(e, m, 0) => ReachesTo(e.l_to[m], box.max[ax[m]])
                      /\ Passes(e, m, 1) => ReachesFrom(e.r_fr[m], box.min[ax[m]])
    OBVIOUS
  <2>1. /\ Passes(d, m, 0) => ReachesTo(d.l_to[m], box.max[ax[m]])
        /\ Passes(d, m, 1) => ReachesFrom(d.r_fr[m], box.min[ax[m]])
    BY DEF DescentIn
  <2>2. m \in Nodes /\ box.max[ax[m]] \in Int /\ box.min[ax[m]] \in Int
    <3>1. m \in Nodes /\ ax[m] \in 0 .. Dim - 1
      BY <1>1 DEF LinkedIn, KdTree
    <3> QED BY <3>1, BoxesAssumption
  <2>3. Moved(d.l_to[m], d.r_fr[m], e.l_to[m], e.r_fr[m])
    BY <1>8, <2>2
  <2>4. /\ ReachesTo(d.l_to[m], box.max[ax[m]]) => ReachesTo(e.l_to[m], box.max[ax[m]])
        /\ ReachesFrom(d.r_fr[m], box.min[ax[m]]) => ReachesFrom(e.r_fr[m], box.min[ax[m]])
    BY <2>2, <2>3 DEF Moved, ReachesTo, ReachesFrom
  <2>5. /\ m = n /\ i = 0 => ReachesTo(e.l_to[m], box.max[ax[m]])
        /\ m = n /\ i = 1 => ReachesFrom(e.r_fr[m], box.min[ax[m]])
    BY <1>1, <1>2, <1>3, <1>4
  <2>6. /\ Passes(e, m, 0) => Passes(d, m, 0) \/ (m = n /\ i = 0)
        /\ Passes(e, m, 1) => Passes(d, m, 1) \/ (m = n /\ i = 1)
    BY <1>10, SidesAre
  <2> QED BY <2>1, <2>4, <2>5, <2>6
<1>12. ~e.found => Size(children, e.node) < Size(children, n)
  BY <1>1, <1>3, <1>4, ChildSmaller
<1> QED BY <1>7, <1>9, <1>11, <1>12 DEF DescentIn, e, n

\* The descent ends where there is no child yet.
LEMMA DescendedIs ==
  ASSUME NEW up, NEW ax, KdTree(live, up, children, root, ax),
         BoundsIn(live, children, ax, aabb, l_to, r_fr), root # NoNode,
         NEW box \in Boxes, NEW l \in Bounds, NEW r \in Bounds
  PROVE  /\ DescentIn(Descended(box, l, r), ax, box, AtRoot(l, r).l_to, AtRoot(l, r).r_fr)
         /\ Descended(box, l, r).found
         /\ AtRoot(l, r).l_to \in [Nodes -> Bounds] /\ AtRoot(l, r).r_fr \in [Nodes -> Bounds]
<1> DEFINE x0 == AtRoot(l, r)
           lt == x0.l_to
           rf == x0.r_fr
           N == Cardinality(live)
           T == {d \in [node : live, axis : 0 .. Dim - 1, side : Sides, found : BOOLEAN,
                        l_to : [Nodes -> Bounds], r_fr : [Nodes -> Bounds]] :
                   DescentIn(d, ax, box, lt, rf)}
           S(d) == IF d.found THEN d ELSE Descend(d, box)
           F == [k \in 0 .. N - 1 |-> [d \in T |-> S(d)]]
<1>1. /\ LinkedIn(live, up, children) /\ live \in SUBSET Nodes /\ IsFiniteSet(live) /\ N \in Nat
      /\ root \in live /\ ax[root] = 0 /\ children \in Kids /\ AcyclicIn(children)
  <2>1. LinkedIn(live, up, children) /\ root \in live /\ ax[root] = 0
    BY DEF KdTree
  <2>2. live \in SUBSET Nodes /\ children \in Kids /\ AcyclicIn(children)
    BY <2>1 DEF LinkedIn
  <2>3. IsFiniteSet(live) /\ N \in Nat
    BY <2>2, NodesAssumption, FS_Subset, FS_CardinalityType
  <2> QED BY <2>1, <2>2, <2>3
<1>2. /\ lt \in [Nodes -> Bounds] /\ rf \in [Nodes -> Bounds]
      /\ x0 = [node |-> root, axis |-> 0, side |-> 0, found |-> FALSE, l_to |-> lt, r_fr |-> rf]
  <2>1. /\ lt = [n \in Nodes |-> IF l_to[n] = Unread THEN l ELSE l_to[n]]
        /\ rf = [n \in Nodes |-> IF r_fr[n] = Unread THEN r ELSE r_fr[n]]
    BY DEF AtRoot
  <2>2. l_to \in [Nodes -> Bounds \cup {Unread}] /\ r_fr \in [Nodes -> Bounds \cup {Unread}]
    BY DEF BoundsIn
  <2>3. x0 = [node |-> root, axis |-> 0, side |-> 0, found |-> FALSE, l_to |-> lt, r_fr |-> rf]
    BY DEF AtRoot
  <2> QED BY <2>1, <2>2, <2>3
<1> HIDE DEF lt, rf, x0, N
<1>3. x0 \in T
  <2>1. x0 \in [node : live, axis : 0 .. Dim - 1, side : Sides, found : BOOLEAN,
                l_to : [Nodes -> Bounds], r_fr : [Nodes -> Bounds]]
    BY <1>1, <1>2, SidesAre, DimAssumption
  <2>2. \A n \in live, i \in Sides : ~Passes(x0, n, i)
    <3> SUFFICES ASSUME NEW n \in live, NEW i \in Sides PROVE ~Passes(x0, n, i)
      OBVIOUS
    <3>1. n \in Nodes /\ n \in BelowIn(children, root) /\ root \in Nodes
      BY <1>1 DEF KdTree
    <3>2. CASE root \in BelowIn(children, children[n][i])
      <4>1. children[n][i] # NoNode
        BY <3>2, BelowNone
      <4>2. children[n][i] \in Nodes
        BY <1>1, <3>1, <4>1 DEF Kids
      <4>3. n \in BelowIn(children, children[n][i])
        BY <1>1, <3>1, <3>2, <4>2, BelowTransitive
      <4> QED BY <1>1, <3>1, <4>3 DEF AcyclicIn
    <3> QED BY <1>2, <3>2 DEF Passes
  <2>3. \A n \in Nodes : Moved(lt[n], rf[n], x0.l_to[n], x0.r_fr[n])
    <3>1. \A n \in Nodes : lt[n] \in Bounds /\ rf[n] \in Bounds
      BY <1>2
    <3> QED BY <1>2, <3>1 DEF Moved
  <2>4. x0.axis = ax[x0.node] /\ ~x0.found
    BY <1>1, <1>2
  <2>5. DescentIn(x0, ax, box, lt, rf)
    BY <2>1, <2>2, <2>3, <2>4, SidesAre DEF DescentIn
  <2> QED BY <2>1, <2>5
<1>4. \A d \in T : S(d) \in T /\ (~S(d).found => ~d.found /\
                                    Size(children, S(d).node) < Size(children, d.node))
  <2> SUFFICES ASSUME NEW d \in T
               PROVE  S(d) \in T /\ (~S(d).found => ~d.found /\
                                       Size(children, S(d).node) < Size(children, d.node))
    OBVIOUS
  <2>1. CASE d.found
    BY <2>1
  <2>2. CASE ~d.found
    <3>1. /\ DescentIn(S(d), ax, box, lt, rf)
          /\ ~S(d).found => Size(children, S(d).node) < Size(children, d.node)
      BY <1>2, <2>2, DescendKeeps
    <3> HIDE DEF S
    <3>2. S(d) \in T
      BY <3>1 DEF DescentIn
    <3> QED BY <2>2, <3>1, <3>2
  <2> QED BY <2>1, <2>2
<1> HIDE DEF T, S
<1>5. \A k \in 0 .. N - 1, d \in T : F[k][d] = S(d)
  OBVIOUS
<1>6. PICK g : AreTurns(g, N, x0, F)
  BY <1>1, TurnsExist
<1> HIDE DEF F
<1>7. /\ g \in [0 .. N -> T] /\ g[0] = x0 /\ \A k \in 0 .. N - 1 : g[k + 1] = F[k][g[k]]
  <2>1. StayIn(T, N, F)
    BY <1>4, <1>5 DEF StayIn
  <2>2. N \in Nat /\ x0 \in T
    BY <1>1, <1>3
  <2>3. AreTurns(g, N, x0, F)
    BY <1>6
  <2> HIDE DEF N
  <2> QED BY <2>1, <2>2, <2>3, TurnsStay
<1> DEFINE Is(h) == h = [k \in 0 .. N |-> IF k = 0 THEN x0
                                          ELSE LET d == h[k - 1]
                                               IN  IF d.found THEN d ELSE Descend(d, box)]
<1>8. Is(g)
  <2>1. \A k \in 0 .. N : g[k] = IF k = 0 THEN x0 ELSE S(g[k - 1])
    <3>1. \A k \in 0 .. N : k # 0 => k - 1 \in 0 .. N - 1 /\ g[k] = F[k - 1][g[k - 1]]
      BY <1>1, <1>6 DEF AreTurns
    <3>2. \A k \in 0 .. N - 1 : g[k] \in T
      BY <1>1, <1>7
    <3> QED BY <1>5, <1>7, <3>1, <3>2
  <2>2. g = [k \in 0 .. N |-> g[k]]
    BY <1>7
  <2> QED BY <2>1, <2>2 DEF S
<1>9. PICK h : Is(h) /\ Descended(box, l, r) = h[N]
  <2>1. Descended(box, l, r) = (CHOOSE h : Is(h))[N]
    BY DEF Descended, x0, N
  <2>2. Is(CHOOSE h : Is(h))
    <3> HIDE DEF Is
    <3> QED BY <1>8
  <2> QED BY <2>1, <2>2
<1>10. \A k \in 0 .. N : h[k] = IF k = 0 THEN x0 ELSE S(h[k - 1])
  BY <1>9 DEF S
<1> DEFINE K == {k \in 0 .. N : h[k] \in T /\ (~h[k].found => Size(children, h[k].node) <= N - k)}
<1>11. 0 \in K
  <2>1. BelowIn(children, root) \subseteq live
    BY <1>1, BelowLive
  <2>2. Size(children, root) <= N
    BY <1>1, <2>1, FS_Subset DEF Size, N
  <2>3. h[0] = x0 /\ 0 \in 0 .. N /\ N - 0 = N
    BY <1>1, <1>10
  <2> QED BY <1>2, <1>3, <2>2, <2>3
<1>12. ASSUME NEW k \in 0 .. N - 1, k \in K PROVE k + 1 \in K
  <2>1. k + 1 \in 0 .. N /\ h[k + 1] = S(h[k])
    <3>1. k + 1 \in 0 .. N /\ k + 1 # 0 /\ (k + 1) - 1 = k
      BY <1>1
    <3> QED BY <1>10, <3>1
  <2>2. h[k] \in T
    BY <1>12
  <2>3. h[k + 1] \in T
    BY <1>4, <2>1, <2>2
  <2>4. ASSUME ~h[k + 1].found PROVE Size(children, h[k + 1].node) <= N - (k + 1)
    <3>1. ~h[k].found /\ Size(children, h[k + 1].node) < Size(children, h[k].node)
      BY <1>4, <2>1, <2>2, <2>4
    <3>2. Size(children, h[k].node) <= N - k
      BY <1>12, <3>1
    <3>3. h[k].node \in Nodes /\ h[k + 1].node \in Nodes
      BY <1>1, <2>2, <2>3 DEF T
    <3>4. Size(children, h[k].node) \in Nat /\ Size(children, h[k + 1].node) \in Nat
      BY <1>1, <3>3, ChildSmaller
    <3> QED BY <1>1, <3>1, <3>2, <3>4
  <2> QED BY <2>1, <2>3, <2>4
<1>13. N \in K
  <2> HIDE DEF K
  <2>1. 0 .. N \subseteq K
    BY <1>1, <1>11, <1>12, UpTo
  <2> QED BY <1>1, <2>1
<1>14. h[N] \in T /\ h[N].found
  <2>1. h[N] \in T
    BY <1>13
  <2>2. h[N].node \in Nodes
    BY <1>1, <2>1 DEF T
  <2>3. Size(children, h[N].node) \in Nat \ {0}
    <3> DEFINE B == BelowIn(children, h[N].node)
    <3>1. h[N].node \in B /\ B \in SUBSET Nodes
      BY <1>1, <2>2, BelowIs
    <3>2. IsFiniteSet(B)
      BY <3>1, NodesAssumption, FS_Subset
    <3>3. Cardinality(B) # 0 /\ Cardinality(B) \in Nat
      BY <3>1, <3>2, FS_EmptySet, FS_CardinalityType
    <3> QED BY <3>3 DEF Size
  <2>4. ~h[N].found => Size(children, h[N].node) <= N - N
    BY <1>13
  <2> HIDE DEF K
  <2>5. h[N].found \in BOOLEAN
    BY <2>1 DEF T
  <2> QED BY <1>1, <2>1, <2>3, <2>4, <2>5
<1> QED BY <1>2, <1>9, <1>14 DEF T, lt, rf, x0

----------------------------------------------------------------------------
(* Insertion and erasure *)

\* One more box is counted.
LEMMA CountInsert ==
  ASSUME live \in SUBSET Nodes, erased \subseteq live, counter = Cardinality(live \ erased),
         NEW n \in Nodes, NEW box, NewNode(n, box)
  PROVE  erased' \subseteq live' /\ counter' = Cardinality(live' \ erased')
<1>1. /\ n \notin live /\ live' = live \cup {n} /\ erased' = erased /\ counter' = counter + 1
  BY DEF NewNode
<1>2. IsFiniteSet(live \ erased) /\ n \notin live \ erased
  <2>1. live \ erased \in SUBSET Nodes
    OBVIOUS
  <2> QED BY <1>1, <2>1, NodesAssumption, FS_Subset
<1>3. live' \ erased' = (live \ erased) \cup {n}
  BY <1>1
<1>4. Cardinality((live \ erased) \cup {n}) = Cardinality(live \ erased) + 1
  BY <1>2, FS_AddElement
<1> QED BY <1>1, <1>3, <1>4

\* The first box becomes the root.
LEMMA InsertRootKeeps ==
  ASSUME NEW up, NEW ax, TreeHas(up, ax), NEW n \in Nodes, NEW box \in Boxes, InsertRoot(n, box)
  PROVE  live = {} /\ \E ax2 : TreeHas(up, ax2)'
<1> DEFINE ax2 == [ax EXCEPT ![n] = 0]
<1>1. /\ KdTree(live, up, children, root, ax) /\ LinkedIn(live, up, children)
      /\ BoundsIn(live, children, ax, aabb, l_to, r_fr)
      /\ erased \subseteq live /\ counter = Cardinality(live \ erased)
  BY DEF TreeHas, KdTree
<1>2. /\ root = NoNode /\ NewNode(n, box) /\ root' = n /\ children' = children
      /\ live' = live \cup {n} /\ aabb' = [aabb EXCEPT ![n] = box]
      /\ l_to' = [l_to EXCEPT ![n] = box.max[0]] /\ r_fr' = [r_fr EXCEPT ![n] = box.min[0]]
  BY DEF InsertRoot, NewNode
<1>3. live = {} /\ live' = {n}
  BY <1>1, <1>2 DEF KdTree
<1>4. children \in Kids /\ \A m \in Nodes, i \in Sides : children[m][i] = NoNode
  BY <1>1, <1>3 DEF LinkedIn
<1>5. LinkedIn({n}, up, children)
  <2>1. \A m \in live \ {n} : up[m] = NoNode /\ \A i \in Sides : children[m][i] = NoNode
    BY <1>3
  <2>2. {n} \in SUBSET Nodes
    OBVIOUS
  <2> QED BY <1>1, <2>1, <2>2, LinkedSame
<1>6. 0 \in 0 .. Dim - 1 /\ n # NoNode
  BY DimAssumption, NodesAssumption
<1>7. KdTree(live', up, children', root', ax2)
  <2>1. n \in BelowIn(children, n)
    BY <1>4, BelowIs
  <2>2. ax \in [Nodes -> 0 .. Dim - 1]
    BY <1>1 DEF KdTree
  <2> QED BY <1>2, <1>3, <1>4, <1>5, <1>6, <2>1, <2>2 DEF KdTree
<1>8. BoundsIn(live', children', ax2, aabb', l_to', r_fr')
  <2>1. box.max[0] \in Int /\ box.min[0] \in Int
    BY <1>6, BoxesAssumption
  <2>2. /\ aabb \in [Nodes -> Boxes \cup {Unread}]
        /\ l_to \in [Nodes -> Bounds \cup {Unread}] /\ r_fr \in [Nodes -> Bounds \cup {Unread}]
    BY <1>1 DEF BoundsIn
  <2>3. \A m \in Nodes, i \in Sides : BelowIn(children, children[m][i]) = {}
    BY <1>4, BelowNone
  <2>4. \A m \in live' : m = n /\ aabb'[m] = box
    BY <1>2, <1>3, <2>2
  <2>5. /\ aabb' \in [Nodes -> Boxes \cup {Unread}]
        /\ l_to' \in [Nodes -> Bounds \cup {Unread}] /\ r_fr' \in [Nodes -> Bounds \cup {Unread}]
    BY <1>2, <2>1, <2>2 DEF Bounds
  <2> HIDE DEF ax2
  <2> QED BY <1>2, <1>3, <1>4, <2>3, <2>4, <2>5, SidesAre DEF BoundsIn
<1>9. erased' \subseteq live' /\ counter' = Cardinality(live' \ erased')
  <2>1. live \in SUBSET Nodes
    BY <1>3
  <2> QED BY <1>1, <1>2, <2>1, CountInsert
<1> QED BY <1>3, <1>7, <1>8, <1>9 DEF TreeHas

\* Another becomes a leaf, and the bounds on the way to it include it.
LEMMA InsertBelowKeeps ==
  ASSUME NEW up, NEW ax, TreeHas(up, ax), NEW n \in Nodes, NEW box \in Boxes, InsertBelow(n, box)
  PROVE  \E up2, ax2 :
           /\ TreeHas(up2, ax2)'
           /\ \A s : SearchIn(s, live, children, ax, aabb, erased)
                       => SearchIn(s, live', children', ax2, aabb', erased')
           /\ \A D \in SUBSET live : Seen(live, children, r_fr, D)
                                       => Seen(live', children', r_fr', D)
<1>1. /\ KdTree(live, up, children, root, ax) /\ LinkedIn(live, up, children)
      /\ BoundsIn(live, children, ax, aabb, l_to, r_fr)
      /\ erased \subseteq live /\ counter = Cardinality(live \ erased)
  BY DEF TreeHas, KdTree
<1>2. /\ root # NoNode /\ NewNode(n, box) /\ n \notin live /\ live' = live \cup {n}
      /\ aabb' = [aabb EXCEPT ![n] = box] /\ erased' = erased /\ root' = root
  BY DEF InsertBelow, NewNode
<1>3. PICK l \in Garbage, r \in Garbage :
        LET d == Descended(box, l, r)
            keep(m, old, new) == IF old[m] = Unread /\ m # d.node THEN Unread ELSE new[m]
        IN  /\ children' = [children EXCEPT ![d.node][d.side] = n]
            /\ l_to' = [m \in Nodes |-> keep(m, l_to, d.l_to)]
            /\ r_fr' = [m \in Nodes |-> keep(m, r_fr, d.r_fr)]
  BY Zenon DEF InsertBelow
<1> DEFINE d == Descended(box, l, r)
           a == d.node
           i == d.side
           new == [children EXCEPT ![a][i] = n]
           lt == AtRoot(l, r).l_to
           rf == AtRoot(l, r).r_fr
           up2 == [up EXCEPT ![n] = a]
           ax2 == [ax EXCEPT ![n] = NextAxis(ax[a])]
<1>4. /\ children' = new
      /\ l_to' = [m \in Nodes |-> IF l_to[m] = Unread /\ m # a THEN Unread ELSE d.l_to[m]]
      /\ r_fr' = [m \in Nodes |-> IF r_fr[m] = Unread /\ m # a THEN Unread ELSE d.r_fr[m]]
  BY <1>3
<1>5. /\ DescentIn(d, ax, box, lt, rf) /\ d.found
      /\ lt \in [Nodes -> Bounds] /\ rf \in [Nodes -> Bounds]
  <2>1. l \in Bounds /\ r \in Bounds
    BY GarbageAssumption DEF Bounds
  <2> QED BY <1>1, <1>2, <2>1, DescendedIs
<1>6. /\ lt = [m \in Nodes |-> IF l_to[m] = Unread THEN l ELSE l_to[m]]
      /\ rf = [m \in Nodes |-> IF r_fr[m] = Unread THEN r ELSE r_fr[m]]
  BY DEF AtRoot
<1> HIDE DEF d, lt, rf
<1>7. /\ a \in live /\ i \in Sides /\ d.axis = ax[a] /\ children[a][i] = NoNode
      /\ d.l_to \in [Nodes -> Bounds] /\ d.r_fr \in [Nodes -> Bounds]
      /\ \A m \in Nodes : Moved(lt[m], rf[m], d.l_to[m], d.r_fr[m])
      /\ \A m \in live : /\ Passes(d, m, 0) => ReachesTo(d.l_to[m], box.max[ax[m]])
                         /\ Passes(d, m, 1) => ReachesFrom(d.r_fr[m], box.min[ax[m]])
  BY <1>5 DEF DescentIn
<1>8. /\ live \in SUBSET Nodes /\ children \in Kids /\ AcyclicIn(children) /\ a \in Nodes
      /\ up \in [Nodes -> Nodes \cup {NoNode}]
  BY <1>1, <1>7 DEF LinkedIn
<1>9. /\ new \in Kids /\ new[a][i] = n
      /\ \A m \in Nodes, j \in Sides : (m = a /\ j = i) \/ new[m][j] = children[m][j]
  <2> HIDE DEF a, i
  <2>1. children \in [Nodes -> [Sides -> Nodes \cup {NoNode}]]
    BY <1>8 DEF Kids
  <2>2. new \in [Nodes -> [Sides -> Nodes \cup {NoNode}]]
    BY <2>1
  <2> QED BY <1>7, <1>8, <2>1, <2>2 DEF Kids
<1> HIDE DEF a, i, new
<1>10. Grown(live, up, children, new, a, i, n)
  BY <1>1, <1>2, <1>7, <1>9 DEF Grown
<1>11. LinkedIn(live', up2, new)
  <2>1. up[n] = NoNode /\ a # n
    BY <1>1, <1>2, <1>7 DEF LinkedIn
  <2>2. a \notin BelowIn(children, n)
    <3>1. \A j \in Sides : children[n][j] = NoNode
      BY <1>1, <1>2 DEF LinkedIn
    <3>2. ClosedIn(children, {n})
      BY <3>1 DEF ClosedIn
    <3>3. BelowIn(children, n) \subseteq {n}
      BY <1>8, <3>2, BelowIs
    <3> QED BY <2>1, <3>3
  <2>3. /\ up2 \in [Nodes -> Nodes \cup {NoNode}] /\ up2[n] = a
        /\ \A m \in Nodes : m # n => up2[m] = up[m]
    BY <1>8
  <2>4. live \subseteq live' /\ live' \in SUBSET Nodes /\ n \in live'
    BY <1>2, <1>8
  <2> HIDE DEF up2
  <2>5. Linking(live, up, children, live', up2, new, a, i, n)
    BY <1>1, <1>7, <1>9, <2>1, <2>2, <2>3, <2>4 DEF Linking
  <2> QED BY <2>5, LinkedAfterLink
<1>12. /\ BelowIn(new, n) = {n}
       /\ \A m \in live : BelowIn(new, m)
            = BelowIn(children, m) \cup (IF a \in BelowIn(children, m) THEN {n} ELSE {})
  BY <1>10, GrownBelow
<1>13. /\ ax2 \in [Nodes -> 0 .. Dim - 1] /\ ax2[n] = NextAxis(ax[a])
       /\ \A m \in Nodes : m # n => ax2[m] = ax[m]
  <2>1. ax \in [Nodes -> 0 .. Dim - 1]
    BY <1>1 DEF KdTree
  <2>2. NextAxis(ax[a]) \in 0 .. Dim - 1
    <3>1. ax[a] + 1 \in Int /\ Dim \in Nat \ {0}
      BY <1>8, <2>1, DimAssumption
    <3> QED BY <3>1 DEF NextAxis
  <2> QED BY <2>1, <2>2
<1> HIDE DEF up2, ax2
<1>14. KdTree(live', up2, new, root, ax2)
  <2>1. /\ root \in live /\ live \subseteq BelowIn(children, root) /\ ax[root] = 0
    BY <1>1, <1>2 DEF KdTree
  <2>2. root \in live' /\ live' \subseteq BelowIn(new, root) /\ ax2[root] = 0
    <3>1. a \in BelowIn(children, root)
      BY <1>7, <2>1
    <3>2. BelowIn(new, root) = BelowIn(children, root) \cup {n}
      BY <1>12, <2>1, <3>1
    <3> QED BY <1>2, <1>8, <1>13, <2>1, <3>2
  <2>3. ASSUME NEW m \in Nodes, NEW j \in Sides, new[m][j] # NoNode
        PROVE  ax2[new[m][j]] = NextAxis(ax2[m])
    <3>1. CASE m = a /\ j = i
      <4>1. a # n
        BY <1>2, <1>7
      <4> QED BY <1>8, <1>9, <1>13, <3>1, <4>1
    <3>2. CASE ~(m = a /\ j = i)
      <4>1. new[m][j] = children[m][j]
        BY <1>9, <3>2
      <4>2. m \in live /\ children[m][j] \in live
        BY <1>1, <2>3, <4>1 DEF LinkedIn
      <4>3. ax[children[m][j]] = NextAxis(ax[m])
        BY <1>1, <2>3, <4>1 DEF KdTree
      <4>4. m # n /\ children[m][j] # n /\ children[m][j] \in Nodes
        BY <1>2, <1>8, <4>2
      <4> QED BY <1>13, <4>1, <4>3, <4>4
    <3> QED BY <3>1, <3>2
  <2> QED BY <1>2, <1>11, <1>13, <2>2, <2>3 DEF KdTree
<1>15. /\ aabb \in [Nodes -> Boxes \cup {Unread}] /\ \A m \in live : aabb[m] \in Boxes
       /\ l_to \in [Nodes -> Bounds \cup {Unread}] /\ r_fr \in [Nodes -> Bounds \cup {Unread}]
       /\ \A m \in live, j \in Sides :
            children[m][j] # NoNode => l_to[m] \in Bounds /\ r_fr[m] \in Bounds
       /\ \A m \in live :
            /\ \A x \in BelowIn(children, children[m][0]) : ReachesTo(l_to[m], aabb[x].max[ax[m]])
            /\ \A x \in BelowIn(children, children[m][1]) : ReachesFrom(r_fr[m], aabb[x].min[ax[m]])
  BY <1>1 DEF BoundsIn
<1>16. /\ aabb' \in [Nodes -> Boxes \cup {Unread}] /\ aabb'[n] = box
       /\ \A m \in live : aabb'[m] = aabb[m]
  BY <1>2, <1>8, <1>15
<1>17. /\ l_to' \in [Nodes -> Bounds \cup {Unread}] /\ r_fr' \in [Nodes -> Bounds \cup {Unread}]
       /\ l_to'[a] = d.l_to[a] /\ r_fr'[a] = d.r_fr[a]
       /\ \A m \in Nodes : l_to[m] \in Bounds /\ r_fr[m] \in Bounds =>
            /\ l_to'[m] = d.l_to[m] /\ r_fr'[m] = d.r_fr[m]
            /\ Moved(l_to[m], r_fr[m], l_to'[m], r_fr'[m])
  <2>1. \A m \in Nodes : l_to[m] \in Bounds => lt[m] = l_to[m] /\ l_to[m] # Unread
    BY <1>6, GarbageAssumption DEF Bounds
  <2>2. \A m \in Nodes : r_fr[m] \in Bounds => rf[m] = r_fr[m] /\ r_fr[m] # Unread
    BY <1>6, GarbageAssumption DEF Bounds
  <2>3. \A m \in Nodes : d.l_to[m] \in Bounds /\ d.r_fr[m] \in Bounds
    BY <1>7
  <2>4. /\ l_to' \in [Nodes -> Bounds \cup {Unread}] /\ r_fr' \in [Nodes -> Bounds \cup {Unread}]
        /\ l_to'[a] = d.l_to[a] /\ r_fr'[a] = d.r_fr[a]
    BY <1>4, <1>8, <2>3
  <2>5. ASSUME NEW m \in Nodes, l_to[m] \in Bounds /\ r_fr[m] \in Bounds
        PROVE  /\ l_to'[m] = d.l_to[m] /\ r_fr'[m] = d.r_fr[m]
               /\ Moved(l_to[m], r_fr[m], l_to'[m], r_fr'[m])
    <3>1. l_to'[m] = d.l_to[m] /\ r_fr'[m] = d.r_fr[m]
      BY <1>4, <2>1, <2>2, <2>5
    <3>2. Moved(lt[m], rf[m], d.l_to[m], d.r_fr[m])
      BY <1>7
    <3> QED BY <2>1, <2>2, <2>5, <3>1, <3>2
  <2> QED BY <2>4, <2>5
<1>18. \A m \in live, j \in Sides :
         \A x \in BelowIn(new, new[m][j]) :
           \/ x \in BelowIn(children, children[m][j]) /\ children[m][j] # NoNode
           \/ x = n /\ Passes(d, m, j) /\ (m = a \/ children[m][j] # NoNode)
  <2> SUFFICES ASSUME NEW m \in live, NEW j \in Sides, NEW x \in BelowIn(new, new[m][j])
               PROVE  \/ x \in BelowIn(children, children[m][j]) /\ children[m][j] # NoNode
                      \/ x = n /\ Passes(d, m, j) /\ (m = a \/ children[m][j] # NoNode)
    OBVIOUS
  <2>1. CASE m = a /\ j = i
    <3>1. x = n
      BY <1>9, <1>12, <2>1
    <3> QED BY <1>5, <2>1, <3>1 DEF Passes, a, i
  <2>2. CASE ~(m = a /\ j = i)
    <3>1. m \in Nodes /\ new[m][j] = children[m][j] /\ new[m][j] # NoNode
      BY <1>8, <1>9, <2>2, BelowNone
    <3>2. children[m][j] \in live
      BY <1>1, <3>1 DEF LinkedIn
    <3>3. x \in BelowIn(children, children[m][j]) \cup
            (IF a \in BelowIn(children, children[m][j]) THEN {n} ELSE {})
      BY <1>12, <3>1, <3>2
    <3> QED BY <3>1, <3>3 DEF Passes, a
  <2> QED BY <2>1, <2>2
<1>19. ASSUME NEW m \in live
       PROVE  /\ \A x \in BelowIn(new, new[m][0]) : ReachesTo(l_to'[m], aabb'[x].max[ax2[m]])
              /\ \A x \in BelowIn(new, new[m][1]) : ReachesFrom(r_fr'[m], aabb'[x].min[ax2[m]])
  <2>1. m \in Nodes /\ ax2[m] = ax[m] /\ ax[m] \in 0 .. Dim - 1
    <3>1. m \in Nodes /\ m # n
      BY <1>2, <1>8
    <3>2. ax \in [Nodes -> 0 .. Dim - 1]
      BY <1>1 DEF KdTree
    <3> QED BY <1>13, <3>1, <3>2
  <2>2. ASSUME NEW x \in live, NEW j \in Sides, x \in BelowIn(children, children[m][j]),
               children[m][j] # NoNode
        PROVE  /\ j = 0 => ReachesTo(l_to'[m], aabb'[x].max[ax2[m]])
               /\ j = 1 => ReachesFrom(r_fr'[m], aabb'[x].min[ax2[m]])
    <3>1. l_to[m] \in Bounds /\ r_fr[m] \in Bounds /\ aabb[x] \in Boxes /\ aabb'[x] = aabb[x]
      BY <1>15, <1>16, <2>2
    <3>2. aabb[x].max[ax[m]] \in Int /\ aabb[x].min[ax[m]] \in Int
      BY <2>1, <3>1, BoxesAssumption
    <3>3. /\ j = 0 => ReachesTo(l_to[m], aabb[x].max[ax[m]])
          /\ j = 1 => ReachesFrom(r_fr[m], aabb[x].min[ax[m]])
      BY <1>15, <2>2
    <3>4. Moved(l_to[m], r_fr[m], l_to'[m], r_fr'[m])
      BY <1>17, <2>1, <3>1
    <3> QED BY <2>1, <3>1, <3>2, <3>3, <3>4 DEF Moved, ReachesTo, ReachesFrom
  <2>3. ASSUME NEW j \in Sides, Passes(d, m, j), m = a \/ children[m][j] # NoNode
        PROVE  /\ j = 0 => ReachesTo(l_to'[m], aabb'[n].max[ax2[m]])
               /\ j = 1 => ReachesFrom(r_fr'[m], aabb'[n].min[ax2[m]])
    <3>1. l_to'[m] = d.l_to[m] /\ r_fr'[m] = d.r_fr[m]
      BY <1>15, <1>17, <2>1, <2>3
    <3>2. /\ j = 0 => ReachesTo(d.l_to[m], box.max[ax[m]])
          /\ j = 1 => ReachesFrom(d.r_fr[m], box.min[ax[m]])
      BY <1>7, <2>3
    <3> QED BY <1>16, <2>1, <3>1, <3>2
  <2>4. \A j \in Sides : children[m][j] # NoNode => BelowIn(children, children[m][j]) \subseteq live
    <3> SUFFICES ASSUME NEW j \in Sides, children[m][j] # NoNode
                 PROVE  BelowIn(children, children[m][j]) \subseteq live
      OBVIOUS
    <3>1. children[m][j] \in live
      BY <1>1, <2>1 DEF LinkedIn
    <3> QED BY <1>1, <3>1, BelowLive
  <2>5. \A j \in Sides : \A x \in BelowIn(new, new[m][j]) :
          /\ j = 0 => ReachesTo(l_to'[m], aabb'[x].max[ax2[m]])
          /\ j = 1 => ReachesFrom(r_fr'[m], aabb'[x].min[ax2[m]])
    BY <1>18, <2>2, <2>3, <2>4
  <2> QED BY <2>5, SidesAre
<1>20. BoundsIn(live', new, ax2, aabb', l_to', r_fr')
  <2>1. \A j \in Sides : new[n][j] = NoNode
    <3>1. a # n /\ \A j \in Sides : children[n][j] = NoNode
      BY <1>1, <1>2, <1>7 DEF LinkedIn
    <3> QED BY <1>9, <3>1
  <2>2. ASSUME NEW m \in live', NEW j \in Sides, new[m][j] # NoNode
        PROVE  l_to'[m] \in Bounds /\ r_fr'[m] \in Bounds
    <3>1. m \in live /\ m \in Nodes
      BY <1>2, <1>8, <2>1, <2>2
    <3>2. CASE m = a
      BY <1>7, <1>17, <3>1, <3>2
    <3>3. CASE m # a
      <4>1. children[m][j] # NoNode
        BY <1>9, <2>2, <3>1, <3>3
      <4>2. l_to[m] \in Bounds /\ r_fr[m] \in Bounds
        BY <1>15, <3>1, <4>1
      <4> QED BY <1>7, <1>17, <3>1, <4>2
    <3> QED BY <3>2, <3>3
  <2>3. \A m \in live' :
          /\ \A x \in BelowIn(new, new[m][0]) : ReachesTo(l_to'[m], aabb'[x].max[ax2[m]])
          /\ \A x \in BelowIn(new, new[m][1]) : ReachesFrom(r_fr'[m], aabb'[x].min[ax2[m]])
    <3>1. BelowIn(new, new[n][0]) = {} /\ BelowIn(new, new[n][1]) = {}
      BY <2>1, BelowNone, SidesAre
    <3> QED BY <1>2, <1>19, <3>1
  <2>4. \A m \in live' : aabb'[m] \in Boxes
    BY <1>2, <1>15, <1>16
  <2> QED BY <1>16, <1>17, <2>2, <2>3, <2>4 DEF BoundsIn
<1>21. erased' \subseteq live' /\ counter' = Cardinality(live' \ erased')
  BY <1>1, <1>2, <1>8, CountInsert
<1>22. PICK u, x : u = up2 /\ x = ax2
  OBVIOUS
<1>23. TreeHas(u, x)'
  BY <1>2, <1>4, <1>14, <1>20, <1>21, <1>22 DEF TreeHas
<1>24. ASSUME NEW s, SearchIn(s, live, children, ax, aabb, erased)
       PROVE  SearchIn(s, live', children', x, aabb', erased')
  <2>1. \A m \in live : ax2[m] = ax[m]
    BY <1>2, <1>8, <1>13
  <2>2. SearchIn(s, live \cup {n}, new, ax2, aabb', erased)
    BY <1>10, <1>16, <1>24, <2>1, GrownSearch
  <2> QED BY <1>2, <1>4, <1>22, <2>2
<1>25. ASSUME NEW D \in SUBSET live, Seen(live, children, r_fr, D)
       PROVE  Seen(live', new, r_fr', D)
  <2> SUFFICES ASSUME NEW m \in live', r_fr'[m] = NaN, NEW y \in BelowIn(new, new[m][1]), y \in D
               PROVE  FALSE
    BY DEF Seen
  <2>1. m \in live
    <3>1. CASE m = n
      <4>1. a # n /\ children[n][1] = NoNode
        BY <1>1, <1>2, <1>7, SidesAre DEF LinkedIn
      <4>2. new[n][1] = NoNode
        BY <1>9, <4>1, SidesAre
      <4> QED BY <3>1, <4>2, BelowNone
    <3> QED BY <1>2, <3>1
  <2>2. y \in BelowIn(children, children[m][1]) /\ children[m][1] # NoNode
    BY <1>2, <1>18, <2>1, SidesAre
  <2>3. l_to[m] \in Bounds /\ r_fr[m] \in Bounds
    BY <1>15, <2>1, <2>2, SidesAre
  <2>4. Moved(l_to[m], r_fr[m], l_to'[m], r_fr'[m])
    BY <1>8, <1>17, <2>1, <2>3
  <2>5. r_fr[m] = NaN
    BY <2>3, <2>4, GarbageAssumption DEF Bounds, Moved
  <2> QED BY <1>25, <2>1, <2>2, <2>5 DEF Seen
<1> QED BY <1>4, <1>23, <1>24, <1>25

\* A box fewer is counted, and no longer due.
LEMMA EraseBoxKeeps ==
  ASSUME NEW up, NEW ax, TreeHas(up, ax), NEW n \in Nodes, EraseBox(n)
  PROVE  /\ TreeHas(up, ax)'
         /\ \A s : SearchOf(s, ax) => SearchOf(s, ax)'
<1>1. /\ n \in live \ erased /\ erased' = erased \cup {n} /\ counter' = counter - 1
      /\ live' = live /\ children' = children
      /\ root' = root /\ aabb' = aabb /\ l_to' = l_to /\ r_fr' = r_fr
  BY DEF EraseBox, forestVars, links
<1>2. /\ KdTree(live, up, children, root, ax)
      /\ BoundsIn(live, children, ax, aabb, l_to, r_fr)
      /\ erased \subseteq live /\ counter = Cardinality(live \ erased)
  BY DEF TreeHas
<1>3. erased' \subseteq live' /\ counter' = Cardinality(live' \ erased')
  <2>1. IsFiniteSet(live \ erased)
    <3>1. live \ erased \in SUBSET Nodes
      BY <1>2 DEF KdTree, LinkedIn
    <3> QED BY <3>1, NodesAssumption, FS_Subset
  <2>2. live' \ erased' = (live \ erased) \ {n}
    BY <1>1
  <2>3. Cardinality((live \ erased) \ {n}) = Cardinality(live \ erased) - 1
    BY <1>1, <2>1, FS_RemoveElement
  <2> QED BY <1>1, <1>2, <2>2, <2>3
<1>4. TreeHas(up, ax)'
  BY <1>1, <1>2, <1>3 DEF TreeHas
<1>5. ASSUME NEW s, SearchOf(s, ax) PROVE SearchOf(s, ax)'
  <2>1. SearchIn(s, live', children', ax, aabb', erased')
    BY <1>1, <1>5 DEF SearchOf, SearchIn
  <2> QED BY <1>1, <1>5, <2>1 DEF SearchOf, Seen
<1> QED BY <1>4, <1>5

----------------------------------------------------------------------------
(* each_intersecting() *)

\* It meets the box of the node at the top, or passes it, if it is not due.
LEMMA NodeSearch ==
  ASSUME NEW L, NEW up, NEW ch, LinkedIn(L, up, ch), NEW ax, NEW bx, NEW er, NEW s,
         SearchIn(s, L, ch, ax, bx, er), s.stack # <<>>, Last(s.stack).next = Itself,
         NEW n, n = Last(s.stack).node,
         NEW t, SearchFields(t), t.box = s.box, t.stack = NodeDone(s.stack), t.due = s.due,
         t.met = Append(s.met, n) \/ (t.met = s.met /\ n \notin s.due \ er)
  PROVE  SearchIn(t, L, ch, ax, bx, er)
<1> DEFINE st == s.stack
           nd == NodeDone(st)
           mt == s.met
           am == Append(mt, n)
           p == <<n, Itself>>
<1>1. /\ s.box \in Asked /\ t.stack = nd
      /\ StackIn(L, ch, ax, st) /\ mt \in Seq(L)
      /\ \A j, k \in 1 .. Len(mt) : mt[j] = mt[k] => j = k
      /\ \A k \in 1 .. Len(mt) : <<mt[k], Itself>> \notin LeftOf(ch, st)
      /\ s.due \subseteq L /\ \A m \in s.due : Intersects(bx[m], s.box)
      /\ \A m \in s.due \ er : (\E k \in 1 .. Len(mt) : mt[k] = m)
           \/ <<m, Itself>> \in LeftOf(ch, st)
  BY DEF SearchIn
<1>2. /\ StackIn(L, ch, ax, nd) /\ n \in L
      /\ LeftOf(ch, nd) = LeftOf(ch, st) \ {p} /\ p \in LeftOf(ch, st)
  BY <1>1, NodeDoneLeft
<1>3. \A m : m # n /\ <<m, Itself>> \in LeftOf(ch, st) => <<m, Itself>> \in LeftOf(ch, nd)
  BY <1>2
<1>4. /\ am \in Seq(L) /\ Len(mt) \in Nat /\ Len(am) = Len(mt) + 1 /\ am[Len(mt) + 1] = n
      /\ \A k \in 1 .. Len(mt) : am[k] = mt[k]
  BY <1>1, <1>2
<1>5. 1 .. Len(mt) + 1 = (1 .. Len(mt)) \cup {Len(mt) + 1} /\ Len(mt) + 1 \notin 1 .. Len(mt)
  BY <1>4
<1>6. \A k \in 1 .. Len(mt) : mt[k] # n
  BY <1>1, <1>2
<1> HIDE DEF st, nd, mt, am, p
<1>7. CASE t.met = am
  <2>1. \A j, k \in 1 .. Len(am) : am[j] = am[k] => j = k
    BY <1>1, <1>4, <1>5, <1>6
  <2>2. \A k \in 1 .. Len(am) : <<am[k], Itself>> \notin LeftOf(ch, nd)
    BY <1>1, <1>2, <1>4, <1>5 DEF p
  <2>3. ASSUME NEW m \in s.due \ er
        PROVE  (\E k \in 1 .. Len(am) : am[k] = m) \/ <<m, Itself>> \in LeftOf(ch, nd)
    <3>1. CASE \E k \in 1 .. Len(mt) : mt[k] = m
      BY <1>4, <1>5, <3>1
    <3>2. CASE m = n
      BY <1>4, <1>5, <3>2
    <3> QED BY <1>1, <1>3, <3>1, <3>2
  <2> QED BY <1>1, <1>2, <1>4, <1>7, <2>1, <2>2, <2>3 DEF SearchIn
<1>8. CASE t.met = mt /\ n \notin s.due \ er
  <2>1. \A k \in 1 .. Len(mt) : <<mt[k], Itself>> \notin LeftOf(ch, nd)
    BY <1>1, <1>2
  <2>2. \A m \in s.due \ er : (\E k \in 1 .. Len(mt) : mt[k] = m)
          \/ <<m, Itself>> \in LeftOf(ch, nd)
    BY <1>1, <1>3, <1>8
  <2> QED BY <1>1, <1>2, <1>8, <2>1, <2>2 DEF SearchIn
<1> QED BY <1>7, <1>8 DEF mt, am

\* The callback returns.
LEMMA ReturnSearch ==
  ASSUME NEW L, NEW ch, NEW ax, NEW bx, NEW er, NEW s, SearchIn(s, L, ch, ax, bx, er),
         NEW t, SearchFields(t),
         t.box = s.box, t.stack = s.stack, t.met = s.met, t.due = s.due
  PROVE  SearchIn(t, L, ch, ax, bx, er)
BY DEF SearchIn

\* It goes down a side, unless none of its boxes can intersect.
LEMMA SideSearch ==
  ASSUME NEW up, NEW ax, TreeHas(up, ax), NEW s, SearchIn(s, live, children, ax, aabb, erased),
         Seen(live, children, r_fr, s.due), s.stack # <<>>, Last(s.stack).next # Itself
  PROVE  \A t : /\ SearchFields(t) /\ t.box = s.box /\ t.met = s.met /\ t.due = s.due
               /\ t.stack = SideDone(s.stack, Reaches(Last(s.stack), s.box))
               => SearchIn(t, live, children, ax, aabb, erased)
<1> DEFINE st == s.stack
           n == Last(st).node
           i == Last(st).next
           within == Reaches(Last(st), s.box)
           sd == SideDone(st, within)
           mt == s.met
           gone == LeftOf(children, st) \ LeftOf(children, sd)
<1>1. /\ s.box \in Asked
      /\ StackIn(live, children, ax, st) /\ mt \in Seq(live)
      /\ \A j, k \in 1 .. Len(mt) : mt[j] = mt[k] => j = k
      /\ \A k \in 1 .. Len(mt) : <<mt[k], Itself>> \notin LeftOf(children, st)
      /\ s.due \subseteq live /\ \A m \in s.due : Intersects(aabb[m], s.box)
      /\ \A m \in s.due \ erased :
           (\E k \in 1 .. Len(mt) : mt[k] = m) \/ <<m, Itself>> \in LeftOf(children, st)
  BY DEF SearchIn
<1>2. KdTree(live, up, children, root, ax) /\ BoundsIn(live, children, ax, aabb, l_to, r_fr)
  BY DEF TreeHas
<1>3. /\ n \in live /\ i \in Sides /\ Last(st).axis = ax[n]
      /\ StackIn(live, children, ax, sd)
      /\ LeftOf(children, sd) \subseteq LeftOf(children, st)
      /\ \A m : <<m, Itself>> \in gone => ~within /\ m \in Below(children[n][i])
  <2> HIDE DEF within
  <2> QED BY <1>1, <1>2, SideDoneLeft
<1>4. ASSUME NEW m \in s.due, <<m, Itself>> \in gone PROVE FALSE
  <2> DEFINE a == ax[n]
             b == aabb[m]
  <2>1. ~within /\ m \in BelowIn(children, children[n][i]) /\ children[n][i] # NoNode
    BY <1>3, <1>4, BelowSame, BelowNone
  <2>2. a \in 0 .. Dim - 1 /\ n \in Nodes
    BY <1>2, <1>3 DEF KdTree, LinkedIn
  <2>3. l_to[n] \in Bounds /\ r_fr[n] \in Bounds /\ b \in Boxes
    BY <1>1, <1>2, <1>3, <2>1 DEF BoundsIn
  <2>4. b.min[a] \in Int /\ b.max[a] \in Int /\ s.box.min[a] \in Int /\ s.box.max[a] \in Int
    <3>1. b \in Boxes \cup Asked /\ s.box \in Boxes \cup Asked
      BY <1>1, <2>3
    <3>2. /\ b.min \in [0 .. Dim - 1 -> Int] /\ b.max \in [0 .. Dim - 1 -> Int]
          /\ s.box.min \in [0 .. Dim - 1 -> Int] /\ s.box.max \in [0 .. Dim - 1 -> Int]
      BY <3>1, BoxesAssumption
    <3> HIDE DEF a, b
    <3> QED BY <2>2, <3>2
  <2>5. b.min[a] <= s.box.max[a] /\ s.box.min[a] <= b.max[a]
    BY <1>1, <1>4, <2>2 DEF Intersects
  <2>6. (i = 0 => ReachesTo(l_to[n], b.max[a])) /\ (i = 1 => ReachesFrom(r_fr[n], b.min[a]))
    BY <1>2, <1>3, <2>1 DEF BoundsIn
  <2>7. i = 1 => r_fr[n] # NaN
    BY <1>3, <1>4, <2>1 DEF Seen
  <2>8. /\ i = 0 => l_to[n] \in Int /\ ~(l_to[n] >= s.box.min[a])
        /\ i = 1 => r_fr[n] \in Int /\ ~(r_fr[n] <= s.box.max[a])
    <3>1. /\ i = 0 => l_to[n] \in Int /\ l_to[n] # NaN
          /\ i = 1 => r_fr[n] \in Int
      BY <2>6, <2>7, GarbageAssumption DEF ReachesTo, ReachesFrom
    <3>2. /\ i = 0 => ~(l_to[n] # NaN /\ l_to[n] >= s.box.min[a])
          /\ i = 1 => ~(r_fr[n] # NaN /\ r_fr[n] <= s.box.max[a])
      <4> DEFINE f == Last(st)
      <4>1. f.node = n /\ f.next = i /\ f.axis = a /\ ~Reaches(f, s.box)
        BY <1>3, <2>1
      <4> HIDE DEF f, n, i, a, st, within
      <4>2. i = 0 => (Reaches(f, s.box) <=> l_to[n] # NaN /\ l_to[n] >= s.box.min[a])
        BY <4>1 DEF Reaches, SideBound
      <4>3. i = 1 => (Reaches(f, s.box) <=> r_fr[n] # NaN /\ r_fr[n] <= s.box.max[a])
        BY <4>1 DEF Reaches, SideBound
      <4> QED BY <4>1, <4>2, <4>3
    <3> QED BY <2>7, <3>1, <3>2
  <2> HIDE DEF a, b, n, i, st, within
  <2> QED BY <1>3, <2>4, <2>5, <2>6, <2>7, <2>8, SidesAre DEF ReachesTo, ReachesFrom
<1> HIDE DEF st, sd, mt, n, i, within
<1>5. \A k \in 1 .. Len(mt) : <<mt[k], Itself>> \notin LeftOf(children, sd)
  BY <1>1, <1>3
<1>6. \A m \in s.due \ erased :
        (\E k \in 1 .. Len(mt) : mt[k] = m) \/ <<m, Itself>> \in LeftOf(children, sd)
  BY <1>1, <1>4
<1>7. ASSUME NEW t, SearchFields(t), t.box = s.box, t.met = s.met, t.due = s.due, t.stack = sd
      PROVE  SearchIn(t, live, children, ax, aabb, erased)
  BY <1>1, <1>3, <1>5, <1>6, <1>7 DEF SearchIn, mt
<1> QED BY <1>7 DEF sd, st, within

\* It begins at the root, with all places to go.
LEMMA BeginSearch ==
  ASSUME NEW up, NEW ax, TreeHas(up, ax), root # NoNode, NEW box \in Asked
  PROVE  LET begun == [box |-> box, stack |-> <<Frame(root, 0)>>, met |-> <<>>,
                       due |-> Wanted(box) \ Hidden, calling |-> FALSE]
         IN  /\ SearchIn(begun, live, children, ax, aabb, erased)
             /\ Seen(live, children, r_fr, begun.due)
<1> DEFINE f == Frame(root, 0)
           D == Wanted(box) \ Hidden
           t == [box |-> box, stack |-> <<f>>, met |-> <<>>, due |-> D, calling |-> FALSE]
<1>1. /\ LinkedIn(live, up, children) /\ root \in live /\ live \subseteq BelowIn(children, root)
      /\ ax[root] = 0
  BY DEF TreeHas, KdTree
<1>2. f \in Frames(live, ax)
  <2>1. 0 \in 0 .. Dim - 1
    BY DimAssumption
  <2> QED BY <1>1, <2>1, SidesAre DEF Frames, Frame
<1>3. Region(children, f) = BelowIn(children, root) \X (-1 .. 1)
  BY DEF Region, Frame, Places
<1> HIDE DEF f
<1>4. StackIn(live, children, ax, <<f>>) /\ LeftOf(children, <<f>>) = Region(children, f)
  <2>1. <<f>> \in Seq(Frames(live, ax)) /\ Len(<<f>>) = 1 /\ <<f>>[1] = f
    BY <1>2
  <2>2. \A j, k \in 1 .. 1 : j = k
    OBVIOUS
  <2>3. StackIn(live, children, ax, <<f>>)
    BY <2>1, <2>2 DEF StackIn
  <2>4. {Region(children, <<f>>[k]) : k \in 1 .. Len(<<f>>)} = {Region(children, f)}
    BY <2>1
  <2> QED BY <2>3, <2>4 DEF LeftOf
<1>5. \A m \in live : <<m, Itself>> \in LeftOf(children, <<f>>)
  BY <1>1, <1>3, <1>4, SidesAre
<1>6. D \subseteq live /\ \A m \in D : Intersects(aabb[m], box)
  BY DEF Wanted
<1>7. Seen(live, children, r_fr, D)
  <2>1. \A n \in live : r_fr[n] = NaN => BelowIn(children, children[n][1]) \subseteq Hidden
    BY BelowSame DEF Hidden
  <2> QED BY <2>1 DEF Seen
<1>8. <<>> \in Seq(live) /\ Len(<<>>) = 0 /\ 1 .. 0 = {}
  OBVIOUS
<1>9. SearchIn(t, live, children, ax, aabb, erased) /\ t.due = D
  <2> HIDE DEF D
  <2>1. /\ t.box = box /\ t.stack = <<f>> /\ t.met = <<>> /\ t.due = D
        /\ SearchFields(t)
    BY DEF SearchFields
  <2> HIDE DEF t
  <2>2. \A m \in D \ erased : <<m, Itself>> \in LeftOf(children, t.stack)
    BY <1>5, <1>6, <2>1
  <2> QED BY <1>4, <1>6, <1>8, <2>1, <2>2 DEF SearchIn
<1> QED BY <1>7, <1>9 DEF f

\* An empty tree.
LEMMA KdInvInit == Init => KdInv
<1> SUFFICES ASSUME Init PROVE KdInv
  OBVIOUS
<1>1. /\ live = {} /\ children = [n \in Nodes |-> NoChildren]
      /\ root = NoNode /\ erased = {} /\ counter = 0 /\ search = NoSearch
      /\ aabb = [n \in Nodes |-> Unread]
      /\ l_to = [n \in Nodes |-> Unread] /\ r_fr = [n \in Nodes |-> Unread]
  BY DEF Init, ForestInit, KdInit
<1> DEFINE up == [n \in Nodes |-> NoNode]
           ax == [n \in Nodes |-> 0]
<1>2. children \in Kids /\ \A n \in Nodes, i \in Sides : children[n][i] = NoNode
  BY <1>1 DEF Kids, NoChildren
<1>3. LinkedIn(live, up, children)
  BY <1>1, <1>2, BelowNone DEF LinkedIn, AcyclicIn
<1>4. 0 \in 0 .. Dim - 1
  BY DimAssumption
<1>5. KdTree(live, up, children, root, ax)
  BY <1>1, <1>2, <1>3, <1>4 DEF KdTree
<1>6. BoundsIn(live, children, ax, aabb, l_to, r_fr)
  BY <1>1 DEF BoundsIn
<1>7. Cardinality(live \ erased) = 0
  BY <1>1, FS_EmptySet
<1>8. TreeHas(up, ax) /\ SearchHas(ax)
  BY <1>1, <1>5, <1>6, <1>7 DEF TreeHas, SearchHas
<1> HIDE DEF up, ax
<1> QED BY <1>1, <1>8 DEF KdInv

\* The client inserts or erases, by itself or in a callback.
LEMMA ClientKeeps ==
  ASSUME NEW up, NEW ax, TreeHas(up, ax), SearchHas(ax), search' = search,
         \/ \E n \in Nodes, box \in Boxes : Insert(n, box)
         \/ \E n \in Nodes : EraseBox(n)
  PROVE  \E up2, ax2 : TreeHas(up2, ax2)' /\ SearchHas(ax2)'
<1>1. ASSUME NEW n \in Nodes, NEW box \in Boxes, InsertRoot(n, box)
      PROVE  \E up2, ax2 : TreeHas(up2, ax2)' /\ SearchHas(ax2)'
  <2>1. search' = NoSearch
    BY <1>1 DEF InsertRoot, SearchHas, SearchOf
  <2> QED BY <1>1, <2>1, InsertRootKeeps DEF SearchHas
<1>2. ASSUME NEW n \in Nodes, NEW box \in Boxes, InsertBelow(n, box)
      PROVE  \E up2, ax2 : TreeHas(up2, ax2)' /\ SearchHas(ax2)'
  <2>1. PICK up2, ax2 :
          /\ TreeHas(up2, ax2)'
          /\ \A s : SearchIn(s, live, children, ax, aabb, erased)
                      => SearchIn(s, live', children', ax2, aabb', erased')
          /\ \A D \in SUBSET live : Seen(live, children, r_fr, D)
                                      => Seen(live', children', r_fr', D)
    BY <1>2, InsertBelowKeeps
  <2>2. root' # NoNode
    BY <1>2 DEF InsertBelow
  <2>3. ASSUME search' # NoSearch PROVE SearchOf(search, ax2)'
    <3>1. SearchIn(search, live, children, ax, aabb, erased) /\ Seen(live, children, r_fr, search.due)
      BY <2>3 DEF SearchHas, SearchOf
    <3>2. search.due \in SUBSET live
      BY <3>1 DEF SearchIn
    <3> QED BY <2>1, <2>2, <3>1, <3>2 DEF SearchOf
  <2> QED BY <2>1, <2>3 DEF SearchHas
<1>3. ASSUME NEW n \in Nodes, EraseBox(n)
      PROVE  \E up2, ax2 : TreeHas(up2, ax2)' /\ SearchHas(ax2)'
  <2>1. PICK s : s = search
    OBVIOUS
  <2>2. TreeHas(up, ax)' /\ (SearchOf(s, ax) => SearchOf(s, ax)')
    BY <1>3, EraseBoxKeeps
  <2>3. SearchHas(ax)'
    BY <2>1, <2>2 DEF SearchHas, SearchOf
  <2> QED BY <2>2, <2>3
<1> QED BY <1>1, <1>2, <1>3 DEF Insert

\* Every step keeps it.
LEMMA KdInvNext == KdInv /\ [Next]_allVars => KdInv'
<1> SUFFICES ASSUME KdInv, [Next]_allVars PROVE KdInv'
  OBVIOUS
<1>1. CASE UNCHANGED allVars
  <2>1. /\ user' = user /\ search' = search /\ root' = root /\ live' = live
        /\ children' = children /\ aabb' = aabb /\ l_to' = l_to /\ r_fr' = r_fr
        /\ erased' = erased /\ counter' = counter
    BY <1>1 DEF allVars, forestVars, links, kdVars
  <2>2. ASSUME NEW up, NEW ax, TreeHas(up, ax), SearchHas(ax)
        PROVE  TreeHas(up, ax)' /\ SearchHas(ax)'
    <3>1. TreeHas(up, ax)'
      BY <2>1, <2>2 DEF TreeHas
    <3>2. PICK s : s = search
      OBVIOUS
    <3>3. SearchOf(s, ax) => SearchOf(s, ax)'
      BY <2>1 DEF SearchOf
    <3> QED BY <2>1, <2>2, <3>1, <3>2, <3>3 DEF SearchHas, SearchOf
  <2> QED BY <2>1, <2>2 DEF KdInv
<1>2. CASE ForestNext /\ UNCHANGED <<kdVars, search>>
  <2>1. user = "forest" /\ user' = user
    BY <1>2 DEF ForestNext, Emplace, GotoNode, Goto, LinkChild, EmplaceChild, UnlinkAndErase, Erase,
       GotoParent, GotoChild, WalkBegin, WalkStep, WalkEnd, links
  <2>2. search = NoSearch /\ root = NoNode
    BY <2>1 DEF KdInv
  <2>3. search' = NoSearch /\ root' = NoNode /\ user' # "kd"
    BY <1>2, <2>1, <2>2 DEF kdVars
  <2> QED BY <2>3 DEF KdInv
<1>3. CASE KdNext
  <2>1. user = "kd"
    BY <1>3 DEF KdNext
  <2>2. user' = user
    BY <1>3 DEF KdNext, Insert, InsertRoot, InsertBelow, NewNode, EraseBox, EachBegin, EachPass,
       EachMeet, EachContinue, EachBreak, EachSide, EachEnd, forestVars
  <2>3. PICK up, ax : TreeHas(up, ax) /\ SearchHas(ax)
    BY <2>1 DEF KdInv
  <2> SUFFICES \E up2, ax2 : TreeHas(up2, ax2)' /\ SearchHas(ax2)'
    BY <2>1, <2>2 DEF KdInv
  <2>4. UNCHANGED <<forestVars, kdVars>> => TreeHas(up, ax)'
    BY <2>3 DEF TreeHas, forestVars, links, kdVars
  <2>5. ASSUME UNCHANGED <<forestVars, kdVars>>, search' # NoSearch => SearchOf(search', ax)
        PROVE  TreeHas(up, ax)' /\ SearchHas(ax)'
    <3>1. PICK s : s = search'
      OBVIOUS
    <3>2. search' # NoSearch => SearchIn(s, live', children', ax, aabb', erased')
      BY <2>5, <3>1 DEF SearchOf, forestVars, links, kdVars
    <3>3. SearchHas(ax)'
      BY <2>5, <3>1, <3>2 DEF SearchHas, SearchOf, Seen, forestVars, links, kdVars
    <3> QED BY <2>4, <2>5, <3>3
  <2>6. CASE /\ search' = search
             /\ \/ \E n \in Nodes, box \in Boxes : Insert(n, box)
                \/ \E n \in Nodes : EraseBox(n)
    BY <2>3, <2>6, ClientKeeps
  <2>7. ASSUME NEW box \in Asked, EachBegin(box) PROVE TreeHas(up, ax)' /\ SearchHas(ax)'
    <3>1. /\ root # NoNode /\ UNCHANGED <<forestVars, kdVars>>
          /\ search' = [box |-> box, stack |-> <<Frame(root, 0)>>, met |-> <<>>,
                        due |-> Wanted(box) \ Hidden, calling |-> FALSE]
      BY <2>7 DEF EachBegin
    <3>2. SearchOf(search', ax)
      BY <2>3, <3>1, BeginSearch DEF SearchOf
    <3> QED BY <2>5, <3>1, <3>2
  <2>8. search # NoSearch => /\ root # NoNode /\ SearchIn(search, live, children, ax, aabb, erased)
                             /\ Seen(live, children, r_fr, search.due)
                             /\ LinkedIn(live, up, children)
    BY <2>3 DEF SearchHas, SearchOf, TreeHas, KdTree
  <2>9. CASE EachPass
    <3> DEFINE n == Last(search.stack).node
    <3>1. /\ search # NoSearch /\ search.stack # <<>> /\ Last(search.stack).next = Itself
          /\ n \notin Wanted(search.box) /\ UNCHANGED <<forestVars, kdVars>>
          /\ search' = [search EXCEPT !.stack = NodeDone(@)]
      BY <2>9 DEF EachPass, AtNode, Going
    <3>2. n \notin search.due \ erased
      BY <2>8, <3>1 DEF SearchIn, Wanted
    <3>3. /\ SearchFields(search') /\ search'.box = search.box /\ search'.due = search.due
          /\ search'.stack = NodeDone(search.stack) /\ search'.met = search.met
      BY <2>8, <3>1 DEF SearchIn, SearchFields
    <3>4. SearchIn(search', live, children, ax, aabb, erased)
      <4> HIDE DEF n
      <4> QED BY <2>8, <3>1, <3>2, <3>3, NodeSearch DEF n
    <3> QED BY <2>5, <2>8, <3>1, <3>3, <3>4 DEF SearchOf
  <2>10. CASE EachMeet
    <3> DEFINE n == Last(search.stack).node
    <3>1. /\ search # NoSearch /\ search.stack # <<>> /\ Last(search.stack).next = Itself
          /\ UNCHANGED <<forestVars, kdVars>>
          /\ search' = [search EXCEPT !.stack = NodeDone(@), !.met = Append(@, n), !.calling = TRUE]
      BY <2>10 DEF EachMeet, AtNode, Going
    <3>2. /\ SearchFields(search') /\ search'.box = search.box /\ search'.due = search.due
          /\ search'.stack = NodeDone(search.stack) /\ search'.met = Append(search.met, n)
      <4> DEFINE nd == NodeDone(search.stack)
                 am == Append(search.met, n)
      <4>1. search' = [search EXCEPT !.stack = nd, !.met = am, !.calling = TRUE]
        BY <3>1
      <4> HIDE DEF nd, am
      <4>2. search' = [search EXCEPT !.stack = nd, !.met = am, !.calling = TRUE]
              /\ SearchFields(search)
        BY <2>8, <3>1, <4>1 DEF SearchIn
      <4>3. /\ SearchFields(search') /\ search'.box = search.box /\ search'.due = search.due
            /\ search'.stack = nd /\ search'.met = am
        BY <4>2 DEF SearchFields
      <4> QED BY <4>3 DEF nd, am
    <3>3. SearchIn(search', live, children, ax, aabb, erased)
      <4> HIDE DEF n
      <4> QED BY <2>8, <3>1, <3>2, NodeSearch DEF n
    <3> QED BY <2>5, <2>8, <3>1, <3>2, <3>3 DEF SearchOf
  <2>11. CASE EachContinue
    <3>1. /\ search.calling /\ UNCHANGED <<forestVars, kdVars>>
          /\ search' = [search EXCEPT !.calling = FALSE]
      BY <2>11 DEF EachContinue
    <3>2. search # NoSearch
      BY <3>1 DEF NoSearch
    <3>3. /\ SearchFields(search') /\ search'.box = search.box /\ search'.due = search.due
          /\ search'.stack = search.stack /\ search'.met = search.met
      BY <2>8, <3>1, <3>2 DEF SearchIn, SearchFields
    <3>4. SearchIn(search', live, children, ax, aabb, erased)
      BY <2>8, <3>2, <3>3, ReturnSearch
    <3> QED BY <2>5, <2>8, <3>1, <3>2, <3>3, <3>4 DEF SearchOf
  <2>12. CASE EachBreak \/ EachEnd
    BY <2>5, <2>12 DEF EachBreak, EachEnd
  <2>13. CASE EachSide
    <3>1. /\ search # NoSearch /\ search.stack # <<>>
          /\ search' = [search EXCEPT !.stack = SideDone(@, Reaches(Last(@), search.box))]
          /\ UNCHANGED <<forestVars, kdVars>>
      BY <2>13 DEF EachSide, Going
    <3>2. Last(search.stack).next # Itself
      BY <2>13 DEF EachSide, AtNode
    <3>3. /\ SearchFields(search') /\ search'.box = search.box /\ search'.due = search.due
          /\ search'.stack = SideDone(search.stack, Reaches(Last(search.stack), search.box))
          /\ search'.met = search.met
      BY <2>8, <3>1 DEF SearchIn, SearchFields
    <3>4. SearchIn(search', live, children, ax, aabb, erased)
      BY <2>3, <2>8, <3>1, <3>2, <3>3, SideSearch
    <3> QED BY <2>5, <2>8, <3>1, <3>3, <3>4 DEF SearchOf
  <2> QED BY <1>3, <2>6, <2>7, <2>9, <2>10, <2>11, <2>12, <2>13 DEF KdNext
<1> QED BY <1>1, <1>2, <1>3 DEF Next

\* It holds in every behaviour.
LEMMA KdInvAlways == Spec => []KdInv
BY KdInvInit, KdInvNext, PTL DEF Spec

\* each_intersecting() calls its callback once for every box that intersects and is
\* not hidden by a bound that is no number, other than those erased before its turn,
\* whatever the callbacks erase and insert, and whatever else the bounds of the nodes
\* began as; count() is that of the boxes that are not erased.
THEOREM IntersectingMet == Spec => []IntersectingAllMet
<1>1. KdInv => IntersectingAllMet
  <2> SUFFICES ASSUME KdInv PROVE IntersectingAllMet
    OBVIOUS
  <2>1. CASE search = NoSearch
    <3>1. search.met = <<>> /\ DOMAIN <<>> = {}
      BY <2>1 DEF NoSearch
    <3>2. IsInjective(search.met)
      BY <3>1 DEF IsInjective
    <3> QED BY <2>1, <3>2 DEF IntersectingAllMet, KdInv, TreeHas
  <2>2. CASE search # NoSearch
    <3>1. PICK up, ax : TreeHas(up, ax) /\ SearchHas(ax)
      BY <2>2 DEF KdInv
    <3> DEFINE mt == search.met
    <3>2. /\ mt \in Seq(live) /\ \A j, k \in 1 .. Len(mt) : mt[j] = mt[k] => j = k
          /\ \A m \in search.due \ erased :
               (\E k \in 1 .. Len(mt) : mt[k] = m)
                 \/ <<m, Itself>> \in LeftOf(children, search.stack)
      BY <2>2, <3>1 DEF SearchHas, SearchOf, SearchIn
    <3>3. DOMAIN mt = 1 .. Len(mt)
      BY <3>2
    <3>4. search.stack = <<>> => LeftOf(children, search.stack) = {}
      <4> SUFFICES LeftOf(children, <<>>) = {}
        OBVIOUS
      <4>1. 1 .. Len(<<>>) = {}
        OBVIOUS
      <4> QED BY <4>1 DEF LeftOf
    <3>5. counter = Cardinality(live \ erased)
      BY <3>1 DEF TreeHas
    <3>6. IsInjective(mt)
      BY <3>2, <3>3 DEF IsInjective
    <3>7. search.stack = <<>> => search.due \ erased \subseteq Range(mt)
      BY <3>2, <3>3, <3>4 DEF Range
    <3> QED BY <3>5, <3>6, <3>7 DEF IntersectingAllMet
  <2> QED BY <2>1, <2>2
<1> QED BY <1>1, KdInvAlways, PTL

----------------------------------------------------------------------------
(* find_closest_center() *)

\* Two sets have no more elements together.
LEMMA TwoSets ==
  ASSUME NEW A, IsFiniteSet(A), NEW B, IsFiniteSet(B)
  PROVE  /\ IsFiniteSet(A \cup B) /\ Cardinality(A \cup B) \in Nat
         /\ Cardinality(A \cup B) <= Cardinality(A) + Cardinality(B)
<1>1. IsFiniteSet(A \cap B)
  <2>1. A \cap B \in SUBSET A
    OBVIOUS
  <2> QED BY <2>1, FS_Subset
<1>2. /\ IsFiniteSet(A \cup B)
      /\ Cardinality(A \cup B) = Cardinality(A) + Cardinality(B) - Cardinality(A \cap B)
  BY FS_Union
<1>3. Cardinality(A) \in Nat /\ Cardinality(B) \in Nat /\ Cardinality(A \cap B) \in Nat
  BY <1>1, FS_CardinalityType
<1>4. Cardinality(A \cup B) \in Nat
  BY <1>2, FS_CardinalityType
<1> QED BY <1>2, <1>3, <1>4

\* There are three places for each live node.
LEMMA PlacesCount ==
  ASSUME NEW L, IsFiniteSet(L)
  PROVE  IsFiniteSet(L \X (-1 .. 1)) /\ Cardinality(L \X (-1 .. 1)) <= 3 * Cardinality(L)
<1>1. Cardinality(L) \in Nat
  BY FS_CardinalityType
<1>2. ASSUME NEW i \in -1 .. 1
      PROVE  IsFiniteSet(L \X {i}) /\ Cardinality(L \X {i}) <= Cardinality(L)
  <2> DEFINE f == [p \in L \X {i} |-> p[1]]
  <2>1. f \in Injection(L \X {i}, L)
    BY DEF Injection, IsInjective
  <2> QED BY <2>1, FS_Injection
<1> DEFINE A == L \X {-1}
           B == L \X {0}
           C == L \X {1}
<1>3. /\ IsFiniteSet(A) /\ Cardinality(A) <= Cardinality(L) /\ Cardinality(A) \in Nat
      /\ IsFiniteSet(B) /\ Cardinality(B) <= Cardinality(L) /\ Cardinality(B) \in Nat
      /\ IsFiniteSet(C) /\ Cardinality(C) <= Cardinality(L) /\ Cardinality(C) \in Nat
  <2>1. -1 \in -1 .. 1 /\ 0 \in -1 .. 1 /\ 1 \in -1 .. 1
    OBVIOUS
  <2> QED BY <1>2, <2>1, FS_CardinalityType
<1>4. L \X (-1 .. 1) = (A \cup B) \cup C
  <2>1. -1 .. 1 = {-1, 0, 1}
    OBVIOUS
  <2> QED BY <2>1
<1> HIDE DEF A, B, C
<1>5. /\ IsFiniteSet(A \cup B) /\ Cardinality(A \cup B) \in Nat
      /\ Cardinality(A \cup B) <= Cardinality(A) + Cardinality(B)
  BY <1>3, TwoSets
<1>6. /\ IsFiniteSet((A \cup B) \cup C) /\ Cardinality((A \cup B) \cup C) \in Nat
      /\ Cardinality((A \cup B) \cup C) <= Cardinality(A \cup B) + Cardinality(C)
  BY <1>3, <1>5, TwoSets
<1> DEFINE D == (A \cup B) \cup C
           E == A \cup B
<1>7. Cardinality(D) <= 3 * Cardinality(L)
  <2>1. Cardinality(D) \in Nat /\ Cardinality(E) \in Nat
    BY <1>5, <1>6
  <2>2. Cardinality(D) <= Cardinality(E) + Cardinality(C)
          /\ Cardinality(E) <= Cardinality(A) + Cardinality(B)
    BY <1>5, <1>6
  <2> HIDE DEF D, E
  <2> QED BY <1>1, <1>3, <2>1, <2>2
<1> QED BY <1>4, <1>6, <1>7

\* A search has no others to go to.
LEMMA LeftIn ==
  ASSUME NEW L, NEW up, NEW ch, LinkedIn(L, up, ch), NEW ax, NEW st, StackIn(L, ch, ax, st)
  PROVE  LeftOf(ch, st) \subseteq L \X (-1 .. 1)
<1>1. \A k \in 1 .. Len(st) : st[k] \in Frames(L, ax)
  BY DEF StackIn
<1> SUFFICES ASSUME NEW f \in Frames(L, ax) PROVE Region(ch, f) \subseteq L \X (-1 .. 1)
  BY <1>1 DEF LeftOf
<1>2. f.node \in L /\ f.next \in -1 .. 1
  BY DEF Frames
<1>3. f.node \in Nodes /\ BelowIn(ch, f.node) \subseteq L
  BY <1>2, BelowLive
<1>4. CASE f.next = Itself
  BY <1>3, <1>4 DEF Region, Places
<1>5. CASE f.next # Itself
  <2>1. f.next \in Sides
    BY <1>2, <1>5, SidesAre
  <2>2. BelowIn(ch, ch[f.node][f.next]) \subseteq L
    <3>1. CASE ch[f.node][f.next] = NoNode
      BY <3>1, BelowNone
    <3>2. CASE ch[f.node][f.next] # NoNode
      BY <1>3, <2>1, <3>2, BelowLive DEF LinkedIn
    <3> QED BY <3>1, <3>2
  <2> QED BY <1>2, <1>5, <2>2 DEF Region, Places
<1> QED BY <1>4, <1>5

\* The square of a distance is that along each of the axes, at least.
LEMMA CenterDistIs ==
  ASSUME NEW b \in Boxes, NEW point \in Points
  PROVE  /\ CenterDistSqr(b, point) \in Nat
         /\ CenterDistSqr(b, point) < Far
         /\ \A a \in 0 .. Dim - 1 :
              Square(b.min[a] + b.max[a] - 2 * point[a]) <= CenterDistSqr(b, point)
<1> DEFINE t(a) == Square(b.min[a] + b.max[a] - 2 * point[a])
           F == [a \in 0 .. Dim - 1 |-> [x \in Nat |-> x + t(a)]]
           Is(h) == h = [a \in 0 .. Dim |-> IF a = 0 THEN 0 ELSE h[a - 1] + t(a - 1)]
<1>1. Dim \in Nat
  BY DimAssumption
<1>2. \A a \in 0 .. Dim - 1 : t(a) \in Nat
  <2> SUFFICES ASSUME NEW a \in 0 .. Dim - 1 PROVE t(a) \in Nat
    OBVIOUS
  <2>1. b.min[a] \in Int /\ b.max[a] \in Int /\ point[a] \in Int
    BY BoxesAssumption
  <2>2. \A x \in Int : x * x \in Nat
    OBVIOUS
  <2>3. b.min[a] + b.max[a] - 2 * point[a] \in Int
    BY <2>1
  <2> QED BY <2>2, <2>3 DEF Square
<1> HIDE DEF t
<1>3. \A a \in 0 .. Dim - 1, x \in Nat : F[a][x] = x + t(a)
  OBVIOUS
<1>4. PICK g : AreTurns(g, Dim, 0, F)
  BY <1>1, TurnsExist
<1>5. StayIn(Nat, Dim, F)
  BY <1>2, <1>3 DEF StayIn
<1> HIDE DEF F
<1>6. g \in [0 .. Dim -> Nat]
  <2>1. 0 \in Nat
    OBVIOUS
  <2> QED BY <1>1, <1>4, <1>5, <2>1, TurnsStay
<1>7. Is(g)
  <2>1. \A a \in 0 .. Dim : g[a] = IF a = 0 THEN 0 ELSE g[a - 1] + t(a - 1)
    <3>1. \A a \in 0 .. Dim : a # 0
            => a - 1 \in 0 .. Dim - 1 /\ a - 1 \in 0 .. Dim /\ g[a] = F[a - 1][g[a - 1]]
      BY <1>1, <1>4 DEF AreTurns
    <3>2. \A a \in 0 .. Dim : g[a] \in Nat
      BY <1>6
    <3>3. \A a \in 0 .. Dim : a = 0 => g[a] = 0
      BY <1>4 DEF AreTurns
    <3> QED BY <1>3, <3>1, <3>2, <3>3
  <2>2. g = [a \in 0 .. Dim |-> g[a]]
    BY <1>6
  <2> QED BY <2>1, <2>2
<1>8. PICK h : Is(h) /\ CenterDistSqr(b, point) = h[Dim]
  <2>1. CenterDistSqr(b, point) = (CHOOSE h : Is(h))[Dim]
    BY DEF CenterDistSqr, t
  <2>2. Is(CHOOSE h : Is(h))
    <3> HIDE DEF Is
    <3> QED BY <1>7
  <2> QED BY <2>1, <2>2
<1> DEFINE K == {a \in 0 .. Dim : h[a] \in Nat /\ \A c \in 0 .. a - 1 : t(c) <= h[a]}
<1>9. 0 \in K
  BY <1>1, <1>8
<1>10. ASSUME NEW a \in 0 .. Dim - 1, a \in K PROVE a + 1 \in K
  <2>1. a + 1 \in 0 .. Dim /\ a + 1 # 0 /\ (a + 1) - 1 = a
    BY <1>1
  <2>2. h[a + 1] = h[a] + t(a)
    BY <1>8, <2>1
  <2>3. h[a] \in Nat /\ t(a) \in Nat /\ \A c \in 0 .. a - 1 : t(c) <= h[a] /\ t(c) \in Nat
    <3>1. \A c \in 0 .. a - 1 : c \in 0 .. Dim - 1
      BY <1>1
    <3> QED BY <1>2, <1>10, <3>1
  <2>4. \A c \in 0 .. (a + 1) - 1 : t(c) <= h[a + 1]
    <3> SUFFICES ASSUME NEW c \in 0 .. a PROVE t(c) <= h[a + 1]
      BY <2>1
    <3>1. CASE c = a
      BY <2>2, <2>3, <3>1
    <3>2. CASE c # a
      <4>1. c \in 0 .. a - 1
        BY <3>2
      <4> QED BY <2>2, <2>3, <4>1
    <3> QED BY <3>1, <3>2
  <2>5. h[a + 1] \in Nat
    BY <2>2, <2>3
  <2> QED BY <2>1, <2>4, <2>5
<1>11. Dim \in K
  <2> HIDE DEF K
  <2>1. 0 .. Dim \subseteq K
    BY <1>1, <1>9, <1>10, UpTo
  <2> QED BY <1>1, <2>1
<1> QED BY <1>8, <1>11, FarAssumption DEF t

\* The greater of two numbers has the greater square, and any multiple of it is greater.
LEMMA Products ==
  /\ \A x, y \in Nat : x <= y => x * x <= y * y
  /\ \A x, y \in Nat : x < y => x * x < y * y
  /\ \A c, x, y \in Nat : x <= y => c * x <= c * y
<1>1. \A c, x, y \in Nat : x <= y => c * x <= c * y
  <2> SUFFICES ASSUME NEW c \in Nat, NEW x \in Nat, NEW y \in Nat, x <= y PROVE c * x <= c * y
    OBVIOUS
  <2>1. y - x \in Nat
    OBVIOUS
  <2>2. c * (y - x) \in Nat
    BY <2>1
  <2>3. c * y = c * x + c * (y - x)
    OBVIOUS
  <2> QED BY <2>2, <2>3
<1>2. \A x, y \in Nat : x <= y => x * x <= y * y
  <2> SUFFICES ASSUME NEW x \in Nat, NEW y \in Nat, x <= y PROVE x * x <= y * y
    OBVIOUS
  <2>1. x * x <= x * y /\ y * x <= y * y
    BY <1>1
  <2>2. x * x \in Nat /\ x * y \in Nat /\ y * y \in Nat /\ x * y = y * x
    OBVIOUS
  <2> QED BY <2>1, <2>2
<1>3. \A x, y \in Nat : x < y => x * x < y * y
  <2> SUFFICES ASSUME NEW x \in Nat, NEW y \in Nat, x < y PROVE x * x < y * y
    OBVIOUS
  <2>1. (x + 1) * (x + 1) <= y * y
    BY <1>2
  <2>2. (x + 1) * (x + 1) = x * x + 2 * x + 1 /\ x * x \in Nat /\ y * y \in Nat
    OBVIOUS
  <2> QED BY <2>1, <2>2
<1> QED BY <1>1, <1>2, <1>3

\* What is closer yet beats what was beaten.
LEMMA BeatsMore ==
  ASSUME NEW D \in Nat, NEW E \in Nat, NEW x \in Nat, E <= D, Beats(D, x)
  PROVE  Beats(E, x)
<1>1. Square(E) <= Square(D) /\ Square(E) \in Nat /\ Square(D) \in Nat
  BY Products DEF Square
<1>2. Square(Grid) \in Nat
  BY DimAssumption DEF Square
<1>3. 4 * Square(Grid) * x \in Nat
  BY <1>2
<1> QED BY <1>1, <1>3 DEF Beats

\* Among whole numbers only what is no further beats another.
LEMMA WholeBeats ==
  ASSUME Grid = 1, NEW x \in Nat, NEW y \in Nat, Beats(x, y)
  PROVE  x <= y
<1> SUFFICES ASSUME y < x PROVE FALSE
  OBVIOUS
<1>1. x * x < 4 * y
  BY DEF Beats, Square
<1>2. (y + 1) * (y + 1) <= x * x
  BY Products
<1>3. (y + 1) * (y + 1) = (y - 1) * (y - 1) + 4 * y
  OBVIOUS
<1>4. (y - 1) * (y - 1) >= 0
  <2>1. \A z \in Int : z * z >= 0
    OBVIOUS
  <2> QED BY <2>1
<1>5. x * x \in Int /\ (y - 1) * (y - 1) \in Int
  OBVIOUS
<1> QED BY <1>1, <1>2, <1>3, <1>4, <1>5

\* What has not found any box beats none.
LEMMA FarBeatsNone ==
  ASSUME NEW x \in Nat, x < Far
  PROVE  ~Beats(Far, x)
<1> DEFINE g == 4 * Square(Grid)
<1>1. g \in Nat /\ g <= Far /\ Far \in Nat
  BY DimAssumption, FarAssumption DEF Square
<1> HIDE DEF g
<1>2. x * g <= x * Far /\ Far * x <= Far * Far
  BY <1>1, Products
<1>3. x * g = g * x /\ x * Far = Far * x /\ Far * Far \in Nat /\ Far * x \in Nat /\ g * x \in Nat
  BY <1>1
<1> QED BY <1>1, <1>2, <1>3 DEF Beats, Square, g

\* The child of a node that is not hidden is not, but for that behind its bound.
LEMMA HiddenChild ==
  ASSUME NEW up, LinkedIn(live, up, children), NEW n \in live, n \notin Hidden, NEW i \in Sides,
         children[n][i] # NoNode, ~(i = 1 /\ r_fr[n] = NaN)
  PROVE  children[n][i] \in live \ Hidden
<1> DEFINE c == children[n][i]
<1>1. c \in live /\ c \in Nodes /\ n \in Nodes /\ up[c] = n
  BY DEF LinkedIn
<1> SUFFICES ASSUME NEW m \in live, r_fr[m] = NaN, c \in BelowIn(children, children[m][1])
             PROVE  FALSE
  BY <1>1, BelowSame DEF Hidden
<1> DEFINE b == children[m][1]
<1>2. b # NoNode /\ m \in Nodes /\ 1 \in Sides
  BY BelowNone, SidesAre DEF LinkedIn
<1>3. b \in Nodes /\ up[b] = m
  BY <1>2 DEF LinkedIn, Kids
<1>4. CASE c # b
  <2>1. n \in BelowIn(children, b)
    BY <1>1, <1>3, <1>4, BelowParent
  <2> QED BY <2>1, BelowSame DEF Hidden
<1>5. CASE c = b
  <2>1. m = n /\ up[c] # NoNode
    BY <1>1, <1>3, <1>5, NodesAssumption
  <2>2. PICK k \in Sides : children[n][k] = c /\ children[n][1 - k] # c
    BY <1>1, <2>1 DEF LinkedIn
  <2>3. i = k /\ k = 1
    BY <1>5, <2>1, <2>2, SidesAre
  <2> QED BY <2>1, <2>3
<1> QED BY <1>4, <1>5

\* Nor is the root.
LEMMA HiddenRoot ==
  ASSUME NEW up, NEW ax, KdTree(live, up, children, root, ax), root # NoNode
  PROVE  root \in live \ Hidden
<1>1. LinkedIn(live, up, children) /\ root \in live /\ live \subseteq BelowIn(children, root)
  BY DEF KdTree
<1> SUFFICES ASSUME NEW m \in live, root \in BelowIn(children, children[m][1]) PROVE FALSE
  BY <1>1, BelowSame DEF Hidden
<1>2. /\ children[m][1] # NoNode /\ m \in Nodes /\ root \in Nodes /\ 1 \in Sides
      /\ children \in Kids /\ AcyclicIn(children) /\ m \in BelowIn(children, root)
  BY <1>1, BelowNone, SidesAre DEF LinkedIn
<1>3. children[m][1] \in Nodes
  BY <1>2 DEF Kids
<1>4. m \in BelowIn(children, children[m][1])
  BY <1>2, <1>3, BelowTransitive
<1> QED BY <1>2, <1>4 DEF AcyclicIn

\* What is below a side that is skipped is hidden, or beaten.
LEMMA SkippedFar ==
  ASSUME NEW up, NEW ax, TreeHas(up, ax), NEW point \in Points,
         NEW n \in live, NEW i \in Sides, NEW m \in BelowIn(children, children[n][i]),
         m \notin Hidden, NEW D \in Nat,
         NEW bound, bound = (IF i = 0 THEN l_to[n] ELSE r_fr[n]),
         NEW distance,
         distance = (IF i = 0 THEN point[ax[n]] - l_to[n] ELSE r_fr[n] - point[ax[n]]),
         ~(bound # NaN /\ 4 * Grid * distance <= D)
  PROVE  Beats(D, DistSqr(m, point))
<1> DEFINE a == ax[n]
           b == aabb[m]
           e == b.min[a] + b.max[a] - 2 * point[a]
<1>1. /\ KdTree(live, up, children, root, ax) /\ LinkedIn(live, up, children)
      /\ BoundsIn(live, children, ax, aabb, l_to, r_fr)
  BY DEF TreeHas, KdTree
<1>2. children[n][i] # NoNode /\ n \in Nodes /\ children[n][i] \in live
  BY <1>1, BelowNone DEF LinkedIn
<1>3. m \in live
  BY <1>1, <1>2, BelowLive
<1>4. a \in 0 .. Dim - 1 /\ b \in Boxes
  BY <1>1, <1>2, <1>3 DEF KdTree, BoundsIn
<1>5. b.min[a] \in Int /\ b.max[a] \in Int /\ point[a] \in Int /\ b.min[a] <= b.max[a]
  <2> HIDE DEF a, b
  <2> QED BY <1>4, BoxesAssumption
<1>6. /\ i = 0 => l_to[n] \in Int /\ b.max[a] <= l_to[n]
      /\ i = 1 => r_fr[n] \in Int /\ r_fr[n] <= b.min[a]
  <2>1. /\ i = 0 => ReachesTo(l_to[n], b.max[a])
        /\ i = 1 => ReachesFrom(r_fr[n], b.min[a])
    BY <1>1 DEF BoundsIn
  <2>2. i = 1 => r_fr[n] # NaN
    BY BelowSame DEF Hidden
  <2> HIDE DEF a, b
  <2> QED BY <2>1, <2>2 DEF ReachesTo, ReachesFrom
<1>7. Square(e) <= DistSqr(m, point) /\ DistSqr(m, point) \in Nat
  BY <1>4, CenterDistIs DEF DistSqr
<1>8. bound \in Int /\ bound # NaN
  BY <1>6, SidesAre, GarbageAssumption
<1> HIDE DEF a, b
<1>9. /\ distance \in Int /\ e \in Int
      /\ (e >= 2 * distance \/ -e >= 2 * distance)
  BY <1>5, <1>6, SidesAre DEF a
<1>10. 4 * Grid * distance > D /\ distance >= 1
  <2>1. ~(4 * Grid * distance <= D)
    BY <1>8
  <2>2. Grid * distance \in Int /\ 4 * Grid * distance = 4 * (Grid * distance)
    BY <1>9, DimAssumption
  <2>3. Grid * distance >= 1
    BY <2>1, <2>2
  <2>4. \A g, x \in Int : g >= 1 /\ x <= 0 => g * x <= 0
    <3> SUFFICES ASSUME NEW g \in Int, NEW x \in Int, g >= 1, x <= 0 PROVE g * x <= 0
      OBVIOUS
    <3>1. g \in Nat /\ -x \in Nat
      OBVIOUS
    <3>2. g * (-x) \in Nat
      BY <3>1
    <3> QED BY <3>2
  <2> QED BY <1>9, <2>1, <2>2, <2>3, <2>4, DimAssumption
<1> HIDE DEF e
<1>11. PICK y \in Nat : 2 * distance <= y /\ Square(e) = y * y
  <2>1. (-e) * (-e) = e * e
    BY <1>9
  <2>2. CASE e >= 2 * distance
    BY <1>9, <1>10, <2>2 DEF Square
  <2>3. CASE -e >= 2 * distance
    BY <1>9, <1>10, <2>1, <2>3 DEF Square
  <2> QED BY <1>9, <2>2, <2>3
<1>12. Square(D) < 4 * Square(Grid) * (y * y)
  <2> DEFINE z == 2 * (Grid * y)
  <2>1. distance \in Nat /\ Grid \in Nat /\ Grid * distance \in Nat /\ Grid * y \in Nat
    BY <1>9, <1>10, DimAssumption
  <2>2. Grid * (2 * distance) <= Grid * y
    BY <1>11, <2>1, Products
  <2>3. Grid * (2 * distance) = 2 * (Grid * distance)
    BY <2>1
  <2>4. 4 * Grid * distance = 4 * (Grid * distance)
    BY <2>1
  <2>5. D < z /\ z \in Nat
    BY <1>10, <2>1, <2>2, <2>3, <2>4
  <2> HIDE DEF z
  <2>6. D * D < z * z
    BY <2>5, Products
  <2>7. z * z = 4 * (Grid * Grid) * (y * y)
    <3>1. \A g, w \in Nat : (2 * (g * w)) * (2 * (g * w)) = 4 * (g * g) * (w * w)
      OBVIOUS
    <3> QED BY <2>1, <3>1 DEF z
  <2> QED BY <2>6, <2>7 DEF Square
<1>13. 4 * Square(Grid) * (y * y) <= 4 * Square(Grid) * DistSqr(m, point)
  <2>1. 4 * Square(Grid) \in Nat /\ y * y \in Nat
    BY DimAssumption DEF Square
  <2> QED BY <1>7, <1>11, <2>1, Products
<1>14. /\ Square(D) \in Int /\ 4 * Square(Grid) * (y * y) \in Int
       /\ 4 * Square(Grid) * DistSqr(m, point) \in Int
  <2>1. 4 * Square(Grid) \in Nat /\ y * y \in Nat
    BY DimAssumption DEF Square
  <2> QED BY <1>7, <2>1 DEF Square
<1> QED BY <1>12, <1>13, <1>14 DEF Beats

\* The boxes a search can find, and the frames it comes to.
Shown == (live \ erased) \ Hidden
ShownFrames(ax) == {f \in Frames(live, ax) : f.node \notin Hidden}

\* The best so far beats those that the search will not come to.
ClosestIn(s, ax, point) ==
  /\ s \in [stack : Seq(ShownFrames(ax)), best : Shown \cup {NoNode}, dist_sqr : Nat]
  /\ StackIn(live, children, ax, s.stack)
  /\ s.dist_sqr = IF s.best = NoNode THEN Far ELSE DistSqr(s.best, point)
  /\ \A m \in Shown :
       <<m, Itself>> \in LeftOf(children, s.stack) \/ Beats(s.dist_sqr, DistSqr(m, point))

\* A live node has been looked at.
LEMMA NodeDoneLive ==
  ASSUME NEW up, LinkedIn(live, up, children), NEW ax, NEW st, StackIn(live, children, ax, st),
         st # <<>>, Last(st).next = Itself
  PROVE  /\ StackIn(live, children, ax, NodeDone(st))
         /\ LeftOf(children, NodeDone(st)) = LeftOf(children, st) \ {<<Last(st).node, Itself>>}
         /\ <<Last(st).node, Itself>> \in LeftOf(children, st)
         /\ Last(st).node \in live
BY NodeDoneLeft

\* A search stays where nothing is hidden.
LEMMA ShownStack ==
  ASSUME NEW ax, NEW st \in Seq(ShownFrames(ax)), st # <<>>
  PROVE  /\ Last(st) \in ShownFrames(ax)
         /\ Last(st).next = Itself => NodeDone(st) \in Seq(ShownFrames(ax))
         /\ \A c \in live \ Hidden, a \in 0 .. Dim - 1 :
              a = ax[c] => Append(Front(st), Frame(c, a)) \in Seq(ShownFrames(ax))
         /\ Front(st) \in Seq(ShownFrames(ax))
<1> DEFINE f == Last(st)
           g == [f EXCEPT !.next = 0]
           h == [f EXCEPT !.next = 1]
           fr == Front(st)
<1>1. f \in ShownFrames(ax) /\ fr \in Seq(ShownFrames(ax))
  BY TopOf
<1>2. g \in ShownFrames(ax) /\ h \in ShownFrames(ax)
  BY <1>1 DEF ShownFrames, Frames
<1>3. NodeDone(st) = fr \o <<h, g>>
  BY DEF NodeDone
<1>4. ASSUME NEW c \in live \ Hidden, NEW a \in 0 .. Dim - 1, a = ax[c]
      PROVE  Frame(c, a) \in ShownFrames(ax)
  BY <1>4, SidesAre DEF ShownFrames, Frames, Frame
<1> HIDE DEF f, g, h, fr
<1>5. fr \o <<h, g>> \in Seq(ShownFrames(ax))
  BY <1>1, <1>2
<1>6. \A x \in ShownFrames(ax) : Append(fr, x) \in Seq(ShownFrames(ax))
  BY <1>1
<1> QED BY <1>1, <1>3, <1>4, <1>5, <1>6 DEF f, fr

\* A turn keeps that, and leaves fewer places to go to.
LEMMA ClosestTurnKeeps ==
  ASSUME NEW up, NEW ax, TreeHas(up, ax), NEW point \in Points,
         NEW s, ClosestIn(s, ax, point)
  PROVE  /\ ClosestIn(ClosestTurn(s, point), ax, point)
         /\ s.stack = <<>> => ClosestTurn(s, point) = s
         /\ s.stack # <<>> => \E p \in LeftOf(children, s.stack) :
              LeftOf(children, ClosestTurn(s, point).stack)
                \subseteq LeftOf(children, s.stack) \ {p}
<1> DEFINE st == s.stack
           n == Last(st).node
           i == Last(st).next
           better == n \notin erased /\ DistSqr(n, point) < s.dist_sqr
           e == ClosestTurn(s, point)
<1>1. /\ KdTree(live, up, children, root, ax) /\ LinkedIn(live, up, children)
      /\ BoundsIn(live, children, ax, aabb, l_to, r_fr)
  BY DEF TreeHas, KdTree
<1>2. /\ StackIn(live, children, ax, st) /\ st \in Seq(ShownFrames(ax))
      /\ s.best \in Shown \cup {NoNode} /\ s.dist_sqr \in Nat
      /\ s.dist_sqr = IF s.best = NoNode THEN Far ELSE DistSqr(s.best, point)
      /\ \A m \in Shown :
           <<m, Itself>> \in LeftOf(children, st) \/ Beats(s.dist_sqr, DistSqr(m, point))
      /\ s = [stack |-> st, best |-> s.best, dist_sqr |-> s.dist_sqr]
  BY DEF ClosestIn
<1>3. \A m \in live : DistSqr(m, point) \in Nat
  BY <1>1, CenterDistIs DEF DistSqr, BoundsIn
<1>4. NoNode \notin live /\ Shown \subseteq live
  BY <1>1, NodesAssumption DEF LinkedIn, Shown
<1>5. CASE st = <<>>
  <2>1. e = s
    BY <1>5 DEF ClosestTurn
  <2> QED BY <1>5, <2>1
<1>6. CASE st # <<>> /\ i = Itself
  <2> DEFINE nd == NodeDone(st)
             b == IF better THEN n ELSE s.best
             D == IF better THEN DistSqr(n, point) ELSE s.dist_sqr
  <2>1. e = [stack |-> nd, best |-> b, dist_sqr |-> D]
    BY <1>6 DEF ClosestTurn
  <2>2. /\ StackIn(live, children, ax, nd) /\ n \in live
        /\ LeftOf(children, nd) = LeftOf(children, st) \ {<<n, Itself>>}
        /\ <<n, Itself>> \in LeftOf(children, st)
    <3>1. Last(st).next = Itself /\ st # <<>>
      BY <1>6
    <3>2. StackIn(live, children, ax, st) /\ LinkedIn(live, up, children)
      BY <1>1, <1>2
    <3>3. n = Last(st).node
      OBVIOUS
    <3> HIDE DEF st, n, nd, e, better, b, D
    <3>4. /\ StackIn(live, children, ax, NodeDone(st)) /\ Last(st).node \in live
          /\ LeftOf(children, NodeDone(st)) = LeftOf(children, st) \ {<<Last(st).node, Itself>>}
          /\ <<Last(st).node, Itself>> \in LeftOf(children, st)
      BY <3>1, <3>2, NodeDoneLive
    <3> QED BY <3>3, <3>4 DEF nd
  <2>3. nd \in Seq(ShownFrames(ax)) /\ n \notin Hidden
    BY <1>2, <1>6, ShownStack DEF ShownFrames
  <2>4. /\ b \in Shown \cup {NoNode} /\ D \in Nat
        /\ D = IF b = NoNode THEN Far ELSE DistSqr(b, point)
        /\ D <= s.dist_sqr /\ (n \notin erased => D <= DistSqr(n, point))
    <3>1. DistSqr(n, point) \in Nat
      BY <1>3, <2>2
    <3>2. CASE better
      BY <1>2, <1>4, <2>2, <2>3, <3>1, <3>2 DEF Shown
    <3>3. CASE ~better
      BY <1>2, <2>2, <3>1, <3>3
    <3> QED BY <3>2, <3>3
  <2> HIDE DEF b, D, nd, n, st
  <2>5. \A m \in Shown : <<m, Itself>> \in LeftOf(children, nd) \/ Beats(D, DistSqr(m, point))
    <3> SUFFICES ASSUME NEW m \in Shown
                 PROVE  <<m, Itself>> \in LeftOf(children, nd) \/ Beats(D, DistSqr(m, point))
      OBVIOUS
    <3>1. CASE m = n
      BY <2>4, <3>1 DEF Shown, Beats
    <3>2. CASE m # n /\ <<m, Itself>> \in LeftOf(children, st)
      BY <2>2, <3>2
    <3>3. CASE Beats(s.dist_sqr, DistSqr(m, point))
      <4>1. DistSqr(m, point) \in Nat
        BY <1>3, <1>4
      <4> QED BY <1>2, <2>4, <3>3, <4>1, BeatsMore
    <3> QED BY <1>2, <3>1, <3>2, <3>3
  <2> DEFINE t == [stack |-> nd, best |-> b, dist_sqr |-> D]
  <2>6. t.stack = nd /\ t.best = b /\ t.dist_sqr = D
    OBVIOUS
  <2>7. t \in [stack : Seq(ShownFrames(ax)), best : Shown \cup {NoNode}, dist_sqr : Nat]
    BY <2>3, <2>4
  <2>8. ClosestIn(t, ax, point)
    <3> HIDE DEF t
    <3> QED BY <2>2, <2>4, <2>5, <2>6, <2>7 DEF ClosestIn
  <2>9. /\ ClosestIn(e, ax, point) /\ st # <<>> /\ <<n, Itself>> \in LeftOf(children, st)
        /\ LeftOf(children, e.stack) \subseteq LeftOf(children, st) \ {<<n, Itself>>}
    BY <1>6, <2>1, <2>2, <2>6, <2>8
  <2> HIDE DEF t, e
  <2> QED BY <2>9 DEF st, e
<1>7. CASE st # <<>> /\ i # Itself
  <2> DEFINE within == Within(s, point)
             sd == SideDone(st, within)
             gone == LeftOf(children, st) \ LeftOf(children, sd)
  <2>1. e = [s EXCEPT !.stack = sd]
    BY <1>7 DEF ClosestTurn
  <2>2. /\ n \in live /\ i \in Sides /\ Last(st).axis = ax[n]
        /\ StackIn(live, children, ax, sd)
        /\ LeftOf(children, sd) \subseteq LeftOf(children, st)
        /\ <<n, i>> \in gone
        /\ \A m : <<m, Itself>> \in gone => ~within /\ m \in Below(children[n][i])
    <3> HIDE DEF within
    <3> QED BY <1>1, <1>2, <1>7, SideDoneLeft
  <2>3. ASSUME NEW m \in Shown, <<m, Itself>> \in gone
        PROVE  Beats(s.dist_sqr, DistSqr(m, point))
    <3> DEFINE distance == IF i = 0 THEN point[ax[n]] - l_to[n] ELSE r_fr[n] - point[ax[n]]
               bound == IF i = 0 THEN l_to[n] ELSE r_fr[n]
    <3>1. m \in BelowIn(children, children[n][i]) /\ ~within /\ m \notin Hidden
      BY <2>2, <2>3, BelowSame DEF Shown
    <3>2. ~(bound # NaN /\ 4 * Grid * distance <= s.dist_sqr)
      BY <2>2, <3>1 DEF Within, SideBound
    <3> HIDE DEF distance, bound, within
    <3>3. PICK q, b : q = distance /\ b = bound
      OBVIOUS
    <3>4. /\ b = (IF i = 0 THEN l_to[n] ELSE r_fr[n])
          /\ q = (IF i = 0 THEN point[ax[n]] - l_to[n] ELSE r_fr[n] - point[ax[n]])
          /\ ~(b # NaN /\ 4 * Grid * q <= s.dist_sqr)
      BY <3>2, <3>3 DEF distance, bound
    <3>5. PICK D : D = s.dist_sqr /\ D \in Nat
      BY <1>2
    <3> HIDE DEF n, i, st
    <3>6. Beats(D, DistSqr(m, point))
      BY <2>2, <3>1, <3>4, <3>5, SkippedFar
    <3> QED BY <3>5, <3>6
  <2>4. e = [stack |-> sd, best |-> s.best, dist_sqr |-> s.dist_sqr]
    <3> HIDE DEF sd, st
    <3> QED BY <1>2, <2>1
  <2> DEFINE t == [stack |-> sd, best |-> s.best, dist_sqr |-> s.dist_sqr]
  <2>5. t.stack = sd /\ t.best = s.best /\ t.dist_sqr = s.dist_sqr
    OBVIOUS
  <2>6. sd \in Seq(ShownFrames(ax))
    <3> DEFINE c == children[n][i]
    <3>1. /\ Front(st) \in Seq(ShownFrames(ax)) /\ n \notin Hidden
          /\ \A x \in live \ Hidden, a \in 0 .. Dim - 1 :
               a = ax[x] => Append(Front(st), Frame(x, a)) \in Seq(ShownFrames(ax))
      BY <1>2, <1>7, ShownStack DEF ShownFrames
    <3>2. CASE c # NoNode /\ within
      <4>1. ~(i = 1 /\ r_fr[n] = NaN)
        BY <3>2 DEF Within, SideBound
      <4>2. c \in live \ Hidden
        BY <1>1, <2>2, <3>1, <3>2, <4>1, HiddenChild
      <4>3. ax[c] = NextAxis(ax[n]) /\ ax[c] \in 0 .. Dim - 1
        <5>1. n \in Nodes /\ c \in Nodes
          BY <1>1, <2>2, <4>2 DEF LinkedIn
        <5> QED BY <1>1, <2>2, <3>2, <5>1 DEF KdTree
      <4>4. sd = Append(Front(st), Frame(c, NextAxis(ax[n])))
        <5> HIDE DEF within
        <5> QED BY <2>2, <3>2 DEF SideDone
      <4> HIDE DEF c, sd
      <4> QED BY <3>1, <4>2, <4>3, <4>4
    <3>3. CASE ~(c # NoNode /\ within)
      <4>1. sd = Front(st)
        <5> HIDE DEF within
        <5> QED BY <3>3 DEF SideDone
      <4> QED BY <3>1, <4>1
    <3> QED BY <3>2, <3>3
  <2> HIDE DEF sd, st, n, i
  <2>7. t \in [stack : Seq(ShownFrames(ax)), best : Shown \cup {NoNode}, dist_sqr : Nat]
    BY <1>2, <2>6
  <2>8. \A m \in Shown :
          <<m, Itself>> \in LeftOf(children, sd) \/ Beats(s.dist_sqr, DistSqr(m, point))
    BY <1>2, <2>3
  <2>9. ClosestIn(t, ax, point)
    <3> HIDE DEF t
    <3> QED BY <1>2, <2>2, <2>5, <2>7, <2>8 DEF ClosestIn
  <2>10. LeftOf(children, sd)
           \subseteq LeftOf(children, st) \ {<<n, i>>} /\ <<n, i>> \in LeftOf(children, st)
    BY <2>2
  <2> QED BY <1>7, <2>4, <2>5, <2>9, <2>10 DEF st
<1> QED BY <1>5, <1>6, <1>7

\* After three turns for each node there is nowhere left to go.
LEMMA ClosestEnds ==
  ASSUME NEW up, NEW ax, TreeHas(up, ax), root # NoNode, NEW point \in Points
  PROVE  \E s : /\ FindClosestCenter(point) = s.best
                /\ ClosestIn(s, ax, point) /\ s.stack = <<>>
<1> DEFINE N == 3 * Cardinality(live)
           x0 == ClosestFrom
           T == {s \in [stack : Seq(ShownFrames(ax)), best : Shown \cup {NoNode},
                        dist_sqr : Nat] : ClosestIn(s, ax, point)}
           F == [k \in 0 .. N - 1 |-> [s \in T |-> ClosestTurn(s, point)]]
           Is(h) == h = [k \in 0 .. N |-> IF k = 0 THEN ClosestFrom
                                          ELSE ClosestTurn(h[k - 1], point)]
<1>1. /\ KdTree(live, up, children, root, ax) /\ LinkedIn(live, up, children)
      /\ root \in live /\ live \subseteq BelowIn(children, root) /\ ax[root] = 0
  BY DEF TreeHas, KdTree
<1>2. IsFiniteSet(live) /\ Cardinality(live) \in Nat /\ N \in Nat /\ live \in SUBSET Nodes
  <2>1. live \in SUBSET Nodes
    BY <1>1 DEF LinkedIn
  <2>2. IsFiniteSet(live) /\ Cardinality(live) \in Nat
    BY <2>1, NodesAssumption, FS_Subset, FS_CardinalityType
  <2> QED BY <2>1, <2>2
<1> HIDE DEF N
<1>3. x0 \in T
  <2> DEFINE f == Frame(root, 0)
  <2>1. f \in Frames(live, ax)
    <3>1. 0 \in 0 .. Dim - 1
      BY DimAssumption
    <3> QED BY <1>1, <3>1, SidesAre DEF Frames, Frame
  <2>2. Region(children, f) = BelowIn(children, root) \X (-1 .. 1)
    BY DEF Region, Frame, Places
  <2>3. x0 = [stack |-> <<f>>, best |-> NoNode, dist_sqr |-> Far]
    BY DEF ClosestFrom
  <2> HIDE DEF f, x0
  <2>4. /\ <<f>> \in Seq(Frames(live, ax)) /\ StackIn(live, children, ax, <<f>>)
        /\ LeftOf(children, <<f>>) = Region(children, f)
    <3>1. <<f>> \in Seq(Frames(live, ax)) /\ Len(<<f>>) = 1 /\ <<f>>[1] = f
      BY <2>1
    <3>2. \A j, k \in 1 .. 1 : j = k
      OBVIOUS
    <3>3. StackIn(live, children, ax, <<f>>)
      BY <3>1, <3>2 DEF StackIn
    <3>4. {Region(children, <<f>>[k]) : k \in 1 .. Len(<<f>>)} = {Region(children, f)}
      BY <3>1
    <3> QED BY <3>1, <3>3, <3>4 DEF LeftOf
  <2>5. \A m \in Shown : <<m, Itself>> \in LeftOf(children, <<f>>)
    BY <1>1, <2>2, <2>4, SidesAre DEF Shown
  <2>6. x0 \in [stack : Seq(ShownFrames(ax)), best : Shown \cup {NoNode}, dist_sqr : Nat]
    <3>1. f \in ShownFrames(ax)
      BY <1>1, <2>1, HiddenRoot DEF ShownFrames, f, Frame
    <3>2. <<f>> \in Seq(ShownFrames(ax))
      BY <3>1
    <3> QED BY <2>3, <3>2, FarAssumption
  <2>7. x0.stack = <<f>> /\ x0.best = NoNode /\ x0.dist_sqr = Far
    BY <2>3
  <2>8. ClosestIn(x0, ax, point)
    BY <2>4, <2>5, <2>6, <2>7 DEF ClosestIn
  <2> QED BY <2>6, <2>8
<1>4. ASSUME NEW s \in T
      PROVE  /\ ClosestTurn(s, point) \in T
             /\ s.stack = <<>> => ClosestTurn(s, point) = s
             /\ s.stack # <<>> => \E p \in LeftOf(children, s.stack) :
                  LeftOf(children, ClosestTurn(s, point).stack)
                    \subseteq LeftOf(children, s.stack) \ {p}
  <2>1. ClosestIn(s, ax, point)
    BY <1>4
  <2>2. ClosestIn(ClosestTurn(s, point), ax, point)
    BY <2>1, ClosestTurnKeeps
  <2>3. ClosestTurn(s, point) \in T
    BY <2>2 DEF ClosestIn
  <2> HIDE DEF T
  <2> QED BY <2>1, <2>3, ClosestTurnKeeps
<1>5. \A s \in T : IsFiniteSet(LeftOf(children, s.stack))
                   /\ Cardinality(LeftOf(children, s.stack)) \in 0 .. N
  <2> SUFFICES ASSUME NEW s \in T
               PROVE  IsFiniteSet(LeftOf(children, s.stack))
                      /\ Cardinality(LeftOf(children, s.stack)) \in 0 .. N
    OBVIOUS
  <2> DEFINE Q == LeftOf(children, s.stack)
             P == live \X (-1 .. 1)
  <2>1. Q \in SUBSET P
    BY <1>1, LeftIn DEF ClosestIn
  <2>2. IsFiniteSet(P) /\ Cardinality(P) <= N
    BY <1>2, PlacesCount DEF N
  <2> HIDE DEF Q, P
  <2>3. IsFiniteSet(Q) /\ Cardinality(Q) <= Cardinality(P) /\ Cardinality(Q) \in Nat
        /\ Cardinality(P) \in Nat
    BY <2>1, <2>2, FS_Subset, FS_CardinalityType
  <2>4. Cardinality(Q) \in 0 .. N
    BY <1>2, <2>2, <2>3
  <2> QED BY <2>3, <2>4 DEF Q
<1> HIDE DEF T, x0
<1>6. \A k \in 0 .. N - 1, s \in T : F[k][s] = ClosestTurn(s, point)
  OBVIOUS
<1>7. PICK g : AreTurns(g, N, x0, F)
  BY <1>2, TurnsExist
<1>8. StayIn(T, N, F)
  BY <1>4, <1>6 DEF StayIn
<1> HIDE DEF F
<1>9. g \in [0 .. N -> T]
  BY <1>2, <1>3, <1>7, <1>8, TurnsStay
<1>10. Is(g)
  <2>1. \A k \in 0 .. N : g[k] = IF k = 0 THEN x0 ELSE ClosestTurn(g[k - 1], point)
    <3>1. \A k \in 0 .. N : k # 0
            => k - 1 \in 0 .. N - 1 /\ k - 1 \in 0 .. N /\ g[k] = F[k - 1][g[k - 1]]
      BY <1>2, <1>7 DEF AreTurns
    <3>2. \A k \in 0 .. N : g[k] \in T
      BY <1>9
    <3>3. \A k \in 0 .. N : k = 0 => g[k] = x0
      BY <1>7 DEF AreTurns
    <3> QED BY <1>6, <3>1, <3>2, <3>3
  <2>2. g = [k \in 0 .. N |-> g[k]]
    BY <1>9
  <2> QED BY <2>1, <2>2 DEF x0
<1>11. PICK h : Is(h) /\ FindClosestCenter(point) = h[N].best
  <2>1. FindClosestCenter(point) = (CHOOSE h : Is(h))[N].best
    BY DEF FindClosestCenter, N
  <2>2. Is(CHOOSE h : Is(h))
    <3> HIDE DEF Is
    <3> QED BY <1>10
  <2> QED BY <2>1, <2>2
<1>12. \A k \in 0 .. N : h[k] = IF k = 0 THEN x0 ELSE ClosestTurn(h[k - 1], point)
  BY <1>11 DEF x0
<1> DEFINE left(k) == Cardinality(LeftOf(children, h[k].stack))
           K == {k \in 0 .. N : h[k] \in T /\ (h[k].stack # <<>> => left(k) <= N - k)}
<1>13. 0 \in K
  <2>1. h[0] = x0 /\ 0 \in 0 .. N /\ N - 0 = N
    BY <1>2, <1>12
  <2>2. left(0) \in 0 .. N
    BY <1>3, <1>5, <2>1
  <2> QED BY <1>2, <1>3, <2>1, <2>2
<1>14. ASSUME NEW k \in 0 .. N - 1, k \in K PROVE k + 1 \in K
  <2>1. k + 1 \in 0 .. N /\ h[k + 1] = ClosestTurn(h[k], point)
    <3>1. k + 1 \in 0 .. N /\ k + 1 # 0 /\ (k + 1) - 1 = k
      BY <1>2
    <3> QED BY <1>12, <3>1
  <2>2. h[k] \in T /\ h[k + 1] \in T
    BY <1>4, <1>14, <2>1
  <2>3. ASSUME h[k + 1].stack # <<>> PROVE left(k + 1) <= N - (k + 1)
    <3>1. h[k].stack # <<>>
      BY <1>4, <2>1, <2>2, <2>3
    <3>2. left(k) <= N - k
      BY <1>14, <3>1
    <3>3. PICK p \in LeftOf(children, h[k].stack) :
            LeftOf(children, h[k + 1].stack) \subseteq LeftOf(children, h[k].stack) \ {p}
      BY <1>4, <2>1, <2>2, <3>1
    <3> DEFINE A == LeftOf(children, h[k].stack)
               B == LeftOf(children, h[k + 1].stack)
    <3>4. IsFiniteSet(A) /\ IsFiniteSet(B) /\ Cardinality(A) \in Nat /\ Cardinality(B) \in Nat
      BY <1>5, <2>2
    <3>5. p \in A /\ B \in SUBSET (A \ {p})
      BY <3>3
    <3>6. left(k) = Cardinality(A) /\ left(k + 1) = Cardinality(B)
      OBVIOUS
    <3> HIDE DEF A, B, left
    <3>7. IsFiniteSet(A \ {p}) /\ Cardinality(A \ {p}) = Cardinality(A) - 1
      BY <3>4, <3>5, FS_RemoveElement
    <3>8. Cardinality(B) <= Cardinality(A \ {p})
      BY <3>5, <3>7, FS_Subset
    <3> QED BY <1>2, <3>2, <3>4, <3>6, <3>7, <3>8
  <2> QED BY <2>1, <2>2, <2>3
<1>15. N \in K
  <2> HIDE DEF K
  <2>1. 0 .. N \subseteq K
    BY <1>2, <1>13, <1>14, UpTo
  <2> QED BY <1>2, <2>1
<1>16. h[N] \in T
  BY <1>15
<1>17. h[N].stack = <<>>
  <2> SUFFICES ASSUME h[N].stack # <<>> PROVE FALSE
    OBVIOUS
  <2> DEFINE A == LeftOf(children, h[N].stack)
  <2>1. left(N) <= N - N
    BY <1>15
  <2>2. IsFiniteSet(A) /\ Cardinality(A) \in Nat
    BY <1>5, <1>16
  <2>3. \E p : p \in A
    BY <1>4, <1>16
  <2>4. left(N) = Cardinality(A)
    OBVIOUS
  <2> HIDE DEF A, left
  <2>5. Cardinality(A) # 0
    BY <2>2, <2>3, FS_EmptySet
  <2> QED BY <1>2, <2>1, <2>2, <2>4, <2>5
<1> QED BY <1>11, <1>16, <1>17 DEF T

\* find_closest_center() finds a box that is not erased, if there is one that no bound
\* hides, and none of those is closer, but for what Beats allows: a box that is less
\* than one apart.  That is so whatever the bounds of the nodes began as, and where the
\* coordinates are whole numbers the exception is none (WholeBeats).
THEOREM ClosestFound == Spec => []ClosestIsClosest
<1>1. ASSUME user = "kd", KdInv PROVE ClosestIsClosest
  <2>1. PICK up, ax : TreeHas(up, ax)
    BY <1>1 DEF KdInv
  <2> SUFFICES ASSUME NEW point \in Points
               PROVE  LET found == FindClosestCenter(point)
                      IN  IF root = NoNode \/ Shown = {} THEN found = NoNode
                          ELSE /\ found \in Shown
                               /\ \A n \in Shown :
                                    Beats(DistSqr(found, point), DistSqr(n, point))
    BY DEF ClosestIsClosest, Shown
  <2>2. CASE root = NoNode
    BY <2>2 DEF FindClosestCenter
  <2>3. CASE root # NoNode
    <3>1. PICK s : /\ FindClosestCenter(point) = s.best
                   /\ ClosestIn(s, ax, point) /\ s.stack = <<>>
      BY <2>1, <2>3, ClosestEnds
    <3>2. LeftOf(children, s.stack) = {}
      <4>1. 1 .. Len(<<>>) = {}
        OBVIOUS
      <4>2. LeftOf(children, <<>>) = {}
        BY <4>1 DEF LeftOf
      <4> QED BY <3>1, <4>2
    <3>3. /\ s.best \in Shown \cup {NoNode}
          /\ s.dist_sqr = IF s.best = NoNode THEN Far ELSE DistSqr(s.best, point)
          /\ \A m \in Shown : Beats(s.dist_sqr, DistSqr(m, point))
      BY <3>1, <3>2 DEF ClosestIn
    <3>4. \A m \in Shown : DistSqr(m, point) \in Nat /\ DistSqr(m, point) < Far
      BY <2>1, CenterDistIs DEF TreeHas, BoundsIn, DistSqr, Shown
    <3> DEFINE found == FindClosestCenter(point)
    <3>5. found = s.best
      BY <3>1
    <3> HIDE DEF found
    <3>6. CASE Shown = {}
      BY <3>3, <3>5, <3>6 DEF found
    <3>7. CASE Shown # {}
      <4>1. s.best # NoNode
        BY <3>3, <3>4, <3>7, FarBeatsNone
      <4>2. found \in Shown /\ \A n \in Shown : Beats(DistSqr(found, point), DistSqr(n, point))
        BY <3>3, <3>5, <4>1
      <4> QED BY <2>3, <3>7, <4>2 DEF found
    <3> QED BY <3>6, <3>7
  <2> QED BY <2>2, <2>3
<1>2. ASSUME user # "kd", KdInv PROVE ClosestIsClosest
  <2>1. root = NoNode
    BY <1>2 DEF KdInv
  <2> QED BY <2>1 DEF ClosestIsClosest, FindClosestCenter
<1>3. KdInv => ClosestIsClosest
  BY <1>1, <1>2
<1> QED BY <1>3, KdInvAlways, PTL

----------------------------------------------------------------------------
(* Graph: the ends of an edge link each other, so that the ends which link *)
(* an erased vertex are those its own ends link                            *)

\* Ends are on a side of a vertex that is there, and a one-way end links none.
EndsPlaced ==
  /\ kind \in Kinds
  /\ \A x \in Ends : x.vert \in verts /\ x.side \in {"out", "in"}
  /\ ~Links => \A x \in Ends : link[x].side = "none"

\* Every end of a graph with data on its edges names a record that is there.
RecordsPlaced ==
  /\ num_es \in Nat
  /\ HasEdgeData => DOMAIN record = Ends /\ \A x \in Ends : record[x] \in 0 .. num_es - 1

EdgesInv == EndsPlaced /\ LinksMutual /\ RecordsPlaced /\ RecordsApart

----------------------------------------------------------------------------
(* Edges *)

\* Adding an edge between two ends that are not there leaves all ends mutual.
LEMMA LinkedBothMutual ==
  ASSUME LinksMutual, Links, NEW x, NEW y, x # y, {x, y} \cap Ends = {},
         link' = LinkedBoth(x, y), UNCHANGED kind
  PROVE  LinksMutual'
<1>1. /\ Ends' = Ends \cup {x, y}
      /\ link'[x] = y /\ link'[y] = x
      /\ \A z \in Ends : link'[z] = link[z]
  BY DEF LinkedBoth, Ends
<1>2. \A z \in Ends : link[z] \in Ends \ {z} /\ link[link[z]] = z
  BY DEF LinksMutual
<1>3. ASSUME NEW z \in Ends' PROVE link'[z] \in Ends' \ {z} /\ link'[link'[z]] = z
  <2>1. CASE z \in Ends
    BY <1>1, <1>2, <2>1
  <2>2. CASE z \in {x, y}
    BY <1>1, <2>2
  <2> QED BY <1>1, <2>1, <2>2
<1> QED BY <1>3 DEF LinksMutual

\* The ends that are left when a vertex is erased are those that neither are
\* at it nor link one that is.
LEMMA LeftByErase ==
  ASSUME LinksMutual, Links, NEW v, NEW x \in Ends
  PROVE  x \in EndsAt(v) \cup Partners(v) <=> x.vert = v \/ link[x].vert = v
<1>1. \A z \in Ends : link[z] \in Ends /\ link[link[z]] = z
  BY DEF LinksMutual
<1>2. ASSUME x \in Partners(v) PROVE link[x].vert = v
  <2>1. PICK y \in EndsAt(v) : x = link[y]
    BY <1>2 DEF Partners
  <2> QED BY <1>1, <2>1 DEF EndsAt
<1>3. ASSUME link[x].vert = v PROVE x \in Partners(v)
  <2>1. link[x] \in EndsAt(v) /\ link[link[x]] = x
    BY <1>1, <1>3 DEF EndsAt
  <2> QED BY <2>1 DEF Partners
<1> QED BY <1>2, <1>3 DEF EndsAt

\* Erasing a vertex with the partners of its ends leaves the other ends mutual.
LEMMA EraseMutual ==
  ASSUME LinksMutual, Links, NEW v, UNCHANGED kind,
         link' = [x \in Ends \ (EndsAt(v) \cup Partners(v)) |-> link[x]]
  PROVE  LinksMutual'
<1>1. Ends' = Ends \ (EndsAt(v) \cup Partners(v)) /\ \A x \in Ends' : link'[x] = link[x]
  BY DEF Ends
<1>2. \A z \in Ends : link[z] \in Ends \ {z} /\ link[link[z]] = z
  BY DEF LinksMutual
<1>3. ASSUME NEW x \in Ends' PROVE link[x] \in Ends'
  <2>1. x.vert # v /\ link[x].vert # v
    BY <1>1, <1>3, LeftByErase
  <2>2. link[x] \in Ends /\ link[link[x]] = x
    BY <1>1, <1>2
  <2>3. link[x] \notin EndsAt(v) \cup Partners(v)
    BY <2>1, <2>2, LeftByErase
  <2> QED BY <1>1, <2>2, <2>3
<1> QED BY <1>1, <1>2, <1>3 DEF LinksMutual

----------------------------------------------------------------------------
(* The invariant *)

\* A new graph has no ends.
LEMMA InitEdgesInv == GraphInit => EdgesInv
BY DEF GraphInit, EdgesInv, EndsPlaced, LinksMutual, RecordsPlaced, RecordsApart, Ends

\* The new ends of an edge, and only they, name its new record.
LEMMA AddRecords ==
  ASSUME EdgesInv, UNCHANGED kind, NEW new, new # {}, new \cap Ends = {},
         Ends' = Ends \cup new,
         \A x \in Ends : link'[x] = link[x] /\ link[x] \notin new,
         \A x, y \in new : y \in {x, link'[x]},
         \A x \in new : link'[x] \notin Ends,
         AddRecord
  PROVE  RecordsPlaced' /\ RecordsApart'
<1>1. CASE ~HasEdgeData
  BY <1>1 DEF EdgesInv, AddRecord, RecordsPlaced, RecordsApart, HasEdgeData, es_vars
<1>2. CASE HasEdgeData
  <2>1. /\ num_es' = num_es + 1
        /\ record' = [x \in Ends' |-> IF x \in Ends THEN record[x] ELSE num_es]
    BY <1>2 DEF AddRecord, Ends
  <2>2. num_es \in Nat /\ \A x \in Ends : record[x] \in 0 .. num_es - 1
    BY <1>2 DEF EdgesInv, RecordsPlaced
  <2>3. /\ \A x \in Ends : record'[x] = record[x] /\ record'[x] # num_es
        /\ \A x \in new : record'[x] = num_es
    BY <2>1, <2>2
  <2>4. RecordsPlaced'
    <3>1. \A x \in Ends' : record'[x] \in 0 .. num_es' - 1
      BY <2>1, <2>2
    <3> QED BY <2>1, <2>2, <3>1 DEF RecordsPlaced
  <2>5. ASSUME NEW x \in Ends', NEW y \in Ends'
        PROVE  record'[x] = record'[y] <=> y \in {x, link'[x]}
    <3>1. CASE x \in Ends /\ y \in Ends
      BY <1>2, <2>3, <3>1 DEF EdgesInv, RecordsApart
    <3>2. CASE x \in Ends /\ y \in new
      BY <2>3, <3>2
    <3>3. CASE x \in new /\ y \in Ends
      BY <2>3, <3>3
    <3>4. CASE x \in new /\ y \in new
      BY <2>3, <3>4
    <3> QED BY <3>1, <3>2, <3>3, <3>4
  <2> QED BY <2>4, <2>5 DEF RecordsApart
<1> QED BY <1>1, <1>2

\* add() keeps the invariant.
LEMMA AddInvariant ==
  ASSUME EdgesInv, NEW fr \in verts, NEW to \in verts, AddEdge(fr, to)
  PROVE  EdgesInv'
<1>1. UNCHANGED <<kind, verts>> /\ AddRecord
  BY DEF AddEdge, config
<1>2. CASE AddLinked(fr, to)
  <2>1. PICK b \in Slots, c \in Slots :
          LET x == End(fr, "out", b)
              y == End(to, IF kind = "undirected" THEN "out" ELSE "in", c)
          IN  x # y /\ {x, y} \cap Ends = {} /\ link' = LinkedBoth(x, y)
    BY <1>2 DEF AddLinked
  <2> DEFINE x == End(fr, "out", b)
             y == End(to, IF kind = "undirected" THEN "out" ELSE "in", c)
  <2>2. x # y /\ {x, y} \cap Ends = {} /\ link' = LinkedBoth(x, y)
    BY <2>1
  <2>3. x.vert = fr /\ y.vert = to /\ x.side \in {"out", "in"} /\ y.side \in {"out", "in"}
    BY DEF End
  <2> HIDE DEF x, y
  <2>4. Links
    BY <1>2 DEF AddLinked
  <2>5. LinksMutual'
    BY <1>1, <2>2, <2>4, LinkedBothMutual DEF EdgesInv
  <2>6. Ends' = Ends \cup {x, y}
    BY <2>2 DEF LinkedBoth, Ends
  <2>7. EndsPlaced'
    BY <1>1, <2>3, <2>4, <2>6 DEF EdgesInv, EndsPlaced, Links
  <2>8. /\ link'[x] = y /\ link'[y] = x
        /\ \A z \in Ends : link'[z] = link[z] /\ link[z] \in Ends
    BY <2>2, <2>4 DEF LinkedBoth, Ends, EdgesInv, LinksMutual
  <2>9. RecordsPlaced' /\ RecordsApart'
    BY <1>1, <2>2, <2>6, <2>8, AddRecords
  <2> QED BY <2>5, <2>7, <2>9 DEF EdgesInv
<1>3. CASE AddOneWay(fr, to)
  <2>1. PICK b \in Slots :
          LET x == End(fr, "out", b)
          IN  /\ x \notin Ends
              /\ link' = [h \in Ends \cup {x} |-> IF h = x THEN JustVert(to) ELSE link[h]]
    BY <1>3 DEF AddOneWay
  <2> DEFINE x == End(fr, "out", b)
  <2>2. /\ x \notin Ends
        /\ link' = [h \in Ends \cup {x} |-> IF h = x THEN JustVert(to) ELSE link[h]]
    BY <2>1
  <2>3. x.vert = fr /\ x.side = "out" /\ JustVert(to).side = "none"
    BY DEF End, JustVert
  <2> HIDE DEF x
  <2>4. ~Links /\ ~Links'
    BY <1>1, <1>3 DEF AddOneWay, Links
  <2>5. /\ Ends' = Ends \cup {x}
        /\ \A z \in Ends' : link'[z] = (IF z = x THEN JustVert(to) ELSE link[z])
    BY <2>2 DEF Ends
  <2>6. EndsPlaced' /\ LinksMutual'
    BY <1>1, <2>3, <2>4, <2>5 DEF EdgesInv, EndsPlaced, LinksMutual
  <2>7. \A z \in Ends : link[z] # x /\ z # JustVert(to)
    BY <2>3, <2>4 DEF EdgesInv, EndsPlaced
  <2> DEFINE new == {x}
  <2>8. new # {} /\ new \cap Ends = {} /\ Ends' = Ends \cup new
    BY <2>2, <2>5
  <2>9. /\ \A z \in Ends : link'[z] = link[z] /\ link[z] \notin new
        /\ \A z, w \in new : w \in {z, link'[z]}
        /\ \A z \in new : link'[z] \notin Ends
    BY <2>2, <2>5, <2>7
  <2> HIDE DEF new
  <2>10. RecordsPlaced' /\ RecordsApart'
    BY <1>1, <2>8, <2>9, AddRecords
  <2> QED BY <2>6, <2>10 DEF EdgesInv
<1> QED BY <1>2, <1>3 DEF AddEdge

\* Erasing a vertex keeps the invariant.
LEMMA EraseInvariant ==
  ASSUME EdgesInv, NEW v \in verts, EraseVert(v)
  PROVE  EdgesInv'
<1>1. /\ UNCHANGED <<kind, num_es>>
      /\ verts' = verts \ {v}
      /\ link' = [x \in Ends \ (EndsAt(v) \cup Partners(v)) |-> link[x]]
      /\ record' = [x \in DOMAIN record \ (EndsAt(v) \cup Partners(v)) |-> record[x]]
  BY DEF EraseVert, config
<1>2. Ends' = Ends \ (EndsAt(v) \cup Partners(v)) /\ \A x \in Ends' : link'[x] = link[x]
  BY <1>1 DEF Ends
<1>3. EndsPlaced'
  BY <1>1, <1>2 DEF EdgesInv, EndsPlaced, EndsAt, Links
<1>4. LinksMutual'
  <2>1. CASE Links
    BY <1>1, <2>1, EraseMutual DEF EdgesInv
  <2>2. CASE ~Links
    BY <1>1, <2>2 DEF LinksMutual, Links
  <2> QED BY <2>1, <2>2
<1>5. RecordsPlaced' /\ RecordsApart'
  BY <1>1, <1>2 DEF EdgesInv, RecordsPlaced, RecordsApart, HasEdgeData
<1> QED BY <1>3, <1>4, <1>5 DEF EdgesInv

\* Loops leave the vertices, the ends, their links and the records alone.
LEMMA LoopsOnlyRead ==
  ASSUME VertsBegin \/ (\E v \in verts, side \in EndSides : EndsBegin(v, side)) \/ LoopStep
         \/ UNCHANGED vars
  PROVE  UNCHANGED <<kind, verts, link, record, num_es>>
BY DEF VertsBegin, EndsBegin, LoopStep, vars, config, es_vars

\* Every operation keeps the invariant.
LEMMA NextEdgesInv == EdgesInv /\ [GraphNext]_vars => EdgesInv'
<1> SUFFICES ASSUME EdgesInv, [GraphNext]_vars PROVE EdgesInv'
  OBVIOUS
<1>1. ASSUME NEW fr \in verts, NEW to \in verts, AddEdge(fr, to) PROVE EdgesInv'
  BY <1>1, AddInvariant
<1>2. ASSUME NEW v \in verts, ClientErase(v) PROVE EdgesInv'
  BY <1>2, EraseInvariant DEF ClientErase
<1>3. ASSUME UNCHANGED <<kind, verts, link, record, num_es>> PROVE EdgesInv'
  BY <1>3 DEF EdgesInv, EndsPlaced, LinksMutual, RecordsPlaced, RecordsApart, HasEdgeData,
              Links, Ends
<1> QED BY <1>1, <1>2, <1>3, LoopsOnlyRead DEF GraphNext

\* The invariant holds in every state.
LEMMA EdgesInvAlways == GraphSpec => []EdgesInv
BY InitEdgesInv, NextEdgesInv, PTL DEF GraphSpec

\* The two ends of each edge link each other and name a record of their own,
\* whatever edges are added and vertices erased, from inside a loop or outside.
THEOREM EdgesStayWhole == GraphSpec => []EdgesWhole
<1>1. EdgesInv => EdgesWhole
  BY DEF EdgesInv, EdgesWhole
<1> QED BY <1>1, EdgesInvAlways, PTL

----------------------------------------------------------------------------
(* GraphRefinement *)

\* An edge is at the vertex of its one end and at the one that the end names.
LEMMA EdgeVerts ==
  ASSUME NEW x
  PROVE  Abstract!VertsOf({x, link[x]}) = {x.vert, link[x].vert}
BY DEF Abstract!VertsOf

\* add() adds one edge, between its two vertices.
LEMMA AddRefines ==
  ASSUME EdgesInv, EdgesInv', NEW fr \in verts, NEW to \in verts, AddEdge(fr, to)
  PROVE  \E e \in Edges' \ Edges :
           Edges' = Edges \cup {e} /\ Abstract!VertsOf(e) \subseteq verts
<1>1. UNCHANGED <<kind, verts>>
  BY DEF AddEdge, config
<1>2. CASE AddLinked(fr, to)
  <2>1. PICK b \in Slots, c \in Slots :
          LET x == End(fr, "out", b)
              y == End(to, IF kind = "undirected" THEN "out" ELSE "in", c)
          IN  x # y /\ {x, y} \cap Ends = {} /\ link' = LinkedBoth(x, y)
    BY <1>2 DEF AddLinked
  <2> DEFINE x == End(fr, "out", b)
             y == End(to, IF kind = "undirected" THEN "out" ELSE "in", c)
  <2>2. x # y /\ {x, y} \cap Ends = {} /\ link' = LinkedBoth(x, y)
    BY <2>1
  <2>3. x.vert = fr /\ y.vert = to
    BY DEF End
  <2> HIDE DEF x, y
  <2>4. /\ Ends' = Ends \cup {x, y}
        /\ link'[x] = y /\ link'[y] = x
        /\ \A z \in Ends : link'[z] = link[z]
    BY <2>2 DEF LinkedBoth, Ends
  <2>5. \A z \in Ends : link[z] \in Ends
    BY <1>2 DEF EdgesInv, LinksMutual, AddLinked
  <2>6. Edges' = Edges \cup {{x, y}}
    BY <1>1, <2>3, <2>4 DEF Edges
  <2>7. {x, y} \notin Edges
    BY <2>2, <2>5 DEF Edges
  <2>8. Abstract!VertsOf({x, y}) = {fr, to}
    BY <2>3 DEF Abstract!VertsOf
  <2> QED BY <2>6, <2>7, <2>8
<1>3. CASE AddOneWay(fr, to)
  <2>1. PICK b \in Slots :
          LET x == End(fr, "out", b)
          IN  /\ x \notin Ends
              /\ link' = [h \in Ends \cup {x} |-> IF h = x THEN JustVert(to) ELSE link[h]]
    BY <1>3 DEF AddOneWay
  <2> DEFINE x == End(fr, "out", b)
             y == JustVert(to)
  <2>2. /\ x \notin Ends
        /\ link' = [h \in Ends \cup {x} |-> IF h = x THEN y ELSE link[h]]
    BY <2>1
  <2>3. x.vert = fr /\ x.side = "out" /\ y.vert = to
    BY DEF End, JustVert
  <2> HIDE DEF x, y
  <2>4. /\ Ends' = Ends \cup {x}
        /\ link'[x] = y
        /\ \A z \in Ends : link'[z] = link[z]
    BY <2>2 DEF Ends
  <2>5. \A z \in Ends : link[z].side = "none"
    BY <1>3 DEF EdgesInv, EndsPlaced, AddOneWay
  <2>6. Edges' = Edges \cup {{x, y}}
    BY <1>1, <2>3, <2>4 DEF Edges
  <2>7. {x, y} \notin Edges
    BY <2>2, <2>3, <2>5 DEF Edges
  <2>8. Abstract!VertsOf({x, y}) = {fr, to}
    BY <2>3 DEF Abstract!VertsOf
  <2> QED BY <2>6, <2>7, <2>8
<1> QED BY <1>2, <1>3 DEF AddEdge

\* Erasing a vertex takes exactly the edges at it.
LEMMA EraseRefines ==
  ASSUME EdgesInv, NEW v \in verts, EraseVert(v)
  PROVE  Edges' = {e \in Edges : v \notin Abstract!VertsOf(e)}
<1>1. verts' = verts \ {v}
  BY DEF EraseVert
<1>2. /\ Ends' = Ends \ (EndsAt(v) \cup Partners(v))
      /\ \A x \in Ends' : link'[x] = link[x]
  BY DEF EraseVert, Ends
<1>3. ASSUME NEW x \in Ends
      PROVE  x \in Ends' /\ link[x].vert \in verts'
               <=> link[x].vert \in verts /\ x.vert # v /\ link[x].vert # v
  <2>1. CASE Links
    BY <1>1, <1>2, <2>1, LeftByErase DEF EdgesInv
  <2>2. CASE ~Links
    BY <1>1, <1>2, <2>2 DEF Partners, EndsAt
  <2> QED BY <2>1, <2>2
<1>4. Edges' = {{x, link[x]} : x \in {y \in Ends : y \in Ends' /\ link[y].vert \in verts'}}
  BY <1>2 DEF Edges
<1>5. ASSUME NEW x \in Ends
      PROVE  v \notin Abstract!VertsOf({x, link[x]}) <=> x.vert # v /\ link[x].vert # v
  BY EdgeVerts
<1> QED BY <1>3, <1>4, <1>5 DEF Edges

\* Each step of the graph is a step of the abstract one, or none.
LEMMA NextRefines ==
  EdgesInv /\ EdgesInv' /\ [GraphNext]_vars => [Abstract!Next]_<<verts, Edges>>
<1> SUFFICES ASSUME EdgesInv, EdgesInv', [GraphNext]_vars PROVE [Abstract!Next]_<<verts, Edges>>
  OBVIOUS
<1>1. ASSUME NEW fr \in verts, NEW to \in verts, AddEdge(fr, to) PROVE Abstract!AddEdge
  <2>1. UNCHANGED verts
    BY <1>1 DEF AddEdge
  <2> QED BY <1>1, <2>1, AddRefines DEF Abstract!AddEdge
<1>2. ASSUME NEW v \in verts, ClientErase(v) PROVE Abstract!EraseVert
  <2>1. EraseVert(v) /\ verts' = verts \ {v}
    BY <1>2 DEF ClientErase, EraseVert
  <2> QED BY <2>1, EraseRefines DEF Abstract!EraseVert
<1>3. ASSUME UNCHANGED <<kind, verts, link>> PROVE UNCHANGED <<verts, Edges>>
  BY <1>3 DEF Edges, Ends
<1> QED BY <1>1, <1>2, <1>3, LoopsOnlyRead DEF GraphNext, Abstract!Next

\* The graph implements the abstract one: edges come one at a time, and go with
\* either of their vertices, and only with it.
THEOREM GraphRefinement == GraphSpec => Refines
<1>1. GraphInit => Abstract!Init
  BY DEF GraphInit, Abstract!Init, Edges, Ends
<1> QED BY <1>1, NextRefines, EdgesInvAlways, PTL DEF GraphSpec, Refines, Abstract!Spec

----------------------------------------------------------------------------
(* Loops *)

\* Vertices and ends are where the containers have room for them.
Shape ==
  /\ verts \subseteq AllVerts
  /\ Ends \subseteq {End(v, side, b) : v \in verts, side \in EndSides, b \in Slots}

\* What a loop has visited and not lost is there, and nothing has been visited
\* between loops.
VisitedThere ==
  /\ \A x \in visited : x.side # "none" => x \in Ends
  /\ cursor = NoCursor => visited = {}

LoopInv == TypeOK /\ LoopMeetsEachOnce /\ VisitedThere

\* Among what one loop visits a position is taken once; positions are naturals.
LEMMA Positions ==
  ASSUME Shape, NEW c, NEW x \in SameLoop(c), NEW y \in SameLoop(c)
  PROVE  /\ Position(x) \in Nat
         /\ Position(x) = Position(y) => x = y
         /\ SameLoop(x) = SameLoop(c)
         /\ x # NoCursor
         /\ x.side # "none" => x \in Ends
<1>1. CASE c.side = "none"
  <2>1. PICK u \in verts, w \in verts : x = VertCursor(u) /\ y = VertCursor(w)
    BY <1>1 DEF SameLoop
  <2>2. x.vert = u /\ y.vert = w /\ x.side = "none" /\ y.side = "none"
    BY <2>1 DEF VertCursor, JustVert, End
  <2>3. u \in Nat /\ NoCursor.vert = -1
    BY BoundsAssumption DEF Shape, AllVerts, NoCursor, JustVert, NoVert, End
  <2> QED BY <1>1, <2>1, <2>2, <2>3 DEF Position, SameLoop
<1>2. CASE c.side # "none"
  <2>1. /\ x \in Ends /\ y \in Ends
        /\ x.vert = c.vert /\ y.vert = c.vert /\ x.side = c.side /\ y.side = c.side
    BY <1>2 DEF SameLoop
  <2>2. PICK v \in verts, side \in EndSides, b \in Slots : x = End(v, side, b)
    BY <2>1 DEF Shape
  <2>3. PICK w \in verts, other \in EndSides, d \in Slots : y = End(w, other, d)
    BY <2>1 DEF Shape
  <2>4. /\ x.vert = v /\ x.side = side /\ x.slot = b
        /\ y.vert = w /\ y.side = other /\ y.slot = d
    BY <2>2, <2>3 DEF End
  <2>5. b \in Nat /\ NoCursor.side = "none"
    BY BoundsAssumption DEF Slots, NoCursor, JustVert, End
  <2> QED BY <1>2, <2>1, <2>2, <2>3, <2>4, <2>5 DEF Position, SameLoop
<1> QED BY <1>1, <1>2

\* _increment() goes to what is next ahead, past nothing that is constructed.
LEMMA FollowingIsNext ==
  ASSUME Shape, NEW c, Position(c) \in Int, Ahead(c) # {}
  PROVE  /\ Following(c) \in Ahead(c)
         /\ Following(c) # NoCursor
         /\ SameLoop(Following(c)) = SameLoop(c)
         /\ Ahead(Following(c)) = Ahead(c) \ {Following(c)}
<1> DEFINE P == {Position(x) : x \in Ahead(c)}
<1>1. Ahead(c) \subseteq SameLoop(c)
  BY DEF Ahead
<1>2. P \subseteq Nat /\ P # {}
  BY <1>1, Positions
<1>3. PICK n \in P : \A m \in P : n <= m
  BY <1>2, Least
<1>4. PICK x \in Ahead(c) : \A y \in Ahead(c) : Position(x) <= Position(y)
  BY <1>3
<1> DEFINE f == Following(c)
<1>5. f \in Ahead(c) /\ \A y \in Ahead(c) : Position(f) <= Position(y)
  BY <1>4 DEF Following
<1> HIDE DEF f, P
<1>6. f # NoCursor /\ SameLoop(f) = SameLoop(c) /\ Position(f) \in Nat
  BY <1>1, <1>5, Positions
<1>7. Position(f) > Position(c)
  BY <1>5 DEF Ahead
<1>8. \A y \in SameLoop(c) : Position(y) \in Nat /\ (Position(y) = Position(f) => y = f)
  BY <1>1, <1>5, Positions
<1>9. \A y \in Ahead(c) : y # f => y \in Ahead(f)
  BY <1>1, <1>5, <1>6, <1>8 DEF Ahead
<1>10. \A y \in Ahead(f) : y \in Ahead(c) /\ y # f
  BY <1>6, <1>7, <1>8 DEF Ahead
<1> QED BY <1>5, <1>6, <1>9, <1>10 DEF f

\* What a loop may visit is an iterator of the right type, and starts with a
\* position in its container.
LEMMA LoopTypes ==
  ASSUME Shape, NEW c
  PROVE  SameLoop(c) \subseteq Iterators
<1> SUFFICES ASSUME NEW x \in SameLoop(c) PROVE x \in Iterators
  OBVIOUS
<1>1. CASE c.side = "none"
  <2>1. PICK u \in verts : x = [vert |-> u, side |-> "none", slot |-> NoSlot]
    BY <1>1 DEF SameLoop, VertCursor, JustVert, End
  <2> QED BY <2>1 DEF Iterators, Shape
<1>2. CASE c.side # "none"
  <2>1. x \in Ends
    BY <1>2 DEF SameLoop
  <2>2. PICK v \in verts, side \in EndSides, b \in Slots :
          x = [vert |-> v, side |-> side, slot |-> b]
    BY <2>1 DEF Shape, End
  <2> QED BY <2>2 DEF Iterators, Shape
<1> QED BY <1>1, <1>2

\* The position of an iterator is a number.
LEMMA PositionType ==
  ASSUME NEW c \in Iterators \cup {NoCursor}
  PROVE  Position(c) \in Int
<1>1. NoCursor.vert \in Int /\ NoCursor.slot \in Int
  BY DEF NoCursor, JustVert, NoVert, NoSlot, End
<1>2. AllVerts \cup Slots \cup {NoSlot} \subseteq Int
  BY BoundsAssumption DEF AllVerts, Slots, NoSlot
<1> QED BY <1>1, <1>2 DEF Position, Iterators

\* A step of a loop visits what is due next, or ends with nothing due.
LEMMA VisitNext ==
  ASSUME Shape, NEW c, NEW d, NEW w, Position(c) \in Int,
         d \subseteq Ahead(c), Ahead(c) \cap w = {}, Ahead(c) # {}
  PROVE  LET f == Following(c)
         IN  /\ f # NoCursor /\ f \in Iterators
             /\ d \ {f} \subseteq Ahead(f) /\ Ahead(f) \subseteq SameLoop(f)
             /\ Ahead(f) \cap (w \cup {f}) = {}
             /\ f.side # "none" => f \in Ends
<1> DEFINE f == Following(c)
<1>1. /\ f \in Ahead(c) /\ f # NoCursor /\ SameLoop(f) = SameLoop(c)
      /\ Ahead(f) = Ahead(c) \ {f}
  BY FollowingIsNext
<1> HIDE DEF f
<1>2. f \in SameLoop(c) /\ Ahead(f) \subseteq SameLoop(f)
  BY <1>1 DEF Ahead
<1>3. f \in Iterators /\ (f.side # "none" => f \in Ends)
  BY <1>2, LoopTypes, Positions
<1> QED BY <1>1, <1>2, <1>3 DEF f

\* While vertices and ends are the same, so is what a loop has ahead of it.
LEMMA SameAhead ==
  ASSUME UNCHANGED <<verts, link>>
  PROVE  /\ Ends' = Ends
         /\ SameLoop(cursor)' = SameLoop(cursor')
         /\ Ahead(cursor)' = Ahead(cursor')
BY DEF Ends, Ahead, SameLoop, Position

\* New loops and steps of loops: due is what lies ahead.
LEMMA VisitInvariant ==
  ASSUME TypeOK, VisitedThere,
         UNCHANGED <<config, verts, link>>,
         NEW c \in Iterators, NEW d, c # NoCursor,
         Visit(c, d),
         d \ {c} \subseteq Ahead(c), Ahead(c) \subseteq SameLoop(c),
         Ahead(c) \cap (visited \cup {c}) = {},
         c.side # "none" => c \in Ends
  PROVE  LoopInv'
<1>1. /\ cursor' = c /\ visited' = visited \cup {c} /\ due' = d \ {c}
      /\ aborted' \in BOOLEAN
  BY DEF Visit
<1>2. Ends' = Ends /\ SameLoop(cursor)' = SameLoop(c) /\ Ahead(cursor)' = Ahead(c)
  BY <1>1, SameAhead
<1>3. TypeOK'
  <2>1. cursor' \in Iterators /\ visited' \subseteq Iterators /\ due' \subseteq SameLoop(cursor)'
    BY <1>1, <1>2 DEF TypeOK
  <2>2. EndSides' = EndSides
    BY DEF EndSides, config
  <2>3. Iterators' = Iterators
    BY <2>2 DEF Iterators
  <2> QED BY <1>1, <1>2, <2>1, <2>2, <2>3 DEF TypeOK, config
<1>4. LoopMeetsEachOnce'
  BY <1>1, <1>2 DEF LoopMeetsEachOnce
<1>5. VisitedThere'
  BY <1>1, <1>2 DEF VisitedThere
<1> QED BY <1>3, <1>4, <1>5 DEF LoopInv

\* A graph without ends, and no loop.
LEMMA InitLoops == GraphInit => LoopInv
<1> SUFFICES ASSUME GraphInit PROVE LoopInv
  OBVIOUS
<1>1. Ends = {} /\ verts = AllVerts /\ cursor = NoCursor /\ visited = {} /\ due = {}
  BY DEF GraphInit, Ends
<1>2. kind \in Kinds /\ erasable \in BOOLEAN /\ aborted \in BOOLEAN
  BY DEF GraphInit
<1> QED BY <1>1, <1>2 DEF LoopInv, TypeOK, LoopMeetsEachOnce, VisitedThere

\* The loop over the vertices starts with none visited and all others due.
LEMMA VertsBeginLoops == LoopInv /\ VertsBegin => LoopInv'
<1> SUFFICES ASSUME LoopInv, VertsBegin PROVE LoopInv'
  OBVIOUS
<1> DEFINE c == VertCursor(0)
<1>1. c.side = "none" /\ c.vert = 0 /\ c.slot = NoSlot /\ NoCursor.vert = -1
  BY DEF VertCursor, NoCursor, JustVert, NoVert, End
<1>2. c \in Iterators /\ c # NoCursor
  <2>1. 0 \in AllVerts
    BY BoundsAssumption DEF VertsBegin, AllVerts
  <2>2. c = [vert |-> 0, side |-> "none", slot |-> NoSlot]
    BY DEF VertCursor, JustVert, End
  <2> QED BY <1>1, <2>1, <2>2 DEF Iterators
<1>3. visited = {} /\ UNCHANGED <<config, verts, link>> /\ Visit(c, SameLoop(c))
  BY DEF VertsBegin, LoopInv, VisitedThere
<1>4. SameLoop(c) \ {c} \subseteq Ahead(c)
  <2> SUFFICES ASSUME NEW x \in SameLoop(c), x # c PROVE x \in Ahead(c)
    OBVIOUS
  <2>1. PICK u \in verts : x = VertCursor(u)
    BY <1>1 DEF SameLoop
  <2>2. u \in Nat /\ u # 0 /\ x.vert = u
    BY <2>1, BoundsAssumption
    DEF LoopInv, TypeOK, AllVerts, VertCursor, JustVert, End
  <2>3. x.side = "none"
    BY <2>1 DEF VertCursor, JustVert, End
  <2> QED BY <1>1, <2>2, <2>3 DEF Ahead, Position
<1>5. Ahead(c) \cap {c} = {} /\ Ahead(c) \subseteq SameLoop(c)
  BY <1>1 DEF Ahead, Position
<1> HIDE DEF c
<1> QED BY <1>1, <1>2, <1>3, <1>4, <1>5, VisitInvariant DEF LoopInv

\* The loop over the ends of a vertex starts with the first of them.
LEMMA EndsBeginLoops ==
  ASSUME LoopInv, NEW v \in verts, NEW side \in EndSides, EndsBegin(v, side)
  PROVE  LoopInv'
<1> DEFINE c == End(v, side, NoSlot)
           f == Following(c)
<1>1. f # NoCursor /\ UNCHANGED <<config, verts, link>> /\ Visit(f, SameLoop(f)) /\ visited = {}
  BY DEF EndsBegin, LoopInv, VisitedThere
<1>2. Shape
  BY DEF LoopInv, TypeOK, Shape
<1>3. c.side # "none" /\ Position(c) = -1
  BY DEF EndSides, End, Position, NoSlot
<1>4. Ahead(c) = SameLoop(c)
  <2>1. \A x \in SameLoop(c) : Position(x) \in Nat
    BY <1>2, Positions
  <2> QED BY <1>3, <2>1 DEF Ahead
<1> HIDE DEF c
<1>5. Ahead(c) # {}
  BY <1>1 DEF Following
<1>6. /\ f \in Ahead(c)
      /\ SameLoop(f) = SameLoop(c)
      /\ Ahead(f) = Ahead(c) \ {f}
  <2>1. Position(c) \in Int
    BY <1>3
  <2> QED BY <1>2, <1>5, <2>1, FollowingIsNext
<1> HIDE DEF f
<1>7. f \in Iterators /\ (f.side # "none" => f \in Ends)
  BY <1>2, <1>4, <1>6, LoopTypes, Positions
<1>8. /\ SameLoop(f) \ {f} \subseteq Ahead(f) /\ Ahead(f) \subseteq SameLoop(f)
      /\ Ahead(f) \cap (visited \cup {f}) = {}
  BY <1>1, <1>4, <1>6
<1> QED BY <1>1, <1>7, <1>8, VisitInvariant DEF LoopInv

\* A step of a loop visits the next, or ends when nothing is due.
LEMMA StepLoops == LoopInv /\ LoopStep => LoopInv'
<1> SUFFICES ASSUME LoopInv, LoopStep PROVE LoopInv'
  OBVIOUS
<1> DEFINE f == Following(cursor)
<1>1. /\ UNCHANGED <<config, verts, link>> /\ Visit(f, due)
      /\ due \subseteq Ahead(cursor) /\ Ahead(cursor) \cap visited = {}
  BY DEF LoopStep, LoopInv, LoopMeetsEachOnce
<1>2. Shape /\ Position(cursor) \in Int
  BY PositionType DEF LoopInv, TypeOK, Shape
<1>3. CASE Ahead(cursor) = {}
  <2>1. f = NoCursor /\ due = {}
    BY <1>1, <1>3 DEF Following
  <2>2. cursor' = NoCursor /\ visited' = {} /\ due' = {} /\ UNCHANGED aborted
    BY <1>1, <2>1 DEF Visit
  <2>3. Ends' = Ends /\ EndSides' = EndSides
    BY <1>1, SameAhead DEF EndSides, config
  <2> QED BY <1>1, <2>2, <2>3 DEF LoopInv, TypeOK, LoopMeetsEachOnce, VisitedThere, config
<1>4. CASE Ahead(cursor) # {}
  <2>1. /\ f # NoCursor /\ f \in Iterators
        /\ due \ {f} \subseteq Ahead(f) /\ Ahead(f) \subseteq SameLoop(f)
        /\ Ahead(f) \cap (visited \cup {f}) = {}
        /\ f.side # "none" => f \in Ends
    BY <1>1, <1>2, <1>4, VisitNext
  <2> HIDE DEF f
  <2> QED BY <1>1, <2>1, VisitInvariant DEF LoopInv
<1> QED BY <1>3, <1>4

\* New ends are in free slots, on sides that the vertices have.
LEMMA NewEnds ==
  ASSUME TypeOK, NEW fr \in verts, NEW to \in verts, AddEdge(fr, to)
  PROVE  /\ Ends \subseteq Ends'
         /\ Ends' \subseteq {End(v, side, b) : v \in verts, side \in EndSides, b \in Slots}
<1>1. "out" \in EndSides
  BY DEF EndSides
<1>2. CASE AddLinked(fr, to)
  <2>1. PICK b \in Slots, c \in Slots :
          link' = LinkedBoth(End(fr, "out", b),
                             End(to, IF kind = "undirected" THEN "out" ELSE "in", c))
    BY <1>2 DEF AddLinked
  <2>2. (IF kind = "undirected" THEN "out" ELSE "in") \in EndSides
    BY <1>2 DEF AddLinked, Links, EndSides, TypeOK, Kinds
  <2>3. Ends' = Ends \cup {End(fr, "out", b),
                           End(to, IF kind = "undirected" THEN "out" ELSE "in", c)}
    BY <2>1 DEF LinkedBoth, Ends
  <2> QED BY <1>1, <2>2, <2>3 DEF TypeOK
<1>3. CASE AddOneWay(fr, to)
  <2>1. PICK b \in Slots : Ends' = Ends \cup {End(fr, "out", b)}
    BY <1>3 DEF AddOneWay, Ends
  <2> QED BY <1>1, <2>1 DEF TypeOK
<1> QED BY <1>2, <1>3 DEF AddEdge

\* Edges that the body of a loop adds are not among what it has visited.
LEMMA AddLoops ==
  ASSUME LoopInv, NEW fr \in verts, NEW to \in verts, AddEdge(fr, to)
  PROVE  LoopInv'
<1>1. UNCHANGED <<config, verts, loop_vars, aborted>>
  BY DEF AddEdge
<1>2. /\ Ends \subseteq Ends'
      /\ Ends' \subseteq {End(v, side, b) : v \in verts, side \in EndSides, b \in Slots}
  BY NewEnds DEF LoopInv
<1>3. EndSides' = EndSides /\ Iterators' = Iterators
  BY <1>1 DEF EndSides, Iterators, config
<1>4. SameLoop(cursor) \subseteq SameLoop(cursor)'
  BY <1>1, <1>2 DEF SameLoop, loop_vars
<1>5. Ahead(cursor) \subseteq Ahead(cursor)'
  BY <1>1, <1>4 DEF Ahead, Position, loop_vars
<1>6. ASSUME NEW x \in Ahead(cursor)', x \notin Ahead(cursor)
      PROVE  x.side # "none" /\ x \notin Ends
  <2>1. x \in SameLoop(cursor)' /\ x \notin SameLoop(cursor)
    BY <1>1, <1>6 DEF Ahead, Position, loop_vars
  <2>2. x \in Ends' /\ x \notin Ends
    BY <1>1, <2>1 DEF SameLoop, loop_vars
  <2>3. PICK v \in verts, side \in EndSides, b \in Slots : x = End(v, side, b)
    BY <1>2, <2>2
  <2> QED BY <2>2, <2>3 DEF End, EndSides
<1>7. TypeOK'
  BY <1>1, <1>2, <1>3, <1>4 DEF LoopInv, TypeOK, config, loop_vars
<1>8. LoopMeetsEachOnce'
  BY <1>1, <1>5, <1>6 DEF LoopInv, LoopMeetsEachOnce, VisitedThere, loop_vars
<1>9. VisitedThere'
  BY <1>1, <1>2 DEF LoopInv, VisitedThere, loop_vars
<1> QED BY <1>7, <1>8, <1>9 DEF LoopInv

\* A vertex that the body of a loop erases goes with its ends, and those of the
\* others, from what was visited and what is due.
LEMMA EraseLoops ==
  ASSUME LoopInv, NEW v \in verts, EraseVert(v)
  PROVE  LoopInv'
<1> DEFINE gone == EndsAt(v) \cup Partners(v)
<1>1. /\ UNCHANGED <<config, cursor, aborted>>
      /\ verts' = verts \ {v}
      /\ visited' = visited \ (gone \cup {VertCursor(v)})
      /\ due' = due \ (gone \cup {VertCursor(v)})
  BY DEF EraseVert
<1>2. Ends' = Ends \ gone
  BY DEF EraseVert, Ends
<1>3. EndSides' = EndSides /\ Iterators' = Iterators
  BY <1>1 DEF EndSides, Iterators, config
<1>4. Ends' \subseteq {End(u, side, b) : u \in verts', side \in EndSides, b \in Slots}
  <2> SUFFICES ASSUME NEW x \in Ends'
               PROVE  x \in {End(u, side, b) : u \in verts', side \in EndSides, b \in Slots}
    OBVIOUS
  <2>1. PICK u \in verts, side \in EndSides, b \in Slots : x = End(u, side, b)
    BY <1>2 DEF LoopInv, TypeOK
  <2>2. u # v
    BY <1>2, <2>1 DEF EndsAt, End
  <2> QED BY <1>1, <2>1, <2>2
<1> HIDE DEF gone
<1>5. \A x \in SameLoop(cursor) : x \notin gone \cup {VertCursor(v)} => x \in SameLoop(cursor)'
  BY <1>1, <1>2 DEF SameLoop
<1>6. SameLoop(cursor)' \subseteq SameLoop(cursor)
  BY <1>1, <1>2 DEF SameLoop
<1>7. \A x : x \in Ahead(cursor)' <=> x \in SameLoop(cursor)' /\ Position(x) > Position(cursor)
  BY <1>1 DEF Ahead, Position
<1>8. TypeOK'
  BY <1>1, <1>3, <1>4, <1>5 DEF LoopInv, TypeOK, config
<1>9. LoopMeetsEachOnce'
  <2>1. Ahead(cursor)' \subseteq Ahead(cursor)
    BY <1>6, <1>7 DEF Ahead
  <2>2. due' \subseteq SameLoop(cursor)'
    BY <1>8 DEF TypeOK
  <2> QED BY <1>1, <1>7, <2>1, <2>2 DEF LoopInv, LoopMeetsEachOnce, Ahead
<1>10. VisitedThere'
  BY <1>1, <1>2 DEF LoopInv, VisitedThere
<1> QED BY <1>8, <1>9, <1>10 DEF LoopInv

\* Every step keeps the invariant of the loops.
LEMMA NextLoops == LoopInv /\ [GraphNext]_vars => LoopInv'
<1> SUFFICES ASSUME LoopInv, [GraphNext]_vars PROVE LoopInv'
  OBVIOUS
<1>1. ASSUME NEW fr \in verts, NEW to \in verts, AddEdge(fr, to) PROVE LoopInv'
  BY <1>1, AddLoops
<1>2. ASSUME NEW v \in verts, ClientErase(v) PROVE LoopInv'
  BY <1>2, EraseLoops DEF ClientErase
<1>3. CASE VertsBegin
  BY <1>3, VertsBeginLoops
<1>4. ASSUME NEW v \in verts, NEW side \in EndSides, EndsBegin(v, side) PROVE LoopInv'
  BY <1>4, EndsBeginLoops
<1>5. CASE LoopStep
  BY <1>5, StepLoops
<1>6. CASE UNCHANGED vars
  <2>1. /\ UNCHANGED <<kind, erasable, verts, link, cursor, visited, due, aborted>>
    BY <1>6 DEF vars, config, loop_vars
  <2> QED BY <2>1 DEF LoopInv, TypeOK, LoopMeetsEachOnce, VisitedThere, Ends, Ahead,
                      SameLoop, Position, Iterators, EndSides
<1> QED BY <1>1, <1>2, <1>3, <1>4, <1>5, <1>6 DEF GraphNext

\* The loops' invariant always holds.
LEMMA LoopInvariance == GraphSpec => []LoopInv
BY InitLoops, NextLoops, PTL DEF GraphSpec

\* Vertices, ends and iterators have their types, and an end is always at a
\* vertex that is there.
THEOREM GraphTypeCorrect == GraphSpec => []TypeOK
<1>1. LoopInv => TypeOK
  BY DEF LoopInv
<1> QED BY <1>1, LoopInvariance, PTL

\* A loop visits what was there when it began and still is, and visits nothing
\* twice, whatever edges its body adds and vertices it erases.
THEOREM LoopsMeetEachOnce == GraphSpec => []LoopMeetsEachOnce
<1>1. LoopInv => LoopMeetsEachOnce
  BY DEF LoopInv
<1> QED BY <1>1, LoopInvariance, PTL
============================================================================
