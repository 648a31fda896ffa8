---------------------------- MODULE ListProofs ----------------------------
(***************************************************************************)
(* Theorems about List for every set of handles and of elements: the links *)
(* form one chain in both directions, and implement a sequence.            *)
(*                                                                         *)
(* The lemmas about chains are about any links nx and pv and ends fr and bk*)
(* of a set L of nodes, so that they apply before and after a step.        *)
(***************************************************************************)
EXTENDS List, FiniteSetTheorems, SequenceTheorems, TLAPS

\* The order o of the n nodes L is the one that the links describe.
Chain(nx, pv, fr, bk, L, o, n) ==
  /\ o \in [1 .. n -> L]
  /\ \A i, j \in 1 .. n : o[i] = o[j] => i = j
  /\ \A h \in L : \E i \in 1 .. n : o[i] = h
  /\ fr = At(o, 1, n)
  /\ bk = At(o, n, n)
  /\ \A i \in 1 .. n : nx[o[i]] = At(o, i + 1, n) /\ pv[o[i]] = At(o, i - 1, n)

\* The order o without position k, and with h in position k.
Without(o, k, n) == [i \in 1 .. n - 1 |-> IF i < k THEN o[i] ELSE o[i + 1]]
With(o, k, n, h) ==
  [i \in 1 .. n + 1 |-> IF i < k THEN o[i] ELSE IF i = k THEN h ELSE o[i - 1]]

\* What taking h from between its neighbours does to the links.
Bridged(nx, pv, fr, bk, L, h, nx2, pv2, fr2, bk2) ==
  /\ \A j \in L \ {h} : nx2[j] = IF j = pv[h] THEN nx[h] ELSE nx[j]
  /\ \A j \in L \ {h} : pv2[j] = IF j = nx[h] THEN pv[h] ELSE pv[j]
  /\ fr2 = IF fr = h THEN nx[h] ELSE fr
  /\ bk2 = IF bk = h THEN pv[h] ELSE bk

\* A position is a node or, outside, none.
LEMMA AtIs ==
  ASSUME NEW o, NEW n \in Nat
  PROVE  /\ \A i \in 1 .. n : At(o, i, n) = o[i]
         /\ At(o, 0, n) = Nil
         /\ At(o, n + 1, n) = Nil
BY DEF At

\* What makes a chain, one by one.
LEMMA ChainFacts ==
  ASSUME NEW nx, NEW pv, NEW fr, NEW bk, NEW L, NEW o, NEW n \in Nat, Nil \notin L,
         Chain(nx, pv, fr, bk, L, o, n)
  PROVE  /\ \A i \in 1 .. n : o[i] \in L /\ o[i] # Nil
         /\ \A i, j \in 1 .. n : o[i] = o[j] => i = j
         /\ \A g \in L : \E i \in 1 .. n : o[i] = g
         /\ fr = At(o, 1, n) /\ bk = At(o, n, n)
         /\ \A i \in 1 .. n : nx[o[i]] = At(o, i + 1, n) /\ pv[o[i]] = At(o, i - 1, n)
BY DEF Chain

\* A chain without one of its nodes.
LEMMA ChainWithout ==
  ASSUME NEW nx, NEW pv, NEW fr, NEW bk, NEW L, NEW o, NEW n \in Nat, Nil \notin L,
         Chain(nx, pv, fr, bk, L, o, n),
         NEW k \in 1 .. n, NEW h, h = o[k],
         NEW nx2, NEW pv2, NEW fr2, NEW bk2,
         Bridged(nx, pv, fr, bk, L, h, nx2, pv2, fr2, bk2)
  PROVE  Chain(nx2, pv2, fr2, bk2, L \ {h}, Without(o, k, n), n - 1)
<1> DEFINE q == Without(o, k, n)
<1>1. /\ \A i \in 1 .. n : o[i] \in L /\ o[i] # Nil
      /\ \A i, j \in 1 .. n : o[i] = o[j] => i = j
      /\ \A g \in L : \E i \in 1 .. n : o[i] = g
      /\ fr = At(o, 1, n) /\ bk = At(o, n, n)
      /\ \A i \in 1 .. n : nx[o[i]] = At(o, i + 1, n) /\ pv[o[i]] = At(o, i - 1, n)
  BY ChainFacts
<1>2. \A i \in 1 .. n - 1 : q[i] = IF i < k THEN o[i] ELSE o[i + 1]
  BY DEF Without
<1>3. q \in [1 .. n - 1 -> L \ {h}]
  <2>1. ASSUME NEW i \in 1 .. n - 1
        PROVE  (IF i < k THEN o[i] ELSE o[i + 1]) \in L \ {h}
    <3>1. CASE i < k
      BY <1>1, <3>1
    <3>2. CASE ~(i < k)
      <4>1. i + 1 \in 1 .. n /\ i + 1 # k
        BY <3>2
      <4> QED BY <1>1, <3>2, <4>1
    <3> QED BY <3>1, <3>2
  <2> QED BY <2>1 DEF Without
<1>4. ASSUME NEW i \in 1 .. n - 1, NEW j \in 1 .. n - 1, q[i] = q[j] PROVE i = j
  <2> DEFINE at(m) == IF m < k THEN m ELSE m + 1
  <2>1. at(i) \in 1 .. n /\ at(j) \in 1 .. n
    OBVIOUS
  <2>2. q[i] = o[at(i)] /\ q[j] = o[at(j)]
    BY <1>2
  <2>3. at(i) = at(j)
    BY <1>1, <1>4, <2>1, <2>2
  <2> QED BY <2>3
<1>5. ASSUME NEW g \in L \ {h} PROVE \E i \in 1 .. n - 1 : q[i] = g
  <2>1. PICK i \in 1 .. n : o[i] = g
    BY <1>1
  <2>2. i # k
    BY <2>1
  <2>3. CASE i < k
    <3>1. i \in 1 .. n - 1 /\ q[i] = g
      BY <1>2, <2>1, <2>3
    <3> QED BY <3>1
  <2>4. CASE i > k
    <3>1. i - 1 \in 1 .. n - 1 /\ q[i - 1] = g
      BY <1>2, <2>1, <2>4
    <3> QED BY <3>1
  <2> QED BY <2>2, <2>3, <2>4
<1> HIDE DEF q
<1>6. fr2 = At(q, 1, n - 1)
  BY <1>1, <1>2 DEF At, Bridged
<1>7. bk2 = At(q, n - 1, n - 1)
  BY <1>1, <1>2 DEF At, Bridged
<1>8. /\ At(o, k, n) = h /\ h \in L /\ h # Nil
      /\ nx[h] = At(o, k + 1, n) /\ pv[h] = At(o, k - 1, n)
  BY <1>1, AtIs
<1>9. \A i \in 1 .. n - 1 : q[i] \in L \ {h}
  BY <1>3
<1>10. ASSUME NEW i \in 1 .. n - 1 PROVE nx2[q[i]] = At(q, i + 1, n - 1)
  <2>1. nx2[q[i]] = IF q[i] = pv[h] THEN nx[h] ELSE nx[q[i]]
    BY <1>9 DEF Bridged
  <2>2. CASE i < k - 1
    <3>1. q[i] = o[i] /\ i \in 1 .. n /\ i + 1 \in 1 .. n /\ i + 1 \in 1 .. n - 1 /\ i + 1 < k
      BY <1>2, <2>2
    <3>2. q[i] # pv[h]
      BY <1>1, <1>8, <2>2, <3>1 DEF At
    <3>3. nx[q[i]] = o[i + 1] /\ At(q, i + 1, n - 1) = o[i + 1]
      BY <1>1, <1>2, <3>1 DEF At
    <3> QED BY <2>1, <3>2, <3>3
  <2>3. CASE i = k - 1
    <3>1. q[i] = o[i] /\ i \in 1 .. n
      BY <1>2, <2>3
    <3>2. q[i] = pv[h]
      BY <1>8, <2>3, <3>1 DEF At
    <3>3. nx[h] = At(q, i + 1, n - 1)
      BY <1>2, <1>8, <2>3 DEF At
    <3> QED BY <2>1, <3>2, <3>3
  <2>4. CASE i > k - 1
    <3>1. q[i] = o[i + 1] /\ i + 1 \in 1 .. n
      BY <1>2, <2>4
    <3>2. q[i] # pv[h]
      BY <1>1, <1>8, <2>4, <3>1 DEF At
    <3>3. nx[q[i]] = At(o, i + 2, n)
      BY <1>1, <3>1
    <3>4. At(o, i + 2, n) = At(q, i + 1, n - 1)
      BY <1>2, <2>4, <3>1 DEF At
    <3> QED BY <2>1, <3>2, <3>3, <3>4
  <2> QED BY <2>2, <2>3, <2>4
<1>11. ASSUME NEW i \in 1 .. n - 1 PROVE pv2[q[i]] = At(q, i - 1, n - 1)
  <2>1. pv2[q[i]] = IF q[i] = nx[h] THEN pv[h] ELSE pv[q[i]]
    BY <1>9 DEF Bridged
  <2>2. CASE i < k
    <3>1. q[i] = o[i] /\ i \in 1 .. n
      BY <1>2, <2>2
    <3>2. q[i] # nx[h]
      BY <1>1, <1>8, <2>2, <3>1 DEF At
    <3>3. pv[q[i]] = At(o, i - 1, n)
      BY <1>1, <3>1
    <3>4. At(o, i - 1, n) = At(q, i - 1, n - 1)
      BY <1>2, <2>2, <3>1 DEF At
    <3> QED BY <2>1, <3>2, <3>3, <3>4
  <2>3. CASE i = k
    <3>1. q[i] = o[i + 1] /\ i + 1 \in 1 .. n
      BY <1>2, <2>3
    <3>2. q[i] = nx[h]
      BY <1>8, <2>3, <3>1 DEF At
    <3>3. pv[h] = At(q, i - 1, n - 1)
      BY <1>2, <1>8, <2>3 DEF At
    <3> QED BY <2>1, <3>2, <3>3
  <2>4. CASE i > k
    <3>1. q[i] = o[i + 1] /\ i + 1 \in 1 .. n
      BY <1>2, <2>4
    <3>2. q[i] # nx[h]
      BY <1>1, <1>8, <2>4, <3>1 DEF At
    <3>3. pv[q[i]] = At(o, i, n)
      BY <1>1, <3>1
    <3>4. At(o, i, n) = At(q, i - 1, n - 1)
      BY <1>2, <2>4, <3>1 DEF At
    <3> QED BY <2>1, <3>2, <3>3, <3>4
  <2> QED BY <2>2, <2>3, <2>4
<1> QED BY <1>3, <1>4, <1>5, <1>6, <1>7, <1>10, <1>11 DEF Chain, q

\* What putting h between positions k - 1 and k does to the links.
Spliced(nx, pv, fr, bk, L, o, k, n, h, nx2, pv2, fr2, bk2) ==
  /\ nx2[h] = At(o, k, n)
  /\ pv2[h] = At(o, k - 1, n)
  /\ \A j \in L : nx2[j] = IF j = At(o, k - 1, n) THEN h ELSE nx[j]
  /\ \A j \in L : pv2[j] = IF j = At(o, k, n) THEN h ELSE pv[j]
  /\ fr2 = IF k = 1 THEN h ELSE fr
  /\ bk2 = IF k = n + 1 THEN h ELSE bk

\* A chain with one more node.
LEMMA ChainWith ==
  ASSUME NEW nx, NEW pv, NEW fr, NEW bk, NEW L, NEW o, NEW n \in Nat, Nil \notin L,
         Chain(nx, pv, fr, bk, L, o, n),
         NEW k \in 1 .. n + 1, NEW h, h \notin L, h # Nil,
         NEW nx2, NEW pv2, NEW fr2, NEW bk2,
         Spliced(nx, pv, fr, bk, L, o, k, n, h, nx2, pv2, fr2, bk2)
  PROVE  Chain(nx2, pv2, fr2, bk2, L \cup {h}, With(o, k, n, h), n + 1)
<1> DEFINE q == With(o, k, n, h)
<1>1. /\ \A i \in 1 .. n : o[i] \in L /\ o[i] # Nil
      /\ \A i, j \in 1 .. n : o[i] = o[j] => i = j
      /\ \A g \in L : \E i \in 1 .. n : o[i] = g
      /\ fr = At(o, 1, n) /\ bk = At(o, n, n)
      /\ \A i \in 1 .. n : nx[o[i]] = At(o, i + 1, n) /\ pv[o[i]] = At(o, i - 1, n)
  BY ChainFacts
<1>2. \A i \in 1 .. n + 1 : q[i] = IF i < k THEN o[i] ELSE IF i = k THEN h ELSE o[i - 1]
  BY DEF With
<1>3. q \in [1 .. n + 1 -> L \cup {h}]
  <2>1. \A i \in 1 .. n + 1 :
          (IF i < k THEN o[i] ELSE IF i = k THEN h ELSE o[i - 1]) \in L \cup {h}
    BY <1>1
  <2> QED BY <2>1 DEF With
<1>4. ASSUME NEW i \in 1 .. n + 1, NEW j \in 1 .. n + 1, q[i] = q[j] PROVE i = j
  <2>1. \A m \in 1 .. n + 1 : m < k => m \in 1 .. n /\ q[m] = o[m] /\ o[m] # h
    BY <1>1, <1>2
  <2>2. \A m \in 1 .. n + 1 : m > k => m - 1 \in 1 .. n /\ q[m] = o[m - 1] /\ o[m - 1] # h
    BY <1>1, <1>2
  <2>3. q[k] = h
    BY <1>2
  <2>4. CASE i < k \/ j < k
    BY <1>1, <1>4, <2>1, <2>2, <2>3, <2>4
  <2>5. CASE i > k \/ j > k
    BY <1>1, <1>4, <2>1, <2>2, <2>3, <2>5
  <2> QED BY <2>4, <2>5
<1>5. ASSUME NEW g \in L \cup {h} PROVE \E i \in 1 .. n + 1 : q[i] = g
  <2>1. CASE g = h
    <3>1. q[k] = h
      BY <1>2
    <3> QED BY <2>1, <3>1
  <2>2. CASE g \in L
    <3>1. PICK i \in 1 .. n : o[i] = g
      BY <1>1, <2>2
    <3>2. CASE i < k
      <4>1. i \in 1 .. n + 1 /\ q[i] = g
        BY <1>2, <3>1, <3>2
      <4> QED BY <4>1
    <3>3. CASE i >= k
      <4>1. i + 1 \in 1 .. n + 1 /\ q[i + 1] = g
        BY <1>2, <3>1, <3>3
      <4> QED BY <4>1
    <3> QED BY <3>2, <3>3
  <2> QED BY <2>1, <2>2
<1> HIDE DEF q
<1>6. fr2 = At(q, 1, n + 1)
  BY <1>1, <1>2 DEF At, Spliced
<1>7. bk2 = At(q, n + 1, n + 1)
  BY <1>1, <1>2 DEF At, Spliced
<1>8. ASSUME NEW i \in 1 .. n + 1
      PROVE  nx2[q[i]] = At(q, i + 1, n + 1) /\ pv2[q[i]] = At(q, i - 1, n + 1)
  <2>1. CASE i = k
    <3>1. q[i] = h
      BY <1>2, <2>1
    <3>2. At(o, k, n) = At(q, i + 1, n + 1)
      BY <1>2, <2>1 DEF At
    <3>3. At(o, k - 1, n) = At(q, i - 1, n + 1)
      BY <1>2, <2>1 DEF At
    <3> QED BY <3>1, <3>2, <3>3 DEF Spliced
  <2>2. CASE i < k
    <3>1. q[i] = o[i] /\ i \in 1 .. n /\ o[i] \in L
      BY <1>1, <1>2, <2>2
    <3>2. nx2[q[i]] = At(q, i + 1, n + 1)
      BY <1>1, <1>2, <2>2, <3>1 DEF At, Spliced
    <3>3. q[i] # At(o, k, n)
      BY <1>1, <2>2, <3>1 DEF At
    <3>4. pv2[q[i]] = At(q, i - 1, n + 1)
      BY <1>1, <1>2, <2>2, <3>1, <3>3 DEF At, Spliced
    <3> QED BY <3>2, <3>4
  <2>3. CASE i > k
    <3>1. q[i] = o[i - 1] /\ i - 1 \in 1 .. n /\ o[i - 1] \in L
      BY <1>1, <1>2, <2>3
    <3>2. pv2[q[i]] = At(q, i - 1, n + 1)
      BY <1>1, <1>2, <2>3, <3>1 DEF At, Spliced
    <3>3. q[i] # At(o, k - 1, n)
      BY <1>1, <2>3, <3>1 DEF At
    <3>4. nx2[q[i]] = At(q, i + 1, n + 1)
      BY <1>1, <1>2, <2>3, <3>1, <3>3 DEF At, Spliced
    <3> QED BY <3>2, <3>4
  <2> QED BY <2>1, <2>2, <2>3
<1> QED BY <1>3, <1>4, <1>5, <1>6, <1>7, <1>8 DEF Chain, q

----------------------------------------------------------------------------
(* The invariant *)

\* A free handle has no links: a node comes into an empty list without its
\* links being set.
Shape ==
  /\ val \in [Handles -> Elements \cup {NoElement}]
  /\ next \in [Handles -> Handles \cup {Nil}]
  /\ prev \in [Handles -> Handles \cup {Nil}]
  /\ \A h \in Handles \ Live : next[h] = Nil /\ prev[h] = Nil
  /\ \A g, h \in Live : val[g] = val[h] => g = h

\* The loop stands on a node, or goes on from an erased one to a node.
CursorThere ==
  /\ cursor \in [dir : Directions, handle : Handles \cup {Nil}, just_erased : BOOLEAN,
                 next : Handles \cup {Nil}, prev : Handles \cup {Nil}]
  /\ cursor.handle # Nil =>
       IF cursor.just_erased THEN Following \in Live \cup {Nil} ELSE cursor.handle \in Live

IInv == Shape /\ WellLinked /\ CursorThere

\* The order o of n nodes is that of the links.
Ordered(o, n) == n \in Nat /\ n = Cardinality(Live) /\ LinkedAs(o, n)

\* The nodes are finitely many, and an invalid handle is none of them.
LEMMA LiveFinite == IsFiniteSet(Live) /\ Cardinality(Live) \in Nat /\ Nil \notin Live
<1>1. Live \in SUBSET Handles
  BY DEF Live
<1> QED BY <1>1, HandlesAssumption, FS_Subset, FS_CardinalityType

\* The links have an order exactly if they are well linked.
HasOrder == \E o, n : Ordered(o, n)

\* WellLinked says that the links have an order.
LEMMA OrderOfLinks == WellLinked <=> HasOrder
BY LiveFinite DEF WellLinked, HasOrder, Ordered, LinkedAs

\* A link that is set.
LEMMA LinkFacts ==
  ASSUME NEW links \in [Handles -> Handles \cup {Nil}], NEW h \in Handles \cup {Nil},
         NEW x \in Handles \cup {Nil}
  PROVE  /\ Link(links, h, x) \in [Handles -> Handles \cup {Nil}]
         /\ \A j \in Handles : Link(links, h, x)[j] = IF j = h THEN x ELSE links[j]
BY HandlesAssumption DEF Link

\* An order of the links is a chain with as many nodes as the counter says.
LEMMA OrderedChain ==
  ASSUME NEW o, NEW n
  PROVE  LinkedAs(o, n) <=> n = num_existing /\ Chain(next, prev, front, back, Live, o, n)
BY DEF LinkedAs, Chain

----------------------------------------------------------------------------
(* Erasing *)

\* erase() takes one node out of the order.
LEMMA UnlinkStep ==
  ASSUME Shape, NEW o, NEW n, Ordered(o, n), NEW h \in Live, Unlink(h)
  PROVE  /\ Shape'
         /\ Live' = Live \ {h}
         /\ \E k \in 1 .. n : o[k] = h /\ Ordered(Without(o, k, n), n - 1)'
<1>1. /\ n \in Nat /\ n = Cardinality(Live) /\ n = num_existing
      /\ Chain(next, prev, front, back, Live, o, n)
  BY OrderedChain DEF Ordered
<1>2. Live' = Live \ {h}
  BY DEF Live, Unlink, Shape
<1>3. h \in Handles /\ h # Nil /\ Live \subseteq Handles
  BY HandlesAssumption DEF Live
<1>4. PICK k \in 1 .. n : o[k] = h
  BY <1>1 DEF Chain
<1>5. next[h] # h /\ prev[h] # h /\ next[h] \in Live \cup {Nil} /\ prev[h] \in Live \cup {Nil}
  <2>1. next[h] = At(o, k + 1, n) /\ prev[h] = At(o, k - 1, n)
    BY <1>1, <1>4 DEF Chain
  <2>2. At(o, k + 1, n) # h /\ At(o, k + 1, n) \in Live \cup {Nil}
    BY <1>1, <1>3, <1>4 DEF Chain, At
  <2>3. At(o, k - 1, n) # h /\ At(o, k - 1, n) \in Live \cup {Nil}
    BY <1>1, <1>3, <1>4 DEF Chain, At
  <2> QED BY <2>1, <2>2, <2>3
<1>6. /\ next' \in [Handles -> Handles \cup {Nil}] /\ next'[h] = Nil
      /\ \A j \in Handles \ {h} : next'[j] = IF j = prev[h] THEN next[h] ELSE next[j]
  <2>1. Link(next, prev[h], next[h]) \in [Handles -> Handles \cup {Nil}]
    BY <1>3, LinkFacts DEF Shape
  <2>2. \A j \in Handles : Link(next, prev[h], next[h])[j] = IF j = prev[h] THEN next[h] ELSE next[j]
    BY <1>3, LinkFacts, HandlesAssumption DEF Shape
  <2>3. next' = [Link(next, prev[h], next[h]) EXCEPT ![h] = Nil]
    BY DEF Unlink
  <2> HIDE DEF Link
  <2> QED BY <1>3, <2>1, <2>2, <2>3
<1>7. /\ prev' \in [Handles -> Handles \cup {Nil}] /\ prev'[h] = Nil
      /\ \A j \in Handles \ {h} : prev'[j] = IF j = next[h] THEN prev[h] ELSE prev[j]
  <2>1. Link(prev, next[h], prev[h]) \in [Handles -> Handles \cup {Nil}]
    BY <1>3, LinkFacts DEF Shape
  <2>2. \A j \in Handles : Link(prev, next[h], prev[h])[j] = IF j = next[h] THEN prev[h] ELSE prev[j]
    BY <1>3, LinkFacts, HandlesAssumption DEF Shape
  <2>3. prev' = [Link(prev, next[h], prev[h]) EXCEPT ![h] = Nil]
    BY DEF Unlink
  <2> HIDE DEF Link
  <2> QED BY <1>3, <2>1, <2>2, <2>3
<1>8. Shape'
  <2>1. val' \in [Handles -> Elements \cup {NoElement}]
    BY DEF Unlink, Shape
  <2>2. \A g \in Handles \ Live' : next'[g] = Nil /\ prev'[g] = Nil
    <3>1. ASSUME NEW g \in Handles \ Live, g # h PROVE next'[g] = Nil /\ prev'[g] = Nil
      <4>1. next[g] = Nil /\ prev[g] = Nil /\ g # Nil
        BY HandlesAssumption DEF Shape
      <4>2. g # next[h] /\ g # prev[h]
        BY <1>5, <4>1
      <4> QED BY <1>6, <1>7, <3>1, <4>1, <4>2
    <3> QED BY <1>2, <1>6, <1>7, <3>1
  <2>3. \A g \in Live' : val'[g] = val[g] /\ g \in Live
    BY <1>2, <1>3 DEF Unlink, Shape
  <2> QED BY <1>2, <1>6, <1>7, <2>1, <2>2, <2>3 DEF Shape
<1>9. Bridged(next, prev, front, back, Live, h, next', prev', front', back')
  BY <1>3, <1>6, <1>7 DEF Bridged, Unlink
<1>10. Chain(next', prev', front', back', Live \ {h}, Without(o, k, n), n - 1)
  BY <1>1, <1>4, <1>9, LiveFinite, ChainWithout
<1>11. Cardinality(Live') = n - 1 /\ n - 1 \in Nat
  <2>1. Cardinality(Live \ {h}) = Cardinality(Live) - 1
    BY LiveFinite, FS_RemoveElement
  <2> QED BY <1>1, <1>2, <2>1
<1>12. num_existing' = n - 1
  BY <1>1 DEF Unlink
<1>13. LinkedAs(Without(o, k, n), n - 1)'
  <2>1. (LinkedAs(Without(o, k, n), n - 1))'
          <=> n - 1 = num_existing' /\ Chain(next', prev', front', back', Live', Without(o, k, n), n - 1)
    BY DEF LinkedAs, Chain
  <2> QED BY <1>2, <1>10, <1>12, <2>1
<1>14. Ordered(Without(o, k, n), n - 1)'
  BY <1>11, <1>13 DEF Ordered
<1> QED BY <1>2, <1>4, <1>8, <1>14

----------------------------------------------------------------------------
(* Emplacing *)

\* A node that is linked in between positions k - 1 and k.
LEMMA SpliceStep ==
  ASSUME Shape, NEW o, NEW n, Ordered(o, n), NEW e, NEW m, Construct(e, m), NEW k \in 1 .. n + 1,
         next' \in [Handles -> Handles \cup {Nil}], prev' \in [Handles -> Handles \cup {Nil}],
         \A g \in Handles \ (Live \cup {m}) : next'[g] = next[g] /\ prev'[g] = prev[g],
         Spliced(next, prev, front, back, Live, o, k, n, m, next', prev', front', back')
  PROVE  Shape' /\ Live' = Live \cup {m} /\ Ordered(With(o, k, n, m), n + 1)'
<1>1. /\ n \in Nat /\ n = Cardinality(Live) /\ n = num_existing
      /\ Chain(next, prev, front, back, Live, o, n)
  BY OrderedChain DEF Ordered
<1>2. m \in Handles /\ m \notin Live /\ m # Nil /\ e \in Elements /\ e # NoElement
  BY HandlesAssumption, ElementsAssumption DEF Construct
<1>3. Live' = Live \cup {m}
  BY <1>2 DEF Live, Construct, Shape
<1>4. Shape'
  <2>1. val' \in [Handles -> Elements \cup {NoElement}]
    BY <1>2 DEF Construct, Shape
  <2>2. \A g \in Handles \ Live' : next'[g] = Nil /\ prev'[g] = Nil
    BY <1>3 DEF Shape
  <2>3. \A g \in Live : val'[g] = val[g] /\ val[g] # e
    BY <1>2 DEF Construct, Shape, Contents, Live
  <2>4. val'[m] = e
    BY <1>2 DEF Construct, Shape
  <2>5. \A g, h \in Live' : val'[g] = val'[h] => g = h
    BY <1>3, <2>3, <2>4 DEF Shape
  <2> QED BY <2>1, <2>2, <2>5 DEF Shape
<1>5. Chain(next', prev', front', back', Live \cup {m}, With(o, k, n, m), n + 1)
  BY <1>1, <1>2, LiveFinite, ChainWith
<1>6. Cardinality(Live') = n + 1 /\ n + 1 \in Nat
  <2>1. Cardinality(Live \cup {m}) = Cardinality(Live) + 1
    BY <1>2, LiveFinite, FS_AddElement
  <2> QED BY <1>1, <1>3, <2>1
<1>7. num_existing' = n + 1
  BY <1>1 DEF Construct
<1>8. LinkedAs(With(o, k, n, m), n + 1)'
  <2>1. (LinkedAs(With(o, k, n, m), n + 1))'
          <=> n + 1 = num_existing' /\ Chain(next', prev', front', back', Live', With(o, k, n, m), n + 1)
    BY DEF LinkedAs, Chain
  <2> QED BY <1>3, <1>5, <1>7, <2>1
<1>9. Ordered(With(o, k, n, m), n + 1)'
  BY <1>6, <1>8 DEF Ordered
<1> QED BY <1>3, <1>4, <1>9

\* emplace_before() puts the new node into the order before its own.
LEMMA BeforeStep ==
  ASSUME Shape, NEW o, NEW n, Ordered(o, n), NEW h, NEW e, NEW m, EmplaceBefore(h, e, m)
  PROVE  /\ Shape' /\ Live' = Live \cup {m}
         /\ \E k \in 1 .. n + 1 : Ordered(With(o, k, n, m), n + 1)'
<1>1. /\ n \in Nat /\ Chain(next, prev, front, back, Live, o, n)
      /\ h \in Live /\ Live \subseteq Handles /\ Construct(e, m)
      /\ m \in Handles /\ m \notin Live /\ m # Nil
  BY OrderedChain, HandlesAssumption DEF Ordered, EmplaceBefore, Construct, Live
<1>2. PICK k \in 1 .. n : o[k] = h
  BY <1>1 DEF Chain
<1>3. /\ At(o, k, n) = h /\ prev[h] = At(o, k - 1, n) /\ prev[h] \in Live \cup {Nil}
      /\ front = h <=> k = 1
  BY <1>1, <1>2 DEF Chain, At
<1>4. /\ Link(next, prev[h], m) \in [Handles -> Handles \cup {Nil}]
      /\ \A j \in Handles : Link(next, prev[h], m)[j] = IF j = prev[h] THEN m ELSE next[j]
  <2>1. next \in [Handles -> Handles \cup {Nil}]
    BY DEF Shape
  <2>2. prev[h] \in Handles \cup {Nil} /\ m \in Handles \cup {Nil}
    BY <1>1, <1>3
  <2>3. Link(next, prev[h], m) \in [Handles -> Handles \cup {Nil}]
    BY <2>1, <2>2, LinkFacts
  <2>4. \A j \in Handles : Link(next, prev[h], m)[j] = IF j = prev[h] THEN m ELSE next[j]
    BY <2>1, <2>2, HandlesAssumption DEF Link
  <2> QED BY <2>3, <2>4
<1>5. /\ next' \in [Handles -> Handles \cup {Nil}] /\ next'[m] = h
      /\ \A j \in Handles \ {m} : next'[j] = IF j = prev[h] THEN m ELSE next[j]
  BY <1>1, <1>4 DEF EmplaceBefore
<1>6. /\ prev' \in [Handles -> Handles \cup {Nil}] /\ prev'[m] = prev[h]
      /\ \A j \in Handles \ {m} : prev'[j] = IF j = h THEN m ELSE prev[j]
  BY <1>1 DEF EmplaceBefore, Shape
<1>7. front' = (IF k = 1 THEN m ELSE front) /\ back' = back
  BY <1>3 DEF EmplaceBefore
<1>8. Spliced(next, prev, front, back, Live, o, k, n, m, next', prev', front', back')
  BY <1>1, <1>2, <1>3, <1>5, <1>6, <1>7 DEF Spliced
<1>9. \A g \in Handles \ (Live \cup {m}) : next'[g] = next[g] /\ prev'[g] = prev[g]
  BY <1>1, <1>3, <1>5, <1>6, HandlesAssumption
<1>10. k \in 1 .. n + 1
  BY <1>1
<1> QED BY <1>1, <1>5, <1>6, <1>8, <1>9, <1>10, SpliceStep

\* emplace_after() puts the new node into the order after its own.
LEMMA AfterStep ==
  ASSUME Shape, NEW o, NEW n, Ordered(o, n), NEW h, NEW e, NEW m, EmplaceAfter(h, e, m)
  PROVE  /\ Shape' /\ Live' = Live \cup {m}
         /\ \E k \in 1 .. n + 1 : Ordered(With(o, k, n, m), n + 1)'
<1>1. /\ n \in Nat /\ Chain(next, prev, front, back, Live, o, n)
      /\ h \in Live /\ Live \subseteq Handles /\ Construct(e, m)
      /\ m \in Handles /\ m \notin Live /\ m # Nil
  BY OrderedChain, HandlesAssumption DEF Ordered, EmplaceAfter, Construct, Live
<1>2. PICK k \in 1 .. n : o[k] = h
  BY <1>1 DEF Chain
<1>3. /\ At(o, k, n) = h /\ next[h] = At(o, k + 1, n) /\ next[h] \in Live \cup {Nil}
      /\ back = h <=> k = n
  BY <1>1, <1>2 DEF Chain, At
<1>4. /\ Link(prev, next[h], m) \in [Handles -> Handles \cup {Nil}]
      /\ \A j \in Handles : Link(prev, next[h], m)[j] = IF j = next[h] THEN m ELSE prev[j]
  <2>1. prev \in [Handles -> Handles \cup {Nil}]
    BY DEF Shape
  <2>2. next[h] \in Handles \cup {Nil} /\ m \in Handles \cup {Nil}
    BY <1>1, <1>3
  <2>3. Link(prev, next[h], m) \in [Handles -> Handles \cup {Nil}]
    BY <2>1, <2>2, LinkFacts
  <2>4. \A j \in Handles : Link(prev, next[h], m)[j] = IF j = next[h] THEN m ELSE prev[j]
    BY <2>1, <2>2, HandlesAssumption DEF Link
  <2> QED BY <2>3, <2>4
<1>5. /\ prev' \in [Handles -> Handles \cup {Nil}] /\ prev'[m] = h
      /\ \A j \in Handles \ {m} : prev'[j] = IF j = next[h] THEN m ELSE prev[j]
  BY <1>1, <1>4 DEF EmplaceAfter
<1>6. /\ next' \in [Handles -> Handles \cup {Nil}] /\ next'[m] = next[h]
      /\ \A j \in Handles \ {m} : next'[j] = IF j = h THEN m ELSE next[j]
  BY <1>1 DEF EmplaceAfter, Shape
<1>7. back' = (IF k = n THEN m ELSE back) /\ front' = front
  BY <1>3 DEF EmplaceAfter
<1>8. (k + 1) - 1 = k /\ (k + 1 = n + 1 <=> k = n) /\ k + 1 # 1 /\ k + 1 \in 1 .. n + 1
  BY <1>1
<1>9. Spliced(next, prev, front, back, Live, o, k + 1, n, m, next', prev', front', back')
  BY <1>1, <1>2, <1>3, <1>5, <1>6, <1>7, <1>8 DEF Spliced
<1>10. \A g \in Handles \ (Live \cup {m}) : next'[g] = next[g] /\ prev'[g] = prev[g]
  BY <1>1, <1>3, <1>5, <1>6, HandlesAssumption
<1> QED BY <1>1, <1>5, <1>6, <1>8, <1>9, <1>10, SpliceStep

\* A free handle has no links, so that none have to be set.
LEMMA IntoEmptyStep ==
  ASSUME Shape, NEW o, NEW n, Ordered(o, n), NEW e, NEW m, EmplaceIntoEmpty(e, m)
  PROVE  /\ Shape' /\ Live' = Live \cup {m}
         /\ \E k \in 1 .. n + 1 : Ordered(With(o, k, n, m), n + 1)'
<1>1. /\ n \in Nat /\ Chain(next, prev, front, back, Live, o, n)
      /\ front = Nil /\ Construct(e, m) /\ m \in Handles /\ m \notin Live
      /\ front' = m /\ back' = m /\ next' = next /\ prev' = prev
  BY OrderedChain DEF Ordered, EmplaceIntoEmpty, Construct
<1>2. n = 0
  BY <1>1, LiveFinite DEF Chain, At
<1>3. Live = {}
  BY <1>1, <1>2 DEF Chain
<1>4. next[m] = Nil /\ prev[m] = Nil
  BY <1>1 DEF Shape
<1>5. Spliced(next, prev, front, back, Live, o, 1, n, m, next', prev', front', back')
  BY <1>1, <1>2, <1>3, <1>4 DEF Spliced, At
<1>6. 1 \in 1 .. n + 1 /\ next' \in [Handles -> Handles \cup {Nil}]
      /\ prev' \in [Handles -> Handles \cup {Nil}]
  BY <1>1, <1>2 DEF Shape
<1> QED BY <1>1, <1>5, <1>6, SpliceStep

\* What emplaces into the list, wherever.
Emplaces(e, m) ==
  \/ EmplaceFront(e, m) \/ EmplaceBack(e, m)
  \/ \E h \in Handles : EmplaceBefore(h, e, m) \/ EmplaceAfter(h, e, m)

\* Every emplace puts one new node somewhere into the order and leaves the loop alone.
LEMMA EmplaceStep ==
  ASSUME Shape, NEW o, NEW n, Ordered(o, n), NEW e, NEW m, Emplaces(e, m)
  PROVE  /\ Shape' /\ Live' = Live \cup {m} /\ Construct(e, m) /\ UNCHANGED loop_vars
         /\ \E k \in 1 .. n + 1 : Ordered(With(o, k, n, m), n + 1)'
<1>1. \/ EmplaceIntoEmpty(e, m)
      \/ \E h : EmplaceBefore(h, e, m) \/ EmplaceAfter(h, e, m)
  BY DEF Emplaces, EmplaceFront, EmplaceBack
<1>2. Construct(e, m) /\ UNCHANGED loop_vars
  BY <1>1 DEF EmplaceIntoEmpty, EmplaceBefore, EmplaceAfter
<1> QED BY <1>1, <1>2, BeforeStep, AfterStep, IntoEmptyStep

----------------------------------------------------------------------------
(* The links *)

\* An empty list.
LEMMA EmptyOrdered ==
  ASSUME val = [h \in Handles |-> NoElement],
         next = [h \in Handles |-> Nil], prev = [h \in Handles |-> Nil],
         front = Nil, back = Nil, num_existing = 0
  PROVE  Shape /\ Live = {} /\ Ordered(<<>>, 0)
<1>1. Live = {}
  BY DEF Live
<1>2. Shape
  BY <1>1 DEF Shape
<1>3. Cardinality(Live) = 0
  BY <1>1, FS_EmptySet
<1>4. <<>> \in [1 .. 0 -> Live]
  OBVIOUS
<1>5. LinkedAs(<<>>, 0)
  BY <1>1, <1>4 DEF LinkedAs, At
<1> QED BY <1>1, <1>2, <1>3, <1>5 DEF Ordered

\* An empty list satisfies the invariant.
LEMMA InitInv == Init => IInv
<1> SUFFICES ASSUME Init PROVE IInv
  OBVIOUS
<1>1. Shape /\ Ordered(<<>>, 0)
  BY EmptyOrdered DEF Init
<1>2. WellLinked
  BY <1>1, OrderOfLinks DEF HasOrder
<1>3. CursorThere
  BY DEF Init, CursorThere, NoCursor, Directions
<1> QED BY <1>1, <1>2, <1>3 DEF IInv

\* What an order gives: the ends and the neighbours of a node are nodes or none.
LEMMA NeighboursThere ==
  ASSUME NEW o, NEW n, Ordered(o, n)
  PROVE  /\ front \in Live \cup {Nil} /\ back \in Live \cup {Nil}
         /\ \A h \in Live : /\ next[h] \in (Live \ {h}) \cup {Nil}
                            /\ prev[h] \in (Live \ {h}) \cup {Nil}
<1>1. n \in Nat /\ Chain(next, prev, front, back, Live, o, n)
  BY OrderedChain DEF Ordered
<1>2. front \in Live \cup {Nil} /\ back \in Live \cup {Nil}
  BY <1>1 DEF Chain, At
<1>3. ASSUME NEW h \in Live
      PROVE  next[h] \in (Live \ {h}) \cup {Nil} /\ prev[h] \in (Live \ {h}) \cup {Nil}
  <2>1. PICK k \in 1 .. n : o[k] = h
    BY <1>1 DEF Chain
  <2>2. next[h] = At(o, k + 1, n) /\ prev[h] = At(o, k - 1, n)
    BY <1>1, <2>1 DEF Chain
  <2>3. At(o, k + 1, n) \in (Live \ {h}) \cup {Nil}
    BY <1>1, <2>1 DEF Chain, At
  <2>4. At(o, k - 1, n) \in (Live \ {h}) \cup {Nil}
    BY <1>1, <2>1 DEF Chain, At
  <2> QED BY <2>2, <2>3, <2>4
<1> QED BY <1>2, <1>3

\* The loop goes on to a node, or to none.
LEMMA FollowingThere ==
  IInv /\ cursor.handle # Nil => Following \in Live \cup {Nil}
<1> SUFFICES ASSUME IInv, cursor.handle # Nil PROVE Following \in Live \cup {Nil}
  OBVIOUS
<1>1. PICK o, n : Ordered(o, n)
  BY OrderOfLinks DEF IInv, HasOrder
<1> QED BY <1>1, NeighboursThere DEF IInv, CursorThere, Following

\* Only the loop's own steps and erase() through it change the cursor; any other
\* step leaves what it stands on.
LEMMA CursorStays ==
  ASSUME CursorThere, UNCHANGED cursor, NEW S, Live' = Live \cup S
  PROVE  CursorThere'
BY DEF CursorThere, Following

\* Erasing, through the loop or not, unlinks a node that is there.
LEMMA EraseIsUnlink ==
  ASSUME IInv, NEW h, (EraseCurrent /\ h = cursor.handle) \/ (h \in Handles /\ Erase(h))
  PROVE  h \in Live /\ Unlink(h) /\ Lost(h)
BY DEF EraseCurrent, Erase, IInv, CursorThere

\* Every step keeps the links in order, and the loop on a node.
LEMMA NextInv == IInv /\ [Next]_vars => IInv'
<1> SUFFICES ASSUME IInv, [Next]_vars PROVE IInv'
  OBVIOUS
<1>1. PICK o, n : Ordered(o, n)
  BY OrderOfLinks DEF IInv, HasOrder
<1>2. (WellLinked <=> HasOrder)'
  BY OrderOfLinks, PTL
<1>3. ASSUME UNCHANGED list_vars PROVE Shape' /\ WellLinked' /\ Live' = Live
  <2>1. Live' = Live
    BY <1>3 DEF list_vars, Live
  <2>2. Shape'
    BY <1>3, <2>1 DEF list_vars, IInv, Shape
  <2>3. \A p, q : LinkedAs(p, q)' <=> LinkedAs(p, q)
    BY <1>3, <2>1 DEF list_vars, LinkedAs
  <2>4. WellLinked'
    BY <2>1, <2>3 DEF IInv, WellLinked
  <2> QED BY <2>1, <2>2, <2>4
<1>4. ASSUME NEW dir \in Directions, Begin(dir) PROVE IInv'
  <2>1. front \in Live \cup {Nil} /\ back \in Live \cup {Nil}
    BY <1>1, NeighboursThere
  <2>2. UNCHANGED list_vars
    BY <1>4 DEF Begin
  <2>3. PICK h \in Live : cursor' = [NoCursor EXCEPT !.dir = dir, !.handle = h]
    BY <1>4, <2>1 DEF Begin
  <2>4. CursorThere'
    BY <1>3, <2>2, <2>3 DEF CursorThere, NoCursor, Live
  <2> QED BY <1>3, <2>2, <2>4 DEF IInv
<1>5. ASSUME Step PROVE IInv'
  <2>1. UNCHANGED list_vars /\ cursor' = StepTo(Following) /\ Following \in Live
    BY <1>5, FollowingThere DEF Step
  <2>2. cursor.dir \in Directions
    BY DEF IInv, CursorThere
  <2>3. CursorThere'
    BY <1>3, <2>1, <2>2 DEF CursorThere, NoCursor, StepTo, Live
  <2> QED BY <1>3, <2>1, <2>3 DEF IInv
<1>6. ASSUME End PROVE IInv'
  <2>1. UNCHANGED list_vars /\ cursor' = NoCursor
    BY <1>6 DEF End
  <2>2. CursorThere'
    BY <2>1 DEF CursorThere, NoCursor, Directions
  <2> QED BY <1>3, <2>1, <2>2 DEF IInv
<1>7. ASSUME NEW h, (EraseCurrent /\ h = cursor.handle) \/ (h \in Handles /\ Erase(h)) PROVE IInv'
  <2>1. h \in Live /\ Unlink(h)
    BY <1>7, EraseIsUnlink
  <2>2. /\ Shape' /\ Live' = Live \ {h}
        /\ \E k \in 1 .. n : o[k] = h /\ Ordered(Without(o, k, n), n - 1)'
    BY <1>1, <2>1, UnlinkStep DEF IInv
  <2>3. WellLinked'
    BY <1>2, <2>2 DEF HasOrder
  <2>4. CASE EraseCurrent /\ h = cursor.handle
    <3>1. next[h] \in Live' \cup {Nil} /\ prev[h] \in Live' \cup {Nil}
      BY <1>1, <2>1, <2>2, NeighboursThere
    <3>2. cursor' = [cursor EXCEPT !.just_erased = TRUE, !.next = next[h], !.prev = prev[h]]
      BY <2>4 DEF EraseCurrent, OnErase
    <3>3. Live' \subseteq Handles
      BY DEF Live
    <3>4. CursorThere'
      BY <3>1, <3>2, <3>3 DEF CursorThere, Following, IInv
    <3> QED BY <2>2, <2>3, <3>4 DEF IInv
  <2>5. CASE h \in Handles /\ Erase(h)
    <3>1. cursor' = cursor
      BY <2>5 DEF Erase
    <3>2. CursorThere'
      BY <2>2, <2>5, <3>1 DEF CursorThere, Following, IInv, Erase
    <3> QED BY <2>2, <2>3, <3>2 DEF IInv
  <2> QED BY <1>7, <2>4, <2>5
<1>8. ASSUME NEW e, NEW m, Emplaces(e, m) PROVE IInv'
  <2>1. /\ Shape' /\ Live' = Live \cup {m} /\ UNCHANGED cursor
        /\ \E k \in 1 .. n + 1 : Ordered(With(o, k, n, m), n + 1)'
    BY <1>1, <1>8, EmplaceStep DEF IInv, loop_vars
  <2>2. WellLinked'
    BY <1>2, <2>1 DEF HasOrder
  <2> QED BY <2>1, <2>2, CursorStays DEF IInv
<1>9. ASSUME Clear PROVE IInv'
  <2>1. Shape' /\ Ordered(<<>>, 0)'
    <3>1. (val = [h \in Handles |-> NoElement] /\ next = [h \in Handles |-> Nil]
            /\ prev = [h \in Handles |-> Nil] /\ front = Nil /\ back = Nil /\ num_existing = 0)'
      BY <1>9 DEF Clear
    <3> QED BY <3>1, EmptyOrdered, PTL
  <2>2. WellLinked'
    BY <1>2, <2>1 DEF HasOrder
  <2>3. CursorThere'
    BY <1>9 DEF Clear, loop_vars, CursorThere, NoCursor, Directions
  <2> QED BY <2>1, <2>2, <2>3 DEF IInv
<1>10. ASSUME UNCHANGED vars PROVE IInv'
  <2>1. UNCHANGED list_vars /\ UNCHANGED cursor
    BY <1>10 DEF vars, list_vars
  <2>2. Live' = Live \cup {}
    BY <1>3, <2>1
  <2>3. CursorThere'
    BY <2>1, <2>2, CursorStays DEF IInv
  <2> QED BY <1>3, <2>1, <2>3 DEF IInv
<1>11. Next => \/ \E dir \in Directions : Begin(dir)
               \/ Step \/ End \/ Clear
               \/ \E h : (EraseCurrent /\ h = cursor.handle) \/ (h \in Handles /\ Erase(h))
               \/ \E e, m : Emplaces(e, m)
  BY DEF Next, Emplaces
<1> QED BY <1>4, <1>5, <1>6, <1>7, <1>8, <1>9, <1>10, <1>11

\* Whatever the client emplaces, erases and loops over, the links stay in order
\* and the loop stands on a node or goes on to one.
THEOREM Invariance == Spec => []IInv
BY InitInv, NextInv, PTL DEF Spec

\* The links always form one chain from the front to the back, each node on it
\* once, the same in both directions.
THEOREM Linked == Spec => []WellLinked
<1>1. IInv => WellLinked
  BY DEF IInv
<1> QED BY <1>1, Invariance, PTL

----------------------------------------------------------------------------
(* The sequence that the links implement *)

\* The links have one order.  Those positions up to which two orders agree are a
\* range from 1; if it ended before n, the link from its end would lead both on.
LEMMA OneOrder ==
  ASSUME NEW o, NEW n, Ordered(o, n), NEW p, NEW q, Ordered(p, q)
  PROVE  n = q /\ o = p
<1>1. /\ n \in Nat /\ q = n
      /\ Chain(next, prev, front, back, Live, o, n)
      /\ Chain(next, prev, front, back, Live, p, n)
  BY OrderedChain DEF Ordered
<1> DEFINE K == {k \in 1 .. n : \A i \in 1 .. k : o[i] = p[i]}
           m == Cardinality(K)
<1>2. IsFiniteSet(1 .. n) /\ Cardinality(1 .. n) = n
  BY <1>1, FS_Interval
<1>3. K \in SUBSET (1 .. n) /\ IsFiniteSet(K) /\ m \in Nat /\ m <= n
  BY <1>2, FS_Subset, FS_CardinalityType
<1>4. ASSUME NEW k \in K PROVE k <= m
  <2>1. k \in Nat /\ 1 .. k \subseteq K
    BY <1>1
  <2>2. IsFiniteSet(1 .. k) /\ Cardinality(1 .. k) = k
    BY <1>1, FS_Interval
  <2> HIDE DEF K
  <2>3. Cardinality(1 .. k) <= Cardinality(K)
    BY <1>3, <2>1, FS_Subset
  <2> QED BY <2>2, <2>3
<1>5. K = 1 .. m
  <2> HIDE DEF K
  <2>1. K \subseteq 1 .. m
    BY <1>1, <1>3, <1>4
  <2>2. IsFiniteSet(1 .. m) /\ Cardinality(1 .. m) = m
    BY <1>3, FS_Interval
  <2> QED BY <2>1, <2>2, FS_Subset
<1>6. \A i \in 1 .. m : o[i] = p[i]
  <2>1. \A i \in 1 .. m : i \in K /\ i \in 1 .. i
    BY <1>3, <1>5
  <2> QED BY <2>1
<1>7. m = n
  <2>1. SUFFICES ASSUME m < n PROVE FALSE
    BY <1>1, <1>3
  <2>2. m + 1 \in 1 .. n
    BY <1>1, <1>3, <2>1
  <2>3. o[m + 1] = p[m + 1]
    <3>1. CASE m = 0
      BY <1>1, <2>2, <3>1 DEF Chain, At
    <3>2. CASE m # 0
      <4>1. m \in 1 .. m /\ m \in 1 .. n /\ o[m] = p[m]
        BY <1>1, <1>3, <1>6, <3>2
      <4>2. next[o[m]] = o[m + 1] /\ next[p[m]] = p[m + 1]
        BY <1>1, <2>2, <4>1 DEF Chain, At
      <4> QED BY <4>1, <4>2
    <3> QED BY <3>1, <3>2
  <2>4. \A i \in 1 .. m + 1 : o[i] = p[i]
    BY <1>3, <1>6, <2>3
  <2>5. m + 1 \in K
    BY <2>2, <2>4
  <2> HIDE DEF K
  <2> QED BY <1>3, <1>4, <2>5
<1>8. \A i \in 1 .. n : o[i] = p[i]
  BY <1>6, <1>7
<1>9. o = p
  BY <1>1, <1>8 DEF Chain
<1> QED BY <1>1, <1>9

\* The order of the links, and the values in it.
LEMMA OrderIs ==
  ASSUME NEW o, NEW n, Ordered(o, n)
  PROVE  Order = o /\ DOMAIN Order = 1 .. n /\ Values = [i \in 1 .. n |-> val[o[i]]]
<1>1. n = Cardinality(Live) /\ o \in [1 .. n -> Live] /\ LinkedAs(o, n)
  BY DEF Ordered, LinkedAs
<1>2. WellLinked
  BY OrderOfLinks DEF HasOrder
<1>3. Order \in [1 .. n -> Live] /\ LinkedAs(Order, n)
  BY <1>1 DEF Order
<1>4. Order = o
  BY <1>1, <1>3, OneOrder DEF Ordered
<1> QED BY <1>1, <1>2, <1>4 DEF Values

\* What removing from and inserting into a sequence gives, position by position.
LEMMA RemoveAtIs ==
  ASSUME NEW S, NEW s \in Seq(S), NEW k \in 1 .. Len(s)
  PROVE  RemoveAt(s, k) = [i \in 1 .. Len(s) - 1 |-> IF i < k THEN s[i] ELSE s[i + 1]]
<1> DEFINE a == SubSeq(s, 1, k - 1)
           b == SubSeq(s, k + 1, Len(s))
           n == Len(s)
<1>1. n \in Nat /\ k \in Nat /\ \A i \in 1 .. n : s[i] \in S
  BY LenProperties
<1>2. /\ a \in Seq(S) /\ Len(a) = k - 1
      /\ \A i \in 1 .. k - 1 : a[i] = s[i]
  BY <1>1, SubSeqProperties
<1>3. /\ b \in Seq(S) /\ Len(b) = n - k
      /\ \A i \in 1 .. n - k : b[i] = s[k + i]
  BY <1>1, SubSeqProperties
<1> HIDE DEF a, b
<1>4. /\ a \o b \in Seq(S) /\ Len(a \o b) = n - 1
      /\ \A i \in 1 .. n - 1 : (a \o b)[i] = IF i <= k - 1 THEN a[i] ELSE b[i - (k - 1)]
  BY <1>1, <1>2, <1>3, ConcatProperties
<1>5. a \o b = [i \in 1 .. n - 1 |-> (a \o b)[i]]
  BY <1>4, LenProperties
<1>6. \A i \in 1 .. n - 1 : (a \o b)[i] = IF i < k THEN s[i] ELSE s[i + 1]
  <2> TAKE i \in 1 .. n - 1
  <2>1. CASE i < k
    BY <1>1, <1>2, <1>4, <2>1
  <2>2. CASE i >= k
    <3>1. i - (k - 1) \in 1 .. n - k /\ k + (i - (k - 1)) = i + 1 /\ ~(i <= k - 1)
      BY <1>1, <2>2
    <3> QED BY <1>3, <1>4, <2>2, <3>1
  <2>3. i \in Int /\ k \in Int
    BY <1>1
  <2>4. i < k \/ i >= k
    BY <2>3
  <2> QED BY <2>1, <2>2, <2>4
<1>7. a \o b = [i \in 1 .. n - 1 |-> IF i < k THEN s[i] ELSE s[i + 1]]
  BY <1>5, <1>6
<1> QED BY <1>7 DEF RemoveAt, a, b

\* What inserting e at position k makes of a sequence, position by position.
LEMMA InsertAtIs ==
  ASSUME NEW S, NEW s \in Seq(S), NEW k \in 1 .. Len(s) + 1, NEW e \in S
  PROVE  InsertAt(s, k, e)
           = [i \in 1 .. Len(s) + 1 |-> IF i < k THEN s[i] ELSE IF i = k THEN e ELSE s[i - 1]]
<1> DEFINE a == SubSeq(s, 1, k - 1)
           b == SubSeq(s, k, Len(s))
           n == Len(s)
<1>1. n \in Nat /\ k \in Nat /\ \A i \in 1 .. n : s[i] \in S
  BY LenProperties
<1>2. /\ a \in Seq(S) /\ Len(a) = k - 1
      /\ \A i \in 1 .. k - 1 : a[i] = s[i]
  BY <1>1, SubSeqProperties
<1>3. /\ b \in Seq(S) /\ Len(b) = n - k + 1
      /\ \A i \in 1 .. n - k + 1 : b[i] = s[k + i - 1]
  BY <1>1, SubSeqProperties
<1> DEFINE d == <<e>>
           c == a \o d
<1>4. d \in Seq(S) /\ Len(d) = 1 /\ d[1] = e
  OBVIOUS
<1> HIDE DEF a, b, d
<1>5. /\ c \in Seq(S) /\ Len(c) = k
      /\ \A i \in 1 .. k : c[i] = IF i <= k - 1 THEN a[i] ELSE d[i - (k - 1)]
  <2>1. (k - 1) + 1 = k
    BY <1>1
  <2>2. /\ c \in Seq(S) /\ Len(c) = Len(a) + Len(d)
        /\ \A i \in 1 .. Len(a) + Len(d) :
             c[i] = IF i <= Len(a) THEN a[i] ELSE d[i - Len(a)]
    BY <1>2, <1>4, ConcatProperties
  <2> QED BY <1>2, <1>4, <2>1, <2>2
<1> HIDE DEF c
<1>6. \A i \in 1 .. k : c[i] = IF i < k THEN s[i] ELSE e
  <2> TAKE i \in 1 .. k
  <2>1. CASE i < k
    BY <1>1, <1>2, <1>5, <2>1
  <2>2. CASE i = k
    <3>1. k \in 1 .. k /\ k - (k - 1) = 1 /\ ~(k <= k - 1)
      BY <1>1
    <3> QED BY <1>4, <1>5, <2>2, <3>1
  <2>3. i < k \/ i = k
    BY <1>1
  <2> QED BY <2>1, <2>2, <2>3
<1>7. /\ c \o b \in Seq(S) /\ Len(c \o b) = n + 1
      /\ \A i \in 1 .. n + 1 : (c \o b)[i] = IF i <= k THEN c[i] ELSE b[i - k]
  <2>1. Len(c) + Len(b) = n + 1 /\ Len(c) = k
    BY <1>1, <1>3, <1>5
  <2>2. /\ c \o b \in Seq(S) /\ Len(c \o b) = Len(c) + Len(b)
        /\ \A i \in 1 .. Len(c) + Len(b) :
             (c \o b)[i] = IF i <= Len(c) THEN c[i] ELSE b[i - Len(c)]
    BY <1>3, <1>5, ConcatProperties
  <2> QED BY <2>1, <2>2
<1>8. c \o b = [i \in 1 .. n + 1 |-> (c \o b)[i]]
  BY <1>7, LenProperties
<1>9. \A i \in 1 .. n + 1 :
        (c \o b)[i] = IF i < k THEN s[i] ELSE IF i = k THEN e ELSE s[i - 1]
  <2> TAKE i \in 1 .. n + 1
  <2>1. CASE i <= k
    <3>1. i \in 1 .. k /\ i \in Nat /\ (i < k \/ i = k)
      BY <1>1, <2>1
    <3>2. (c \o b)[i] = c[i]
      BY <1>7, <2>1
    <3> QED BY <1>6, <3>1, <3>2
  <2>2. CASE i > k
    <3>1. i - k \in 1 .. n - k + 1 /\ k + (i - k) - 1 = i - 1 /\ ~(i <= k)
      BY <1>1, <2>2
    <3>2. (c \o b)[i] = s[i - 1]
      BY <1>3, <1>7, <3>1
    <3>3. ~(i < k) /\ i # k
      BY <1>1, <2>2
    <3> QED BY <3>2, <3>3
  <2>3. i <= k \/ i > k
    BY <1>1
  <2> QED BY <2>1, <2>2, <2>3
<1>10. c \o b = [i \in 1 .. n + 1 |-> IF i < k THEN s[i] ELSE IF i = k THEN e ELSE s[i - 1]]
  BY <1>8, <1>9
<1> QED BY <1>10 DEF InsertAt, a, b, c, d

\* The values of an order are a sequence of distinct elements.
LEMMA ValuesAre ==
  ASSUME Shape, NEW o, NEW n, Ordered(o, n)
  PROVE  /\ n \in Nat /\ Values \in Seq(Elements) /\ Len(Values) = n
         /\ \A i \in 1 .. n : Values[i] = val[o[i]]
         /\ Range(Values) \subseteq Contents
<1>1. Values = [i \in 1 .. n |-> val[o[i]]] /\ n \in Nat
  BY OrderIs DEF Ordered
<1>2. \A i \in 1 .. n : o[i] \in Live /\ val[o[i]] \in Elements
  <2>1. \A i \in 1 .. n : o[i] \in Live
    BY DEF Ordered, LinkedAs
  <2>2. \A g \in Live : val[g] \in Elements
    BY DEF Live, Shape
  <2> QED BY <2>1, <2>2
<1>3. Values \in [1 .. n -> Elements]
  BY <1>1, <1>2
<1>4. Values \in Seq(Elements) /\ Len(Values) = n
  BY <1>1, <1>3
<1>5. Range(Values) \subseteq Contents
  BY <1>1, <1>2 DEF Range, Contents
<1> QED BY <1>1, <1>4, <1>5

\* The same of every order, which can be said of the next state as well.
OrderGivesValues == \A o, n : Ordered(o, n) => Values = [i \in 1 .. n |-> val[o[i]]]

\* Values are the elements in any order that the links have.
LEMMA ValuesOfOrder == OrderGivesValues
BY OrderIs DEF OrderGivesValues

\* Unlinking is a removal.
LEMMA UnlinkRefines ==
  ASSUME IInv, NEW h \in Live, Unlink(h)
  PROVE  \E i \in 1 .. Len(Values) : Abstract!Erase(i)
<1>1. PICK o, n : Ordered(o, n)
  BY OrderOfLinks DEF IInv, HasOrder
<1>2. PICK k \in 1 .. n : o[k] = h /\ Ordered(Without(o, k, n), n - 1)'
  BY <1>1, UnlinkStep DEF IInv
<1>3. /\ n \in Nat /\ Values \in Seq(Elements) /\ Len(Values) = n
      /\ \A i \in 1 .. n : Values[i] = val[o[i]]
  BY <1>1, ValuesAre DEF IInv
<1>4. OrderGivesValues'
  BY ValuesOfOrder, PTL
<1>5. Values' = [i \in 1 .. n - 1 |-> val'[Without(o, k, n)[i]]]
  BY <1>2, <1>4 DEF OrderGivesValues
<1>6. ASSUME NEW i \in 1 .. n - 1
      PROVE  val'[Without(o, k, n)[i]] = IF i < k THEN Values[i] ELSE Values[i + 1]
  <2>1. \A j \in 1 .. n : o[j] \in Handles /\ (j # k => o[j] # h)
    BY <1>1, <1>2 DEF Ordered, LinkedAs, Live
  <2>2. \A g \in Handles \ {h} : val'[g] = val[g]
    BY DEF Unlink, IInv, Shape
  <2>3. CASE i < k
    <3>1. i \in 1 .. n /\ Without(o, k, n)[i] = o[i]
      BY <1>3, <2>3 DEF Without
    <3> QED BY <1>3, <2>1, <2>2, <2>3, <3>1
  <2>4. CASE ~(i < k)
    <3>1. i + 1 \in 1 .. n /\ Without(o, k, n)[i] = o[i + 1] /\ i + 1 # k
      BY <1>3, <2>4 DEF Without
    <3> QED BY <1>3, <2>1, <2>2, <2>4, <3>1
  <2> QED BY <2>3, <2>4
<1>7. Values' = [i \in 1 .. n - 1 |-> IF i < k THEN Values[i] ELSE Values[i + 1]]
  BY <1>5, <1>6
<1>8. RemoveAt(Values, k) = [i \in 1 .. n - 1 |-> IF i < k THEN Values[i] ELSE Values[i + 1]]
  BY <1>3, RemoveAtIs
<1>9. Values' = RemoveAt(Values, k)
  BY <1>7, <1>8
<1> QED BY <1>3, <1>9 DEF Abstract!Erase, Abstract!RemoveAt, RemoveAt

\* Emplacing is an insertion.
LEMMA EmplaceRefines ==
  ASSUME IInv, NEW e \in Elements, NEW m, Emplaces(e, m)
  PROVE  \E i \in 1 .. Len(Values) + 1 : Abstract!Insert(e, i)
<1>1. PICK o, n : Ordered(o, n)
  BY OrderOfLinks DEF IInv, HasOrder
<1>2. PICK k \in 1 .. n + 1 : Ordered(With(o, k, n, m), n + 1)'
  BY <1>1, EmplaceStep DEF IInv
<1>3. /\ n \in Nat /\ Values \in Seq(Elements) /\ Len(Values) = n
      /\ \A i \in 1 .. n : Values[i] = val[o[i]]
      /\ Range(Values) \subseteq Contents
  BY <1>1, ValuesAre DEF IInv
<1>4. OrderGivesValues'
  BY ValuesOfOrder, PTL
<1>5. Values' = [i \in 1 .. n + 1 |-> val'[With(o, k, n, m)[i]]]
  BY <1>2, <1>4 DEF OrderGivesValues
<1>6. Construct(e, m)
  BY <1>1, EmplaceStep DEF IInv
<1>7. ASSUME NEW i \in 1 .. n + 1
      PROVE  val'[With(o, k, n, m)[i]]
               = IF i < k THEN Values[i] ELSE IF i = k THEN e ELSE Values[i - 1]
  <2>1. \A j \in 1 .. n : o[j] \in Handles /\ o[j] # m
    <3>1. \A j \in 1 .. n : o[j] \in Live
      BY <1>1 DEF Ordered, LinkedAs
    <3>2. m \notin Live /\ Live \subseteq Handles
      BY <1>6 DEF Construct, Live
    <3> QED BY <3>1, <3>2
  <2>2. m \in Handles /\ val'[m] = e /\ \A g \in Handles \ {m} : val'[g] = val[g]
    BY <1>6 DEF Construct, IInv, Shape
  <2>3. CASE i < k
    <3>1. i \in 1 .. n /\ With(o, k, n, m)[i] = o[i]
      BY <1>3, <2>3 DEF With
    <3> QED BY <1>3, <2>1, <2>2, <2>3, <3>1
  <2>4. CASE i = k
    <3>1. With(o, k, n, m)[i] = m
      BY <2>4 DEF With
    <3> QED BY <2>2, <2>4, <3>1
  <2>5. CASE i > k
    <3>1. i - 1 \in 1 .. n /\ With(o, k, n, m)[i] = o[i - 1] /\ i # k /\ ~(i < k)
      BY <1>3, <2>5 DEF With
    <3> QED BY <1>3, <2>1, <2>2, <3>1
  <2> QED BY <1>3, <2>3, <2>4, <2>5
<1>8. Values' = [i \in 1 .. n + 1 |-> IF i < k THEN Values[i] ELSE IF i = k THEN e ELSE Values[i - 1]]
  BY <1>5, <1>7
<1>9. InsertAt(Values, k, e)
        = [i \in 1 .. n + 1 |-> IF i < k THEN Values[i] ELSE IF i = k THEN e ELSE Values[i - 1]]
  BY <1>3, InsertAtIs
<1>10. Values' = InsertAt(Values, k, e)
  BY <1>8, <1>9
<1>11. e \notin Range(Values)
  BY <1>3, <1>6 DEF Construct
<1> QED BY <1>3, <1>10, <1>11 DEF Abstract!Insert, Abstract!InsertAt, InsertAt, Abstract!Range, Range

\* An empty list is the empty sequence.
LEMMA EmptyValues == Ordered(<<>>, 0) => Values = <<>>
<1> SUFFICES ASSUME Ordered(<<>>, 0) PROVE Values = <<>>
  OBVIOUS
<1>1. Values = [i \in 1 .. 0 |-> val[<<>>[i]]]
  BY OrderIs
<1> QED BY <1>1

\* Each step of the list is a step of the sequence, or none.
LEMMA NextRefines == IInv /\ [Next]_vars => [Abstract!Next]_Values
<1> SUFFICES ASSUME IInv, [Next]_vars PROVE [Abstract!Next]_Values
  OBVIOUS
<1>1. ASSUME UNCHANGED list_vars PROVE UNCHANGED Values
  <2>1. Live' = Live
    BY <1>1 DEF list_vars, Live
  <2>2. \A p, q : LinkedAs(p, q)' <=> LinkedAs(p, q)
    BY <1>1, <2>1 DEF list_vars, LinkedAs
  <2>3. WellLinked' <=> WellLinked
    BY <2>1, <2>2 DEF WellLinked
  <2>4. Order' = Order
    BY <2>1, <2>2 DEF Order
  <2>5. val' = val
    BY <1>1 DEF list_vars
  <2> QED BY <2>3, <2>4, <2>5 DEF Values
<1>2. ASSUME Begin("forward") \/ Begin("backward") \/ Step \/ End \/ UNCHANGED vars
      PROVE  UNCHANGED Values
  BY <1>1, <1>2 DEF Begin, Step, End, vars, list_vars
<1>3. ASSUME NEW h, (EraseCurrent /\ h = cursor.handle) \/ (h \in Handles /\ Erase(h))
      PROVE  Abstract!Next
  BY <1>3, EraseIsUnlink, UnlinkRefines DEF Abstract!Next
<1>4. ASSUME NEW e \in Elements, NEW m, Emplaces(e, m) PROVE Abstract!Next
  BY <1>4, EmplaceRefines DEF Abstract!Next
<1>5. ASSUME Clear PROVE Abstract!Next
  <2>1. (val = [h \in Handles |-> NoElement] /\ next = [h \in Handles |-> Nil]
          /\ prev = [h \in Handles |-> Nil] /\ front = Nil /\ back = Nil /\ num_existing = 0)'
    BY <1>5 DEF Clear
  <2>2. Ordered(<<>>, 0)'
    BY <2>1, EmptyOrdered, PTL
  <2>3. Values' = <<>>
    <3>1. (Ordered(<<>>, 0) => Values = <<>>)'
      BY EmptyValues, PTL
    <3> QED BY <2>2, <3>1
  <2> QED BY <2>3 DEF Abstract!Next, Abstract!Clear
<1>6. Next => \/ Begin("forward") \/ Begin("backward") \/ Step \/ End \/ Clear
              \/ \E h : (EraseCurrent /\ h = cursor.handle) \/ (h \in Handles /\ Erase(h))
              \/ \E e \in Elements, m \in Handles : Emplaces(e, m)
  BY DEF Next, Emplaces, Directions
<1> QED BY <1>2, <1>3, <1>4, <1>5, <1>6

\* List implements a sequence of distinct elements, that changes by one insertion
\* or one removal at a time, or is emptied; a loop changes nothing.
THEOREM Refinement == Spec => Refines
<1>1. ASSUME Init PROVE Abstract!Init
  <2>1. Values = <<>>
    BY <1>1, EmptyOrdered, EmptyValues DEF Init
  <2> QED BY <2>1 DEF Abstract!Init
<1> QED BY <1>1, NextRefines, Invariance, PTL DEF Spec, Refines, Abstract!Spec

----------------------------------------------------------------------------
(* The loop *)

\* y is x or comes after it.
NotAfter(o, n, x, y) == \E i, j \in 1 .. n : i <= j /\ o[i] = x /\ o[j] = y

\* y is x or comes after it on the way of the loop.
Toward(o, n, x, y) ==
  IF cursor.dir = "forward" THEN NotAfter(o, n, x, y) ELSE NotAfter(o, n, y, x)

\* The nodes that lie ahead of the loop.
AheadNodes(o, n) ==
  IF cursor.just_erased
    THEN {y \in Live : Following # Nil /\ Toward(o, n, Following, y)}
    ELSE {y \in Live : Toward(o, n, cursor.handle, y) /\ y # cursor.handle}

Rest == IF Following = Nil THEN {} ELSE Ahead(Following)

\* Ahead() in terms of an order.
LEMMA AheadIs ==
  ASSUME NEW o, NEW n, Ordered(o, n), NEW x \in Live
  PROVE  Ahead(x) = {val[g] : g \in {y \in Live : Toward(o, n, x, y)}}
<1>1. Order = o /\ DOMAIN Order = 1 .. n /\ n \in Nat
  BY OrderIs DEF Ordered
<1>2. Chain(next, prev, front, back, Live, o, n)
  BY OrderedChain DEF Ordered
<1>3. ASSUME NEW g \in Live
      PROVE  /\ Position(g) \in 1 .. n /\ o[Position(g)] = g
             /\ \A i \in 1 .. n : o[i] = g => i = Position(g)
  <2>1. \E i \in 1 .. n : o[i] = g
    BY <1>2 DEF Chain
  <2>2. Position(g) \in 1 .. n /\ o[Position(g)] = g
    BY <1>1, <2>1 DEF Position
  <2> QED BY <1>2, <2>2 DEF Chain
<1>4. ASSUME NEW g \in Live, NEW h \in Live
      PROVE  Position(g) <= Position(h) <=> NotAfter(o, n, g, h)
  BY <1>3 DEF NotAfter
<1>5. \A g \in Live : Position(g) \in Int
  BY <1>3
<1>6. ASSUME NEW y \in Live
      PROVE  (IF cursor.dir = "forward" THEN Position(y) >= Position(x) ELSE Position(y) <= Position(x))
               <=> Toward(o, n, x, y)
  BY <1>4, <1>5 DEF Toward
<1> QED BY <1>6 DEF Ahead

\* What lies ahead of a node's neighbour is what lies ahead of the node, without it.
LEMMA NeighbourAhead ==
  ASSUME NEW o, NEW n, Ordered(o, n), NEW h \in Live, NEW y \in Live
  PROVE  /\ next[h] # Nil /\ NotAfter(o, n, next[h], y) <=> NotAfter(o, n, h, y) /\ y # h
         /\ prev[h] # Nil /\ NotAfter(o, n, y, prev[h]) <=> NotAfter(o, n, y, h) /\ y # h
<1>1. n \in Nat /\ Chain(next, prev, front, back, Live, o, n)
  BY OrderedChain DEF Ordered
<1>2. /\ \A i \in 1 .. n : o[i] \in Live /\ o[i] # Nil
      /\ \A i, j \in 1 .. n : o[i] = o[j] => i = j
      /\ \A g \in Live : \E i \in 1 .. n : o[i] = g
      /\ \A i \in 1 .. n : next[o[i]] = At(o, i + 1, n) /\ prev[o[i]] = At(o, i - 1, n)
  BY <1>1, LiveFinite, ChainFacts
<1>3. PICK k \in 1 .. n : o[k] = h
  BY <1>2
<1>4. PICK l \in 1 .. n : o[l] = y
  BY <1>2
<1>5. \A i \in 1 .. n : NotAfter(o, n, o[i], y) <=> i <= l
  BY <1>1, <1>2, <1>4 DEF NotAfter
<1>6. \A i \in 1 .. n : NotAfter(o, n, y, o[i]) <=> l <= i
  BY <1>1, <1>2, <1>4 DEF NotAfter
<1>7. y # h <=> l # k
  BY <1>2, <1>3, <1>4
<1>8. next[h] = At(o, k + 1, n) /\ prev[h] = At(o, k - 1, n)
  BY <1>2, <1>3
<1>9. next[h] # Nil /\ NotAfter(o, n, next[h], y) <=> k < l
  <2>1. CASE k = n
    BY <1>1, <1>8, <2>1 DEF At
  <2>2. CASE k # n
    <3>1. k + 1 \in 1 .. n /\ next[h] = o[k + 1]
      BY <1>1, <1>8, <2>2 DEF At
    <3> QED BY <1>1, <1>2, <1>5, <3>1
  <2> QED BY <2>1, <2>2
<1>10. prev[h] # Nil /\ NotAfter(o, n, y, prev[h]) <=> l < k
  <2>1. CASE k = 1
    BY <1>1, <1>8, <2>1 DEF At
  <2>2. CASE k # 1
    <3>1. k - 1 \in 1 .. n /\ prev[h] = o[k - 1]
      BY <1>1, <1>8, <2>2 DEF At
    <3> QED BY <1>1, <1>2, <1>6, <3>1
  <2> QED BY <2>1, <2>2
<1>11. (NotAfter(o, n, h, y) <=> k <= l) /\ (NotAfter(o, n, y, h) <=> l <= k)
  BY <1>3, <1>5, <1>6
<1> QED BY <1>1, <1>7, <1>9, <1>10, <1>11

\* Erasing and emplacing leave the order of the other nodes.
LEMMA WithoutKeepsOrder ==
  ASSUME NEW n \in Nat, NEW o, NEW k \in 1 .. n, NEW x, NEW y, x # o[k], y # o[k]
  PROVE  NotAfter(Without(o, k, n), n - 1, x, y) <=> NotAfter(o, n, x, y)
<1> DEFINE q == Without(o, k, n)
<1>1. \A i \in 1 .. n - 1 : q[i] = IF i < k THEN o[i] ELSE o[i + 1]
  BY DEF Without
<1> HIDE DEF q
<1>2. ASSUME NEW i \in 1 .. n - 1, NEW j \in 1 .. n - 1, i <= j, q[i] = x, q[j] = y
      PROVE  NotAfter(o, n, x, y)
  <2> DEFINE at(m) == IF m < k THEN m ELSE m + 1
  <2>1. at(i) \in 1 .. n /\ at(j) \in 1 .. n /\ at(i) <= at(j)
    BY <1>2
  <2>2. o[at(i)] = x /\ o[at(j)] = y
    BY <1>1, <1>2
  <2> HIDE DEF at
  <2> QED BY <2>1, <2>2 DEF NotAfter
<1>3. ASSUME NEW i \in 1 .. n, NEW j \in 1 .. n, i <= j, o[i] = x, o[j] = y
      PROVE  NotAfter(q, n - 1, x, y)
  <2> DEFINE to(m) == IF m < k THEN m ELSE m - 1
  <2>1. i # k /\ j # k
    BY <1>3
  <2>2. to(i) \in 1 .. n - 1 /\ to(j) \in 1 .. n - 1 /\ to(i) <= to(j)
    BY <1>3, <2>1
  <2>3. q[to(i)] = x /\ q[to(j)] = y
    BY <1>1, <1>3, <2>1, <2>2
  <2> HIDE DEF to
  <2> QED BY <2>2, <2>3 DEF NotAfter
<1> QED BY <1>2, <1>3 DEF NotAfter, q

\* A new node leaves the order of the others as it was.
LEMMA WithKeepsOrder ==
  ASSUME NEW n \in Nat, NEW o, NEW k \in 1 .. n + 1, NEW m, NEW x, NEW y, x # m, y # m
  PROVE  NotAfter(With(o, k, n, m), n + 1, x, y) <=> NotAfter(o, n, x, y)
<1> DEFINE q == With(o, k, n, m)
<1>1. \A i \in 1 .. n + 1 : q[i] = IF i < k THEN o[i] ELSE IF i = k THEN m ELSE o[i - 1]
  BY DEF With
<1> HIDE DEF q
<1>2. ASSUME NEW i \in 1 .. n + 1, NEW j \in 1 .. n + 1, i <= j, q[i] = x, q[j] = y
      PROVE  NotAfter(o, n, x, y)
  <2> DEFINE to(l) == IF l < k THEN l ELSE l - 1
  <2>1. i # k /\ j # k
    BY <1>1, <1>2
  <2>2. to(i) \in 1 .. n /\ to(j) \in 1 .. n /\ to(i) <= to(j)
    BY <1>2, <2>1
  <2>3. o[to(i)] = x /\ o[to(j)] = y
    BY <1>1, <1>2, <2>1
  <2> HIDE DEF to
  <2> QED BY <2>2, <2>3 DEF NotAfter
<1>3. ASSUME NEW i \in 1 .. n, NEW j \in 1 .. n, i <= j, o[i] = x, o[j] = y
      PROVE  NotAfter(q, n + 1, x, y)
  <2> DEFINE at(l) == IF l < k THEN l ELSE l + 1
  <2>1. at(i) \in 1 .. n + 1 /\ at(j) \in 1 .. n + 1 /\ at(i) <= at(j)
    BY <1>3
  <2>2. q[at(i)] = x /\ q[at(j)] = y
    BY <1>1, <1>3, <2>1
  <2> HIDE DEF at
  <2> QED BY <2>1, <2>2 DEF NotAfter
<1> QED BY <1>2, <1>3 DEF NotAfter, q

\* What the loop still meets are the values of the nodes ahead.
RestIsAhead ==
  IInv /\ cursor.handle # Nil =>
    /\ Following \in Live \cup {Nil}
    /\ \A o, n : Ordered(o, n) => Rest = {val[g] : g \in AheadNodes(o, n)}

\* What is still ahead of the loop, in terms of any order of the links.
LEMMA RestGiven == RestIsAhead
<1> SUFFICES ASSUME IInv, cursor.handle # Nil, NEW o, NEW n, Ordered(o, n)
             PROVE  Rest = {val[g] : g \in AheadNodes(o, n)}
  BY FollowingThere DEF RestIsAhead
<1>1. Following \in Live \cup {Nil}
  BY FollowingThere
<1>2. AheadNodes(o, n) = {y \in Live : Following # Nil /\ Toward(o, n, Following, y)}
  <2>1. CASE cursor.just_erased
    BY <2>1 DEF AheadNodes
  <2>2. CASE ~cursor.just_erased
    <3>1. cursor.handle \in Live
      BY <2>2 DEF IInv, CursorThere
    <3>2. ASSUME NEW y \in Live
          PROVE  Following # Nil /\ Toward(o, n, Following, y)
                   <=> Toward(o, n, cursor.handle, y) /\ y # cursor.handle
      BY <2>2, <3>1, NeighbourAhead DEF Following, Toward
    <3> QED BY <2>2, <3>2 DEF AheadNodes
  <2> QED BY <2>1, <2>2
<1>3. CASE Following = Nil
  BY <1>2, <1>3 DEF Rest
<1>4. CASE Following # Nil
  BY <1>1, <1>2, <1>4, AheadIs DEF Rest
<1> QED BY <1>3, <1>4

\* What has been visited is in the list, and nothing has been between loops.
VisitedThere == visited \subseteq Contents /\ (cursor.handle = Nil => visited = {})

LoopInv == IInv /\ LoopMeetsEachOnce /\ VisitedThere

\* The nodes ahead after a node has been erased.
LEMMA AheadAfterErase ==
  ASSUME IInv, cursor.handle # Nil, NEW o, NEW n, Ordered(o, n), NEW k \in 1 .. n, NEW h,
         (EraseCurrent /\ h = cursor.handle) \/ (h \in Handles /\ Erase(h)),
         o[k] = h, Live' = Live \ {h}
  PROVE  /\ AheadNodes(Without(o, k, n), n - 1)' = AheadNodes(o, n) \ {h}
         /\ cursor'.handle = cursor.handle
<1>1. n \in Nat /\ h \in Live
  BY EraseIsUnlink DEF Ordered
<1>2. \A x, y : x # h /\ y # h =>
        (NotAfter(Without(o, k, n), n - 1, x, y) <=> NotAfter(o, n, x, y))
  BY <1>1, WithoutKeepsOrder
<1>3. CASE EraseCurrent /\ h = cursor.handle
  <2>1. ~cursor.just_erased
    BY <1>3 DEF EraseCurrent
  <2>2. /\ cursor'.just_erased = TRUE
        /\ cursor'.dir = cursor.dir /\ cursor'.handle = cursor.handle
        /\ cursor'.next = next[h] /\ cursor'.prev = prev[h]
    BY <1>3 DEF EraseCurrent, OnErase, IInv, CursorThere
  <2>3. Following' = Following /\ Following # h
    <3>1. next[h] # h /\ prev[h] # h
      BY <1>1, NeighboursThere, HandlesAssumption DEF Live
    <3> QED BY <1>3, <2>1, <2>2, <3>1 DEF Following
  <2>4. ASSUME NEW y \in Live \ {h}
        PROVE  Following # Nil /\ Toward(o, n, Following, y) <=> Toward(o, n, h, y)
    BY <1>1, <1>3, <2>1, NeighbourAhead DEF Following, Toward
  <2>5. ASSUME NEW y \in Live \ {h}
        PROVE  Toward(Without(o, k, n), n - 1, Following, y)' <=> Toward(o, n, Following, y)
    BY <1>2, <2>2, <2>3 DEF Toward
  <2>6. AheadNodes(Without(o, k, n), n - 1)'
          = {y \in Live \ {h} : Following # Nil /\ Toward(o, n, Following, y)}
    BY <2>2, <2>3, <2>5 DEF AheadNodes
  <2>7. AheadNodes(o, n) = {y \in Live : Toward(o, n, h, y) /\ y # h}
    BY <1>3, <2>1 DEF AheadNodes
  <2> QED BY <2>2, <2>4, <2>6, <2>7
<1>4. CASE h \in Handles /\ Erase(h)
  <2>1. cursor' = cursor /\ h # (IF cursor.just_erased THEN Following ELSE cursor.handle)
    BY <1>4 DEF Erase
  <2>2. ASSUME NEW x, x # h, NEW y \in Live \ {h}
        PROVE  Toward(Without(o, k, n), n - 1, x, y)' <=> Toward(o, n, x, y)
    BY <1>2, <2>1, <2>2 DEF Toward
  <2>3. CASE cursor.just_erased
    <3>1. Following' = Following /\ Following # h
      BY <2>1, <2>3 DEF Following
    <3> QED BY <2>1, <2>2, <2>3, <3>1 DEF AheadNodes
  <2>4. CASE ~cursor.just_erased
    BY <2>1, <2>2, <2>4 DEF AheadNodes
  <2> QED BY <2>1, <2>3, <2>4
<1> QED BY <1>3, <1>4

\* The nodes ahead after one has been emplaced: the new one may be among them.
LEMMA AheadAfterEmplace ==
  ASSUME IInv, cursor.handle # Nil, NEW o, NEW n, Ordered(o, n), NEW k \in 1 .. n + 1,
         NEW e, NEW m, Construct(e, m), UNCHANGED cursor, Live' = Live \cup {m}
  PROVE  AheadNodes(With(o, k, n, m), n + 1)' \in {AheadNodes(o, n), AheadNodes(o, n) \cup {m}}
<1>1. n \in Nat /\ m \notin Live /\ m # Nil
  BY HandlesAssumption DEF Ordered, Construct
<1>2. \A x, y : x # m /\ y # m =>
        (NotAfter(With(o, k, n, m), n + 1, x, y) <=> NotAfter(o, n, x, y))
  BY <1>1, WithKeepsOrder
<1>3. ASSUME NEW x, x # m, NEW y \in Live
      PROVE  Toward(With(o, k, n, m), n + 1, x, y)' <=> Toward(o, n, x, y)
  BY <1>1, <1>2, <1>3 DEF Toward
<1>4. CASE cursor.just_erased
  <2>1. Following' = Following /\ Following # m
    BY <1>1, <1>4, FollowingThere DEF Following
  <2>2. ASSUME NEW y \in Live
        PROVE  y \in AheadNodes(With(o, k, n, m), n + 1)' <=> y \in AheadNodes(o, n)
    BY <1>3, <1>4, <2>1 DEF AheadNodes
  <2>3. AheadNodes(With(o, k, n, m), n + 1)' \subseteq Live \cup {m} /\ AheadNodes(o, n) \subseteq Live
    BY DEF AheadNodes
  <2> QED BY <2>2, <2>3
<1>5. CASE ~cursor.just_erased
  <2>1. cursor.handle # m
    BY <1>1, <1>5 DEF IInv, CursorThere
  <2>2. ASSUME NEW y \in Live
        PROVE  y \in AheadNodes(With(o, k, n, m), n + 1)' <=> y \in AheadNodes(o, n)
    BY <1>3, <1>5, <2>1 DEF AheadNodes
  <2>3. AheadNodes(With(o, k, n, m), n + 1)' \subseteq Live \cup {m} /\ AheadNodes(o, n) \subseteq Live
    BY DEF AheadNodes
  <2> QED BY <2>2, <2>3
<1> QED BY <1>4, <1>5

\* The property, with the name that the lemmas give to what the loop still meets.
LEMMA LoopProperty ==
  LoopMeetsEachOnce <=>
    (cursor.handle # Nil =>
       /\ Following \in Live \cup {Nil}
       /\ kept \ visited \subseteq Rest /\ Rest \cap visited = {})
BY DEF LoopMeetsEachOnce, Rest

\* At the beginning everything but the first node lies ahead.
LEMMA LoopBegins ==
  ASSUME LoopInv, NEW dir \in Directions, Begin(dir), IInv'
  PROVE  LoopInv'
<1>1. PICK o, n : Ordered(o, n)
  BY OrderOfLinks DEF LoopInv, IInv, HasOrder
<1>2. UNCHANGED list_vars /\ Live' = Live /\ Contents' = Contents /\ val' = val
  BY DEF Begin, list_vars, Live, Contents
<1>3. LinkedAs(o, n)' <=> LinkedAs(o, n)
  BY <1>2 DEF LinkedAs, list_vars
<1>4. Ordered(o, n)'
  BY <1>1, <1>2, <1>3 DEF Ordered
<1> DEFINE f == IF dir = "forward" THEN front ELSE back
<1>5. /\ f \in Live /\ visited' = {val[f]} /\ kept' = Contents
      /\ cursor' = [NoCursor EXCEPT !.dir = dir, !.handle = f]
  BY <1>1, NeighboursThere DEF Begin
<1>6. /\ cursor'.handle = f /\ cursor'.handle # Nil /\ cursor'.dir = dir
      /\ ~cursor'.just_erased
  BY <1>5, LiveFinite DEF NoCursor
<1>7. ASSUME NEW y \in Live PROVE Toward(o, n, f, y)'
  <2>1. n \in Nat /\ Chain(next, prev, front, back, Live, o, n)
    BY <1>1, OrderedChain DEF Ordered
  <2>2. PICK j \in 1 .. n : o[j] = y
    BY <2>1 DEF Chain
  <2>3. 1 \in 1 .. n /\ n \in 1 .. n /\ front = o[1] /\ back = o[n]
    BY <2>1, <2>2 DEF Chain, At
  <2>4. NotAfter(o, n, front, y) /\ NotAfter(o, n, y, back)
    BY <2>1, <2>2, <2>3 DEF NotAfter
  <2>5. f' = f
    BY <1>2 DEF list_vars
  <2> QED BY <1>6, <2>4, <2>5 DEF Toward
<1>8. AheadNodes(o, n)' = Live \ {f}
  <2>1. f' = f
    BY <1>2 DEF list_vars
  <2> HIDE DEF f
  <2> QED BY <1>2, <1>6, <1>7, <2>1 DEF AheadNodes
<1>9. RestIsAhead'
  BY RestGiven, PTL
<1>10. Following' \in Live' \cup {Nil} /\ Rest' = {val[g] : g \in Live \ {f}}
  BY <1>2, <1>4, <1>6, <1>8, <1>9 DEF RestIsAhead
<1>11. kept' \ visited' \subseteq Rest' /\ Rest' \cap visited' = {}
  BY <1>5, <1>10 DEF Contents, LoopInv, IInv, Shape
<1>12. (LoopMeetsEachOnce <=>
         (cursor.handle # Nil =>
            /\ Following \in Live \cup {Nil}
            /\ kept \ visited \subseteq Rest /\ Rest \cap visited = {}))'
  BY LoopProperty, PTL
<1>13. VisitedThere'
  BY <1>2, <1>5, <1>6 DEF VisitedThere, Contents
<1> QED BY <1>10, <1>11, <1>12, <1>13 DEF LoopInv

\* A step visits the first node ahead, which then is ahead no more.
LEMMA LoopSteps ==
  ASSUME LoopInv, Step, IInv'
  PROVE  LoopInv'
<1>1. PICK o, n : Ordered(o, n)
  BY OrderOfLinks DEF LoopInv, IInv, HasOrder
<1>2. UNCHANGED list_vars /\ Live' = Live /\ Contents' = Contents /\ val' = val
  BY DEF Step, list_vars, Live, Contents
<1>3. LinkedAs(o, n)' <=> LinkedAs(o, n)
  BY <1>2 DEF LinkedAs, list_vars
<1>4. Ordered(o, n)'
  BY <1>1, <1>2, <1>3 DEF Ordered
<1>5. /\ cursor.handle # Nil /\ Following \in Live
      /\ visited' = visited \cup {val[Following]} /\ kept' = kept
      /\ cursor' = StepTo(Following)
  BY FollowingThere DEF Step, LoopInv
<1>6. PICK x \in Live : x = Following
  BY <1>5
<1>7. /\ cursor'.handle = x /\ cursor'.handle # Nil /\ cursor'.dir = cursor.dir
      /\ ~cursor'.just_erased
  BY <1>5, <1>6, LiveFinite DEF StepTo, NoCursor
<1>8. \A y : Toward(o, n, x, y)' <=> Toward(o, n, x, y)
  BY <1>7 DEF Toward
<1>9. AheadNodes(o, n)' = {y \in Live : Toward(o, n, x, y)} \ {x}
  BY <1>2, <1>7, <1>8 DEF AheadNodes
<1>10. Rest = {val[g] : g \in {y \in Live : Toward(o, n, x, y)}}
  BY <1>1, <1>6, AheadIs, LiveFinite DEF Rest
<1>11. RestIsAhead'
  BY RestGiven, PTL
<1>12. /\ Following' \in Live' \cup {Nil}
       /\ Rest' = {val[g] : g \in {y \in Live : Toward(o, n, x, y)} \ {x}}
  BY <1>2, <1>4, <1>7, <1>9, <1>11 DEF RestIsAhead
<1>13. Rest' = Rest \ {val[x]}
  BY <1>6, <1>10, <1>12 DEF LoopInv, IInv, Shape
<1>14. kept \ visited \subseteq Rest /\ Rest \cap visited = {}
  BY <1>5, LoopProperty DEF LoopInv
<1>15. kept' \ visited' \subseteq Rest' /\ Rest' \cap visited' = {}
  BY <1>5, <1>6, <1>13, <1>14
<1>16. (LoopMeetsEachOnce <=>
         (cursor.handle # Nil =>
            /\ Following \in Live \cup {Nil}
            /\ kept \ visited \subseteq Rest /\ Rest \cap visited = {}))'
  BY LoopProperty, PTL
<1>17. VisitedThere'
  BY <1>2, <1>5, <1>7 DEF VisitedThere, Contents, LoopInv
<1> QED BY <1>12, <1>15, <1>16, <1>17 DEF LoopInv

\* An erasure takes one node from what lies ahead and from what is to be met.
LEMMA LoopErases ==
  ASSUME LoopInv, NEW h, (EraseCurrent /\ h = cursor.handle) \/ (h \in Handles /\ Erase(h)), IInv'
  PROVE  LoopInv'
<1>1. PICK o, n : Ordered(o, n)
  BY OrderOfLinks DEF LoopInv, IInv, HasOrder
<1>2. h \in Live /\ Unlink(h) /\ Lost(h)
  BY EraseIsUnlink DEF LoopInv
<1>3. /\ Live' = Live \ {h}
      /\ \E k \in 1 .. n : o[k] = h /\ Ordered(Without(o, k, n), n - 1)'
  BY <1>1, <1>2, UnlinkStep DEF LoopInv, IInv
<1>4. PICK k \in 1 .. n : o[k] = h /\ Ordered(Without(o, k, n), n - 1)'
  BY <1>3
<1>5. /\ visited' = visited \ {val[h]} /\ kept' = kept \ {val[h]}
      /\ \A g \in Live' : val'[g] = val[g]
      /\ \A g \in Live' : val[g] # val[h]
  BY <1>2, <1>3 DEF Lost, Unlink, LoopInv, IInv, Shape, Live
<1>6. VisitedThere'
  <2>1. cursor'.handle = cursor.handle
    BY DEF EraseCurrent, OnErase, Erase, LoopInv, IInv, CursorThere
  <2> QED BY <1>3, <1>5, <2>1 DEF VisitedThere, Contents, LoopInv
<1>7. CASE cursor.handle = Nil
  <2>1. cursor' = cursor
    BY <1>7 DEF EraseCurrent, Erase
  <2> QED BY <1>6, <1>7, <2>1 DEF LoopInv, LoopMeetsEachOnce
<1>8. CASE cursor.handle # Nil
  <2>1. /\ AheadNodes(Without(o, k, n), n - 1)' = AheadNodes(o, n) \ {h}
        /\ cursor'.handle # Nil
    BY <1>1, <1>3, <1>4, <1>8, AheadAfterErase DEF LoopInv
  <2>2. RestIsAhead /\ RestIsAhead'
    BY RestGiven, PTL
  <2>3. Rest = {val[g] : g \in AheadNodes(o, n)}
    BY <1>1, <1>8, <2>2 DEF RestIsAhead, LoopInv
  <2>4. /\ Following' \in Live' \cup {Nil}
        /\ Rest' = {val'[g] : g \in AheadNodes(o, n) \ {h}}
    BY <1>4, <2>1, <2>2 DEF RestIsAhead
  <2>5. AheadNodes(o, n) \ {h} \subseteq Live'
    BY <1>3 DEF AheadNodes
  <2>6. Rest' = Rest \ {val[h]}
    BY <1>5, <2>3, <2>4, <2>5
  <2>7. kept \ visited \subseteq Rest /\ Rest \cap visited = {}
    BY <1>8, LoopProperty DEF LoopInv
  <2>8. kept' \ visited' \subseteq Rest' /\ Rest' \cap visited' = {}
    BY <1>5, <2>6, <2>7
  <2>9. (LoopMeetsEachOnce <=>
          (cursor.handle # Nil =>
             /\ Following \in Live \cup {Nil}
             /\ kept \ visited \subseteq Rest /\ Rest \cap visited = {}))'
    BY LoopProperty, PTL
  <2> QED BY <1>6, <2>4, <2>8, <2>9 DEF LoopInv
<1> QED BY <1>7, <1>8

\* A new value may lie ahead, and has not been visited.
LEMMA LoopEmplaces ==
  ASSUME LoopInv, NEW e, NEW m, Emplaces(e, m), IInv'
  PROVE  LoopInv'
<1>1. PICK o, n : Ordered(o, n)
  BY OrderOfLinks DEF LoopInv, IInv, HasOrder
<1>2. /\ Live' = Live \cup {m} /\ Construct(e, m) /\ UNCHANGED loop_vars
      /\ \E k \in 1 .. n + 1 : Ordered(With(o, k, n, m), n + 1)'
  BY <1>1, EmplaceStep DEF LoopInv, IInv
<1>3. PICK k \in 1 .. n + 1 : Ordered(With(o, k, n, m), n + 1)'
  BY <1>2
<1>4. /\ visited' = visited /\ kept' = kept /\ cursor' = cursor
      /\ m \notin Live /\ e \notin Contents
      /\ val'[m] = e /\ \A g \in Live : val'[g] = val[g]
  BY <1>2 DEF loop_vars, Construct, LoopInv, IInv, Shape, Live
<1>5. VisitedThere'
  BY <1>2, <1>4 DEF VisitedThere, Contents, LoopInv
<1>6. CASE cursor.handle = Nil
  BY <1>4, <1>5, <1>6 DEF LoopInv, LoopMeetsEachOnce
<1>7. CASE cursor.handle # Nil
  <2>1. AheadNodes(With(o, k, n, m), n + 1)' \in {AheadNodes(o, n), AheadNodes(o, n) \cup {m}}
    BY <1>1, <1>2, <1>4, <1>7, AheadAfterEmplace DEF LoopInv
  <2>2. RestIsAhead /\ RestIsAhead'
    BY RestGiven, PTL
  <2>3. Rest = {val[g] : g \in AheadNodes(o, n)} /\ AheadNodes(o, n) \subseteq Live
    BY <1>1, <1>7, <2>2 DEF RestIsAhead, LoopInv, AheadNodes
  <2>4. /\ Following' \in Live' \cup {Nil}
        /\ Rest' = {val'[g] : g \in AheadNodes(With(o, k, n, m), n + 1)'}
    BY <1>3, <1>4, <1>7, <2>2 DEF RestIsAhead
  <2>5. Rest \subseteq Rest' /\ Rest' \subseteq Rest \cup {e}
    BY <1>4, <2>1, <2>3, <2>4
  <2>6. kept \ visited \subseteq Rest /\ Rest \cap visited = {}
    BY <1>7, LoopProperty DEF LoopInv
  <2>7. kept' \ visited' \subseteq Rest' /\ Rest' \cap visited' = {}
    BY <1>4, <2>5, <2>6 DEF LoopInv, VisitedThere
  <2>8. (LoopMeetsEachOnce <=>
          (cursor.handle # Nil =>
             /\ Following \in Live \cup {Nil}
             /\ kept \ visited \subseteq Rest /\ Rest \cap visited = {}))'
    BY LoopProperty, PTL
  <2> QED BY <1>5, <2>4, <2>7, <2>8 DEF LoopInv
<1> QED BY <1>6, <1>7

\* A loop in either direction, whose body erases and emplaces anywhere, meets each
\* element that stays in the list, and none twice.
THEOREM LoopsMeetEachOnce == Spec => []LoopMeetsEachOnce
<1>1. Init => LoopInv
  BY InitInv DEF Init, LoopInv, LoopMeetsEachOnce, NoCursor, VisitedThere
<1>2. LoopInv /\ [Next]_vars => LoopInv'
  <2> SUFFICES ASSUME LoopInv, [Next]_vars PROVE LoopInv'
    OBVIOUS
  <2>1. IInv'
    BY NextInv DEF LoopInv
  <2>2. CASE End \/ Clear
    <3>1. cursor'.handle = Nil /\ visited' = {}
      BY <2>2 DEF End, Clear, NoCursor, loop_vars, LoopInv, VisitedThere
    <3> QED BY <2>1, <3>1 DEF LoopInv, LoopMeetsEachOnce, VisitedThere
  <2>3. CASE UNCHANGED vars
    <3>1. Live' = Live /\ Contents' = Contents /\ Following' = Following
      BY <2>3 DEF vars, Live, Contents, Following
    <3>2. \A p, q : LinkedAs(p, q)' <=> LinkedAs(p, q)
      BY <2>3, <3>1 DEF vars, LinkedAs
    <3>3. Order' = Order
      BY <3>1, <3>2 DEF Order
    <3>4. \A h : Position(h)' = Position(h)
      BY <3>3 DEF Position
    <3>5. \A h : Ahead(h)' = Ahead(h)
      BY <2>3, <3>1, <3>4 DEF vars, Ahead
    <3>6. LoopMeetsEachOnce'
      BY <2>3, <3>1, <3>5 DEF vars, LoopInv, LoopMeetsEachOnce
    <3>7. VisitedThere'
      BY <2>3, <3>1 DEF vars, LoopInv, VisitedThere
    <3> QED BY <2>1, <3>6, <3>7 DEF LoopInv
  <2>4. Next => \/ \E dir \in Directions : Begin(dir)
                \/ Step \/ End \/ Clear
                \/ \E h : (EraseCurrent /\ h = cursor.handle) \/ (h \in Handles /\ Erase(h))
                \/ \E e, m : Emplaces(e, m)
    BY DEF Next, Emplaces
  <2> QED BY <2>1, <2>2, <2>3, <2>4, LoopBegins, LoopSteps, LoopErases, LoopEmplaces
<1>3. LoopInv => LoopMeetsEachOnce
  BY DEF LoopInv
<1> QED BY <1>1, <1>2, <1>3, PTL DEF Spec
==========================================================================
