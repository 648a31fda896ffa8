---------------------- MODULE ArrayAllocatorProofs ----------------------
(***************************************************************************)
(* Theorems about Array_Allocator, for every set of objects and every      *)
(* bound.  The inductive invariant joins the types, the correspondence of  *)
(* handles and slots, and the one fact about the count that survives a     *)
(* shrinking resize: it never falls below the constructed slots.           *)
(***************************************************************************)
EXTENDS ArrayAllocator, FiniteSetTheorems, TLAPS

\* num_existing never counts fewer elements than the block holds.
CountCovers == Cardinality(Constructed(slot, domain)) <= num_existing

IInv == TypeOK /\ HandlesResolve /\ CountCovers

----------------------------------------------------------------------------
(* The block *)

\* The constructed slots of a block are finitely many slots of the block.
LEMMA ConstructedFinite ==
  ASSUME NEW s, NEW n \in Int
  PROVE  /\ IsFiniteSet(Constructed(s, n))
         /\ Cardinality(Constructed(s, n)) \in Nat
         /\ Constructed(s, n) \subseteq 0 .. n - 1
<1>1. Constructed(s, n) \subseteq 0 .. n - 1
  BY DEF Constructed
<1>2. IsFiniteSet(0 .. n - 1)
  BY FS_Interval
<1>3. IsFiniteSet(Constructed(s, n))
  BY <1>1, <1>2, FS_Subset
<1> QED BY <1>1, <1>3, FS_CardinalityType

\* A block of n slots has n of them.
LEMMA SlotCount ==
  ASSUME NEW n \in Nat
  PROVE  IsFiniteSet(0 .. n - 1) /\ Cardinality(0 .. n - 1) = n
BY FS_Interval

\* Some of the n slots of a block are at most n.
LEMMA SomeSlotsCount ==
  ASSUME NEW n \in Nat, NEW D, D \subseteq 0 .. n - 1
  PROVE  Cardinality(D) \in Nat /\ Cardinality(D) <= n
<1>1. IsFiniteSet(0 .. n - 1) /\ Cardinality(0 .. n - 1) = n
  BY SlotCount
<1> QED BY <1>1, FS_Subset, FS_CardinalityType

\* One more element counts at most one more, one element less exactly one less.
LEMMA CountSteps ==
  ASSUME NEW S, IsFiniteSet(S), NEW x
  PROVE  /\ Cardinality(S \cup {x}) <= Cardinality(S) + 1
         /\ x \in S => Cardinality(S \ {x}) = Cardinality(S) - 1
         /\ Cardinality(S \cup {x}) \in Nat /\ Cardinality(S) \in Nat
<1>1. Cardinality(S) \in Nat
  BY FS_CardinalityType
<1>2. /\ IsFiniteSet(S \cup {x})
      /\ Cardinality(S \cup {x}) = IF x \in S THEN Cardinality(S) ELSE Cardinality(S) + 1
  BY FS_AddElement
<1>3. Cardinality(S \ {x}) = IF x \in S THEN Cardinality(S) - 1 ELSE Cardinality(S)
  BY FS_RemoveElement
<1> QED BY <1>1, <1>2, <1>3

\* Resizing yields a block of the new size.
LEMMA ResizedType ==
  ASSUME NEW old \in Nat, NEW new \in Nat,
         NEW s \in [0 .. old - 1 -> Objects \cup {NoObject}]
  PROVE  Resized(s, old, new) \in [0 .. new - 1 -> Objects \cup {NoObject}]
BY DEF Resized

\* Growing a block constructs and destroys nothing.
LEMMA GrowKeepsConstructed ==
  ASSUME NEW old \in Nat, NEW new \in Nat, old <= new,
         NEW s \in [0 .. old - 1 -> Objects \cup {NoObject}]
  PROVE  Constructed(Resized(s, old, new), new) = Constructed(s, old)
BY DEF Resized, Constructed

\* Shrinking a block keeps the constructed slots below the new size.
LEMMA ShrinkKeepsPrefix ==
  ASSUME NEW old \in Nat, NEW new \in Nat, new < old,
         NEW s \in [0 .. old - 1 -> Objects \cup {NoObject}]
  PROVE  Constructed(Resized(s, old, new), new) \subseteq Constructed(s, old)
BY DEF Resized, Constructed

\* construct() never makes the block smaller.
LEMMA GrownDomainType ==
  ASSUME domain \in Nat
  PROVE  GrownDomain \in Nat /\ GrownDomain >= domain
BY DEF GrownDomain

----------------------------------------------------------------------------
(* Types *)

\* IndexOf finds a place of f that holds x, or returns the invalid handle.
LEMMA IndexOfType ==
  ASSUME NEW f, NEW x
  PROVE  /\ x \in Range(f) => IndexOf(f, x) \in DOMAIN f /\ f[IndexOf(f, x)] = x
         /\ x \notin Range(f) => IndexOf(f, x) = NoHandle
BY DEF IndexOf, Range

\* The constructors give the block and the handles their types.
LEMMA InitType == Init => TypeOK
<1> SUFFICES ASSUME Init PROVE TypeOK
  OBVIOUS
<1> USE ObjectsAssumption DEF TypeOK
<1>1. CASE InitEmpty
  <2>1. slot \in [0 .. domain - 1 -> Objects \cup {NoObject}]
    BY <1>1, 0 .. 0 - 1 = {} DEF InitEmpty
  <2>2. handle \in [Objects -> Nat \cup {NoHandle}]
    BY <1>1 DEF InitEmpty
  <2>3. domain \in Nat /\ num_existing \in Int /\ lookup_index \in Nat
    BY <1>1 DEF InitEmpty
  <2>4. aborted \in BOOLEAN
    BY <1>1 DEF InitEmpty
  <2> QED BY <2>1, <2>2, <2>3, <2>4
<1>2. ASSUME NEW n \in 1 .. MaxRequest, InitFilled(n) PROVE TypeOK
  <2>1. slot \in [0 .. n - 1 -> Objects]
    BY <1>2 DEF InitFilled, Injection
  <2>2. \A o \in Objects : IndexOf(slot, o) \in Nat \cup {NoHandle}
    BY <2>1, IndexOfType
  <2>3. domain = n /\ num_existing = n /\ lookup_index = n /\ aborted = FALSE
    BY <1>2 DEF InitFilled
  <2>4. handle \in [Objects -> Nat \cup {NoHandle}]
    BY <1>2, <2>2 DEF InitFilled
  <2>5. domain \in Nat /\ num_existing \in Int /\ lookup_index \in Nat
    BY <2>3
  <2>6. slot \in [0 .. domain - 1 -> Objects \cup {NoObject}]
    BY <2>1, <2>3
  <2>7. aborted \in BOOLEAN
    BY <2>3
  <2> QED BY <2>4, <2>5, <2>6, <2>7
<1> QED BY <1>1, <1>2 DEF Init

\* Every operation keeps the types.
LEMMA NextType == TypeOK /\ [Next]_vars => TypeOK'
<1> SUFFICES ASSUME TypeOK, [Next]_vars PROVE TypeOK'
  OBVIOUS
<1> USE ObjectsAssumption DEF TypeOK, NoHandle
<1>1. ASSUME NEW o \in Objects, Construct(o) PROVE TypeOK'
  <2> DEFINE n == GrownDomain
             s == Resized(slot, domain, n)
  <2>1. n \in Nat /\ s \in [0 .. n - 1 -> Objects \cup {NoObject}]
    BY GrownDomainType, ResizedType
  <2>2. PICK h \in 0 .. n - 1 : /\ slot' = [s EXCEPT ![h] = o]
                                /\ handle' = [handle EXCEPT ![o] = h]
                                /\ lookup_index' = NextLookup(h, n)
    BY <1>1 DEF Construct
  <2>3. lookup_index' \in Nat
    BY <2>1, <2>2 DEF NextLookup
  <2> HIDE DEF s, n
  <2>4. domain' = n /\ num_existing' = num_existing + 1 /\ aborted' = aborted
    BY <1>1 DEF Construct, n
  <2> QED BY <2>1, <2>2, <2>3, <2>4
<1>2. ASSUME NEW o \in Objects, Destruct(o) PROVE TypeOK'
  <2>1. slot' \in [0 .. domain - 1 -> Objects \cup {NoObject}]
    BY <1>2 DEF Destruct
  <2>2. handle' \in [Objects -> Nat \cup {NoHandle}]
    BY <1>2 DEF Destruct
  <2>3. num_existing' \in Int /\ UNCHANGED <<domain, lookup_index, aborted>>
    BY <1>2 DEF Destruct
  <2> QED BY <2>1, <2>2, <2>3
<1>3. CASE ConstructOutOfBounds
  BY <1>3, GrownDomainType, ResizedType DEF ConstructOutOfBounds
<1>4. ASSUME NEW n \in 0 .. MaxRequest, Reserve(n) PROVE TypeOK'
  BY <1>4, ResizedType DEF Reserve
<1>5. ASSUME NEW n \in 0 .. MaxRequest, Shrink(n) PROVE TypeOK'
  <2>1. slot' \in [0 .. domain' - 1 -> Objects \cup {NoObject}]
    BY <1>5, ResizedType DEF Shrink
  <2> QED BY <1>5, <2>1 DEF Shrink
<1>6. ASSUME NEW n \in 0 .. MaxRequest, Extend(n) PROVE TypeOK'
  <2>1. PICK new \in Injection(domain .. n - 1, {o \in Objects : handle[o] = NoHandle}) :
          /\ slot' = [i \in 0 .. n - 1 |-> IF i < domain THEN slot[i] ELSE new[i]]
          /\ handle' = [o \in Objects |->
                          IF o \in Range(new) THEN IndexOf(new, o) ELSE handle[o]]
    BY <1>6 DEF Extend
  <2>2. domain' = n /\ num_existing' = num_existing + (n - domain)
        /\ lookup_index' = lookup_index /\ aborted' = aborted
    BY <1>6 DEF Extend
  <2>3. new \in [domain .. n - 1 -> Objects]
    BY DEF Injection
  <2>4. slot' \in [0 .. n - 1 -> Objects \cup {NoObject}]
    BY <2>1, <2>3
  <2>5. \A o \in Range(new) : IndexOf(new, o) \in Nat
    BY <2>3, IndexOfType
  <2>6. handle' \in [Objects -> Nat \cup {NoHandle}]
    BY <2>1, <2>5
  <2> QED BY <2>2, <2>4, <2>6
<1>7. CASE Compact
  <2> DEFINE n == Cardinality(Constructed(slot, domain))
  <2>1. PICK from \in Compaction(slot, domain) :
          /\ domain' = n
          /\ slot' = [k \in 0 .. n - 1 |-> slot[from[k]]]
          /\ handle' = [o \in Objects |-> IndexOf(from, handle[o])]
    BY <1>7 DEF Compact
  <2>2. n \in Nat
    BY ConstructedFinite
  <2>3. from \in [0 .. n - 1 -> 0 .. domain - 1]
    BY ConstructedFinite DEF Compaction
  <2>4. \A h : IndexOf(from, h) \in Nat \cup {NoHandle}
    BY <2>2, <2>3, IndexOfType
  <2> HIDE DEF n
  <2>5. slot' \in [0 .. n - 1 -> Objects \cup {NoObject}]
    BY <2>1, <2>3
  <2> QED BY <1>7, <2>1, <2>2, <2>4, <2>5 DEF Compact
<1>8. CASE UNCHANGED vars
  BY <1>8 DEF vars
<1> QED BY <1>1, <1>2, <1>3, <1>4, <1>5, <1>6, <1>7, <1>8 DEF Next

\* Every variable of the allocator keeps its type.
THEOREM TypeCorrect == Spec => []TypeOK
BY InitType, NextType, PTL DEF Spec

----------------------------------------------------------------------------
(* Handles and the count *)

\* An injective function is inverted by IndexOf.
LEMMA IndexOfInjective ==
  ASSUME NEW f, IsInjective(f), NEW i \in DOMAIN f
  PROVE  IndexOf(f, f[i]) = i
BY DEF IndexOf, IsInjective, Range

\* The constructors establish the invariant.
LEMMA InitInvariant == Init => IInv
<1> SUFFICES ASSUME Init PROVE HandlesResolve /\ CountCovers
  BY InitType DEF IInv
<1>1. CASE InitEmpty
  <2>1. Constructed(slot, domain) = {}
    BY <1>1 DEF InitEmpty, Constructed
  <2> QED BY <1>1, <2>1, FS_EmptySet DEF InitEmpty, HandlesResolve, CountCovers
<1>2. ASSUME NEW n \in 1 .. MaxRequest, InitFilled(n)
      PROVE HandlesResolve /\ CountCovers
  <2>1. /\ slot \in [0 .. n - 1 -> Objects] /\ IsInjective(slot)
        /\ domain = n /\ num_existing = n
        /\ handle = [o \in Objects |-> IndexOf(slot, o)]
    BY <1>2 DEF InitFilled, Injection
  <2>2. HandlesResolve
    <3>1. \A o \in Objects :
            handle[o] # NoHandle => handle[o] < domain /\ slot[handle[o]] = o
      BY <2>1, IndexOfType
    <3>2. \A i \in Constructed(slot, domain) : handle[slot[i]] = i
      BY <2>1, IndexOfInjective DEF Constructed
    <3> QED BY <3>1, <3>2 DEF HandlesResolve
  <2>3. Cardinality(Constructed(slot, domain)) <= n
    <3>1. Constructed(slot, domain) \subseteq 0 .. n - 1
      BY <2>1 DEF Constructed
    <3>2. IsFiniteSet(0 .. n - 1) /\ Cardinality(0 .. n - 1) = n
      BY FS_Interval
    <3> QED BY <3>1, <3>2, FS_Subset
  <2> QED BY <2>1, <2>2, <2>3 DEF CountCovers
<1> QED BY <1>1, <1>2 DEF Init

\* One step preserves the invariant, action by action.
LEMMA ConstructInvariant ==
  ASSUME IInv, TypeOK', NEW o \in Objects, Construct(o)
  PROVE  HandlesResolve' /\ CountCovers'
<1> USE ObjectsAssumption DEF IInv, TypeOK
<1> DEFINE n == GrownDomain
           s == Resized(slot, domain, n)
<1>1. n \in Nat /\ n >= domain
  BY GrownDomainType
<1>2. s \in [0 .. n - 1 -> Objects \cup {NoObject}]
  BY <1>1, ResizedType
<1>3. Constructed(s, n) = Constructed(slot, domain)
  BY <1>1, GrowKeepsConstructed
<1>4. PICK h \in 0 .. n - 1 : /\ IsFirstHole(h, s, n)
                              /\ slot' = [s EXCEPT ![h] = o]
                              /\ handle' = [handle EXCEPT ![o] = h]
  BY DEF Construct
<1>5. domain' = n /\ num_existing' = num_existing + 1 /\ handle[o] = NoHandle
  BY DEF Construct
<1>6. s[h] = NoObject
  BY <1>4 DEF IsFirstHole, Holes
<1>7. \A i \in 0 .. domain - 1 : s[i] = slot[i]
  BY <1>1 DEF Resized
<1> HIDE DEF n, s
<1>8. Constructed(slot', domain') = Constructed(slot, domain) \cup {h}
  <2>1. Constructed(slot', n) = Constructed(s, n) \cup {h}
    BY <1>1, <1>2, <1>4 DEF Constructed
  <2> QED BY <1>3, <1>5, <2>1
<1>9. HandlesResolve'
  <2>1. ASSUME NEW p \in Objects, handle'[p] # NoHandle
        PROVE  handle'[p] < domain' /\ slot'[handle'[p]] = p
    <3>1. CASE p = o
      BY <1>2, <1>4, <1>5, <3>1
    <3>2. CASE p # o
      <4>1. handle'[p] = handle[p]
        BY <1>4, <3>2
      <4>2. handle[p] \in 0 .. domain - 1 /\ slot[handle[p]] = p
        BY <2>1, <4>1 DEF HandlesResolve, NoHandle
      <4>3. handle[p] # h
        BY <1>6, <1>7, <4>2
      <4> QED BY <1>1, <1>2, <1>4, <1>5, <1>7, <4>1, <4>2, <4>3
    <3> QED BY <3>1, <3>2
  <2>2. ASSUME NEW i \in Constructed(slot', domain')
        PROVE  handle'[slot'[i]] = i
    <3>1. CASE i = h
      BY <1>2, <1>4, <3>1
    <3>2. CASE i # h
      <4>1. i \in Constructed(slot, domain) /\ i \in 0 .. domain - 1
        BY <1>8, <2>2, <3>2 DEF Constructed
      <4>2. slot'[i] = slot[i] /\ slot[i] \in Objects
        BY <1>1, <1>2, <1>4, <1>7, <3>2, <4>1 DEF Constructed
      <4>3. handle[slot[i]] = i
        BY <4>1 DEF HandlesResolve
      <4>4. slot[i] # o
        BY <1>5, <4>1, <4>3 DEF NoHandle
      <4> QED BY <1>4, <4>2, <4>3, <4>4
    <3> QED BY <3>1, <3>2
  <2> QED BY <2>1, <2>2 DEF HandlesResolve
<1>10. CountCovers'
  <2>1. IsFiniteSet(Constructed(slot, domain))
    BY ConstructedFinite
  <2>2. Cardinality(Constructed(slot', domain')) <= Cardinality(Constructed(slot, domain)) + 1
    BY <1>8, <2>1, CountSteps
  <2>3. Cardinality(Constructed(slot', domain')) \in Nat
        /\ Cardinality(Constructed(slot, domain)) \in Nat
    BY <1>8, <2>1, CountSteps
  <2>4. Cardinality(Constructed(slot, domain)) <= num_existing
    BY DEF CountCovers
  <2>5. num_existing \in Int
    OBVIOUS
  <2> QED BY <1>5, <2>2, <2>3, <2>4, <2>5 DEF CountCovers
<1> QED BY <1>9, <1>10

\* destruct() keeps the invariant: it takes one element and counts one out.
LEMMA DestructInvariant ==
  ASSUME IInv, TypeOK', NEW o \in Objects, Destruct(o)
  PROVE  HandlesResolve' /\ CountCovers'
<1> USE ObjectsAssumption DEF IInv, TypeOK
<1> DEFINE h == handle[o]
<1>1. /\ h # NoHandle /\ domain' = domain /\ num_existing' = num_existing - 1
      /\ slot' = [slot EXCEPT ![h] = NoObject]
      /\ handle' = [handle EXCEPT ![o] = NoHandle]
  BY DEF Destruct
<1>2. h \in 0 .. domain - 1 /\ slot[h] = o
  BY <1>1 DEF HandlesResolve, NoHandle
<1>3. h \in Constructed(slot, domain)
  BY <1>2 DEF Constructed
<1>4. Constructed(slot', domain') = Constructed(slot, domain) \ {h}
  BY <1>1, <1>2 DEF Constructed
<1>5. HandlesResolve'
  <2>1. ASSUME NEW p \in Objects, handle'[p] # NoHandle
        PROVE  handle'[p] < domain' /\ slot'[handle'[p]] = p
    <3>1. p # o /\ handle'[p] = handle[p]
      BY <1>1, <2>1
    <3>2. handle[p] \in 0 .. domain - 1 /\ slot[handle[p]] = p
      BY <2>1, <3>1 DEF HandlesResolve, NoHandle
    <3>3. handle[p] # h
      BY <1>2, <3>1, <3>2
    <3> QED BY <1>1, <3>1, <3>2, <3>3
  <2>2. ASSUME NEW i \in Constructed(slot', domain')
        PROVE  handle'[slot'[i]] = i
    <3>1. i \in Constructed(slot, domain) /\ i # h /\ i \in 0 .. domain - 1
      BY <1>4, <2>2 DEF Constructed
    <3>2. slot'[i] = slot[i] /\ slot[i] \in Objects /\ handle[slot[i]] = i
      BY <1>1, <3>1 DEF HandlesResolve, Constructed
    <3>3. slot[i] # o
      BY <3>1, <3>2
    <3> QED BY <1>1, <3>2, <3>3
  <2> QED BY <2>1, <2>2 DEF HandlesResolve
<1>6. CountCovers'
  <2>1. IsFiniteSet(Constructed(slot, domain))
    BY ConstructedFinite
  <2>2. Cardinality(Constructed(slot', domain')) = Cardinality(Constructed(slot, domain)) - 1
    BY <1>3, <1>4, <2>1, CountSteps
  <2>3. Cardinality(Constructed(slot, domain)) \in Nat
    BY <2>1, CountSteps
  <2>4. Cardinality(Constructed(slot, domain)) <= num_existing /\ num_existing \in Int
    BY DEF CountCovers
  <2> QED BY <1>1, <2>2, <2>3, <2>4 DEF CountCovers
<1> QED BY <1>5, <1>6

\* Growing the block alone (reserve, or the growth before a failing search).
LEMMA GrowInvariant ==
  ASSUME IInv, TypeOK', NEW n \in Nat, n >= domain,
         domain' = n, slot' = Resized(slot, domain, n),
         UNCHANGED <<num_existing, handle>>
  PROVE  HandlesResolve' /\ CountCovers'
<1> USE DEF IInv, TypeOK
<1>1. Constructed(slot', domain') = Constructed(slot, domain)
  BY GrowKeepsConstructed
<1>2. \A i \in 0 .. domain - 1 : slot'[i] = slot[i]
  BY DEF Resized
<1>3. HandlesResolve'
  <2>1. ASSUME NEW p \in Objects, handle'[p] # NoHandle
        PROVE  handle'[p] < domain' /\ slot'[handle'[p]] = p
    <3>1. handle[p] \in 0 .. domain - 1 /\ slot[handle[p]] = p
      BY <2>1 DEF HandlesResolve, NoHandle
    <3> QED BY <1>2, <3>1
  <2>2. ASSUME NEW i \in Constructed(slot', domain') PROVE handle'[slot'[i]] = i
    BY <1>1, <1>2, <2>2 DEF HandlesResolve, Constructed
  <2> QED BY <2>1, <2>2 DEF HandlesResolve
<1>4. CountCovers'
  BY <1>1 DEF CountCovers
<1> QED BY <1>3, <1>4

\* A shrinking resize() keeps the invariant, though not the count exact.
LEMMA ShrinkInvariant ==
  ASSUME IInv, TypeOK', NEW n \in Nat, Shrink(n)
  PROVE  HandlesResolve' /\ CountCovers'
<1> USE DEF IInv, TypeOK
<1>1. /\ n < domain /\ domain' = n /\ slot' = Resized(slot, domain, n)
      /\ handle' = [o \in Objects |-> IF handle[o] < n THEN handle[o] ELSE NoHandle]
      /\ num_existing' = num_existing
  BY DEF Shrink
<1>2. \A i \in 0 .. n - 1 : slot'[i] = slot[i]
  BY <1>1 DEF Resized
<1>3. Constructed(slot', domain') \subseteq Constructed(slot, domain)
  BY <1>1, ShrinkKeepsPrefix
<1>4. HandlesResolve'
  <2>1. ASSUME NEW p \in Objects, handle'[p] # NoHandle
        PROVE  handle'[p] < domain' /\ slot'[handle'[p]] = p
    <3>1. handle'[p] = handle[p] /\ handle[p] < n
      BY <1>1, <2>1
    <3>2. handle[p] \in 0 .. n - 1 /\ slot[handle[p]] = p
      BY <1>1, <2>1, <3>1 DEF HandlesResolve, NoHandle
    <3> QED BY <1>1, <1>2, <3>1, <3>2
  <2>2. ASSUME NEW i \in Constructed(slot', domain') PROVE handle'[slot'[i]] = i
    <3>1. i \in 0 .. n - 1 /\ i \in Constructed(slot, domain)
      BY <1>1, <1>3, <2>2 DEF Constructed
    <3>2. slot'[i] = slot[i] /\ slot[i] \in Objects /\ handle[slot[i]] = i
      BY <1>1, <1>2, <3>1 DEF HandlesResolve, Constructed
    <3> QED BY <1>1, <3>1, <3>2
  <2> QED BY <2>1, <2>2 DEF HandlesResolve
<1>5. CountCovers'
  <2>1. Cardinality(Constructed(slot', domain')) <= Cardinality(Constructed(slot, domain))
    BY <1>3, ConstructedFinite, FS_Subset
  <2>2. Cardinality(Constructed(slot', domain')) \in Nat
        /\ Cardinality(Constructed(slot, domain)) \in Nat
    BY ConstructedFinite
  <2> QED BY <1>1, <2>1, <2>2 DEF CountCovers
<1> QED BY <1>4, <1>5

\* A growing resize() keeps the invariant: it counts what it constructs.
LEMMA ExtendInvariant ==
  ASSUME IInv, TypeOK', NEW n \in Nat, Extend(n)
  PROVE  HandlesResolve' /\ CountCovers'
<1> USE ObjectsAssumption DEF IInv, TypeOK
<1> DEFINE dead == {o \in Objects : handle[o] = NoHandle}
<1>1. n > domain /\ domain' = n /\ num_existing' = num_existing + (n - domain)
  BY DEF Extend
<1>2. PICK new \in Injection(domain .. n - 1, dead) :
        /\ slot' = [i \in 0 .. n - 1 |-> IF i < domain THEN slot[i] ELSE new[i]]
        /\ handle' = [o \in Objects |->
                        IF o \in Range(new) THEN IndexOf(new, o) ELSE handle[o]]
  BY DEF Extend
<1>3. new \in [domain .. n - 1 -> dead] /\ IsInjective(new)
  BY DEF Injection
<1>4. \A i \in domain .. n - 1 : IndexOf(new, new[i]) = i /\ new[i] \in Range(new)
  BY <1>3, IndexOfInjective DEF Range
<1>5. \A o \in Range(new) : IndexOf(new, o) \in domain .. n - 1 /\ new[IndexOf(new, o)] = o
  BY <1>3, IndexOfType
<1>6. \A o \in Range(new) : o \in Objects /\ handle[o] = NoHandle
  BY <1>3 DEF Range
<1>7. HandlesResolve'
  <2>1. ASSUME NEW p \in Objects, handle'[p] # NoHandle
        PROVE  handle'[p] < domain' /\ slot'[handle'[p]] = p
    <3>1. CASE p \in Range(new)
      BY <1>1, <1>2, <1>5, <3>1
    <3>2. CASE p \notin Range(new)
      <4>1. handle'[p] = handle[p]
        BY <1>2, <3>2
      <4>2. handle[p] \in 0 .. domain - 1 /\ slot[handle[p]] = p
        BY <2>1, <4>1 DEF HandlesResolve, NoHandle
      <4> QED BY <1>1, <1>2, <4>1, <4>2
    <3> QED BY <3>1, <3>2
  <2>2. ASSUME NEW i \in Constructed(slot', domain') PROVE handle'[slot'[i]] = i
    <3>1. i \in 0 .. n - 1
      BY <1>1, <2>2 DEF Constructed
    <3>2. CASE i < domain
      <4>1. i \in Constructed(slot, domain) /\ slot'[i] = slot[i] /\ slot[i] \in Objects
        BY <1>1, <1>2, <2>2, <3>1, <3>2 DEF Constructed
      <4>2. handle[slot[i]] = i
        BY <4>1 DEF HandlesResolve
      <4>3. slot[i] \notin Range(new)
        BY <1>6, <3>1, <4>2 DEF NoHandle
      <4> QED BY <1>2, <4>1, <4>2, <4>3
    <3>3. CASE ~(i < domain)
      <4>1. i \in domain .. n - 1 /\ slot'[i] = new[i]
        BY <1>1, <1>2, <3>1, <3>3
      <4> QED BY <1>2, <1>4, <1>6, <4>1
    <3> QED BY <3>2, <3>3
  <2> QED BY <2>1, <2>2 DEF HandlesResolve
<1>8. CountCovers'
  <2> DEFINE C == Constructed(slot, domain)
             D == domain .. n - 1
  <2>1. Constructed(slot', domain') \subseteq C \cup D
    BY <1>1, <1>2 DEF Constructed
  <2>2. IsFiniteSet(C) /\ Cardinality(C) \in Nat
    BY ConstructedFinite
  <2>3. IsFiniteSet(D) /\ Cardinality(D) = n - domain
    BY <1>1, FS_Interval
  <2>4. Cardinality(C) <= num_existing
    BY DEF CountCovers
  <2> HIDE DEF C, D
  <2>5. /\ IsFiniteSet(C \cup D)
        /\ Cardinality(C \cup D) = Cardinality(C) + Cardinality(D) - Cardinality(C \cap D)
    BY <2>2, <2>3, FS_Union
  <2>6. Cardinality(C \cap D) \in Nat
    BY <2>2, FS_Subset, FS_CardinalityType
  <2>7. Cardinality(Constructed(slot', domain')) <= Cardinality(C \cup D)
        /\ Cardinality(Constructed(slot', domain')) \in Nat
    BY <2>1, <2>5, FS_Subset, FS_CardinalityType
  <2> QED BY <1>1, <2>2, <2>3, <2>4, <2>5, <2>6, <2>7 DEF CountCovers
<1> QED BY <1>7, <1>8

\* Increasing functions take no value twice.
LEMMA IncreasingInjective ==
  ASSUME NEW n \in Nat, NEW f, DOMAIN f = 0 .. n - 1,
         \A k \in 0 .. n - 1 : f[k] \in Int,
         \A j, k \in 0 .. n - 1 : j < k => f[j] < f[k]
  PROVE  IsInjective(f)
<1> SUFFICES ASSUME NEW a \in 0 .. n - 1, NEW b \in 0 .. n - 1, f[a] = f[b]
             PROVE  a = b
  BY DEF IsInjective
<1>1. ~(a < b) /\ ~(b < a)
  OBVIOUS
<1> QED BY <1>1

\* compact() keeps the invariant: the handles it reports are the new slots.
LEMMA CompactInvariant ==
  ASSUME IInv, TypeOK', Compact
  PROVE  HandlesResolve' /\ CountCovers'
<1> USE ObjectsAssumption DEF IInv, TypeOK
<1> DEFINE C == Constructed(slot, domain)
           n == Cardinality(C)
<1>1. n \in Nat /\ C \subseteq 0 .. domain - 1
  BY ConstructedFinite
<1>2. PICK from \in Compaction(slot, domain) :
        /\ domain' = n
        /\ slot' = [k \in 0 .. n - 1 |-> slot[from[k]]]
        /\ handle' = [o \in Objects |-> IndexOf(from, handle[o])]
  BY DEF Compact
<1>3. num_existing' = num_existing
  BY DEF Compact
<1>4. /\ from \in [0 .. n - 1 -> C]
      /\ \A j, k \in 0 .. n - 1 : j < k => from[j] < from[k]
      /\ \A i \in C : \E k \in 0 .. n - 1 : from[k] = i
  BY DEF Compaction
<1>5. \A k \in 0 .. n - 1 : from[k] \in 0 .. domain - 1 /\ slot[from[k]] \in Objects
  <2>1. \A i \in C : i \in 0 .. domain - 1 /\ slot[i] \in Objects
    BY DEF Constructed
  <2> HIDE DEF n, C
  <2> QED BY <1>4, <2>1
<1>6. \A i \in C : handle[slot[i]] = i
  BY DEF HandlesResolve
<1>7. \A p \in Objects : handle[p] # NoHandle => handle[p] \in C /\ slot[handle[p]] = p
  <2> SUFFICES ASSUME NEW p \in Objects, handle[p] # NoHandle
               PROVE  handle[p] \in C /\ slot[handle[p]] = p
    OBVIOUS
  <2>1. handle[p] \in 0 .. domain - 1 /\ slot[handle[p]] = p
    BY DEF HandlesResolve, NoHandle
  <2> QED BY <2>1 DEF Constructed
<1> HIDE DEF n, C
<1>8. IsInjective(from)
  <2>1. DOMAIN from = 0 .. n - 1 /\ \A k \in 0 .. n - 1 : from[k] \in Int
    BY <1>4, <1>5
  <2> QED BY <1>1, <1>4, <2>1, IncreasingInjective
<1>9. \A k \in 0 .. n - 1 : IndexOf(from, from[k]) = k
  BY <1>4, <1>8, IndexOfInjective
<1>10. HandlesResolve'
  <2>1. ASSUME NEW p \in Objects, handle'[p] # NoHandle
        PROVE  handle'[p] < domain' /\ slot'[handle'[p]] = p
    <3>1. handle'[p] = IndexOf(from, handle[p])
      BY <1>2
    <3>2. handle[p] \in Range(from)
      BY <2>1, <3>1, IndexOfType
    <3>3. IndexOf(from, handle[p]) \in DOMAIN from
          /\ from[IndexOf(from, handle[p])] = handle[p]
      BY <3>2, IndexOfType
    <3>4. handle'[p] \in 0 .. n - 1 /\ from[handle'[p]] = handle[p]
      BY <1>4, <3>1, <3>3
    <3>5. handle[p] # NoHandle
      BY <1>5, <3>4 DEF NoHandle
    <3> QED BY <1>1, <1>2, <1>7, <3>4, <3>5
  <2>2. ASSUME NEW k \in Constructed(slot', domain') PROVE handle'[slot'[k]] = k
    <3>1. k \in 0 .. n - 1 /\ slot'[k] = slot[from[k]]
      BY <1>2, <2>2 DEF Constructed
    <3>2. handle[slot'[k]] = from[k] /\ slot'[k] \in Objects
      BY <1>4, <1>5, <1>6, <3>1
    <3> QED BY <1>2, <1>9, <3>1, <3>2
  <2> QED BY <2>1, <2>2 DEF HandlesResolve
<1>11. CountCovers'
  <2>1. Constructed(slot', domain') \subseteq 0 .. n - 1
    BY <1>2 DEF Constructed
  <2>2. /\ Cardinality(Constructed(slot', domain')) \in Nat
        /\ Cardinality(Constructed(slot', domain')) <= n
    BY <1>1, <2>1, SomeSlotsCount
  <2>3. n <= num_existing
    BY DEF CountCovers, n, C
  <2> QED BY <1>1, <1>3, <2>2, <2>3 DEF CountCovers
<1> QED BY <1>10, <1>11

\* Every operation keeps the invariant.
LEMMA NextInvariant == IInv /\ [Next]_vars => IInv'
<1> SUFFICES ASSUME IInv, [Next]_vars PROVE HandlesResolve' /\ CountCovers'
  BY NextType DEF IInv
<1>1. TypeOK'
  BY NextType DEF IInv
<1>2. ASSUME NEW o \in Objects, Construct(o) PROVE HandlesResolve' /\ CountCovers'
  BY <1>1, <1>2, ConstructInvariant
<1>3. ASSUME NEW o \in Objects, Destruct(o) PROVE HandlesResolve' /\ CountCovers'
  BY <1>1, <1>3, DestructInvariant
<1>4. CASE ConstructOutOfBounds
  <2>1. GrownDomain \in Nat /\ GrownDomain >= domain
    BY GrownDomainType DEF IInv, TypeOK
  <2> QED BY <1>1, <1>4, <2>1, GrowInvariant DEF ConstructOutOfBounds
<1>5. ASSUME NEW n \in 0 .. MaxRequest, Reserve(n) PROVE HandlesResolve' /\ CountCovers'
  BY <1>1, <1>5, GrowInvariant DEF Reserve, IInv, TypeOK
<1>6. ASSUME NEW n \in 0 .. MaxRequest, Shrink(n) PROVE HandlesResolve' /\ CountCovers'
  BY <1>1, <1>6, ShrinkInvariant
<1>7. ASSUME NEW n \in 0 .. MaxRequest, Extend(n) PROVE HandlesResolve' /\ CountCovers'
  BY <1>1, <1>7, ExtendInvariant
<1>8. CASE Compact
  BY <1>1, <1>8, CompactInvariant
<1>9. CASE UNCHANGED vars
  BY <1>9 DEF vars, IInv, HandlesResolve, CountCovers, Constructed
<1> QED BY <1>2, <1>3, <1>4, <1>5, <1>6, <1>7, <1>8, <1>9 DEF Next

\* The invariant holds in every state.
LEMMA Invariance == Spec => []IInv
BY InitInvariant, NextInvariant, PTL DEF Spec

\* Handles and slots always correspond: no element is lost, duplicated, leaked
\* or found under another object's handle, whatever the client asks for.
THEOREM HandlesCorrect == Spec => []HandlesResolve
<1>1. IInv => HandlesResolve
  BY DEF IInv
<1> QED BY <1>1, Invariance, PTL

\* The search for a hole ends: the count, though it may be too high, is never
\* too low, so below half congestion a slot is free.
THEOREM SearchTerminates == Spec => []SearchFindsHole
<1>1. IInv => SearchFindsHole
  <2> SUFFICES ASSUME IInv, ~NeedsGrow, Holes(slot, domain) = {} PROVE FALSE
    BY DEF SearchFindsHole
  <2>1. domain \in Nat /\ num_existing \in Int /\ 2 * num_existing < domain
    BY DEF IInv, TypeOK, NeedsGrow
  <2>2. Constructed(slot, domain) = 0 .. domain - 1
    BY DEF Holes, Constructed
  <2>3. Cardinality(Constructed(slot, domain)) = domain
    BY <2>1, <2>2, SlotCount
  <2>4. domain <= num_existing
    BY <2>3 DEF IInv, CountCovers
  <2> QED BY <2>1, <2>4
<1> QED BY <1>1, Invariance, PTL

\* Only an operation that shrinks the block can leave lookup_index outside it.
THEOREM LookupInside == Spec => LookupStaysInside
<1>1. TypeOK /\ [Next]_vars =>
        [lookup_index < domain /\ domain <= domain' => lookup_index' < domain']_vars
  <2> SUFFICES ASSUME TypeOK, Next, lookup_index < domain, domain <= domain'
               PROVE  lookup_index' < domain'
    OBVIOUS
  <2> USE DEF TypeOK
  <2>1. ASSUME NEW o \in Objects, Construct(o) PROVE lookup_index' < domain'
    <3>1. PICK h \in 0 .. GrownDomain - 1 : lookup_index' = NextLookup(h, GrownDomain)
      BY <2>1 DEF Construct
    <3>2. domain' = GrownDomain /\ GrownDomain \in Nat
      BY <2>1, GrownDomainType DEF Construct
    <3> QED BY <3>1, <3>2 DEF NextLookup
  <2>2. ASSUME NEW o \in Objects, Destruct(o) PROVE lookup_index' < domain'
    BY <2>2 DEF Destruct
  <2>3. CASE ConstructOutOfBounds
    BY <2>3, GrownDomainType DEF ConstructOutOfBounds
  <2>4. ASSUME NEW n \in 0 .. MaxRequest, Reserve(n) \/ Shrink(n) \/ Extend(n)
        PROVE lookup_index' < domain'
    BY <2>4 DEF Reserve, Shrink, Extend
  <2>5. CASE Compact
    <3>1. lookup_index' = lookup_index /\ domain' = Cardinality(Constructed(slot, domain))
      BY <2>5 DEF Compact
    <3>2. domain' \in Nat
      BY <3>1, ConstructedFinite
    <3> QED BY <3>1, <3>2
  <2> QED BY <2>1, <2>2, <2>3, <2>4, <2>5 DEF Next
<1> QED BY <1>1, TypeCorrect, PTL DEF Spec, LookupStaysInside

\* No construct() leaves more than half of the block in use.
THEOREM Congestion == Spec => CongestionBounded
<1>1. ASSUME IInv, IInv', NEW o \in Objects, Construct(o)
      PROVE  2 * Cardinality(Constructed(slot', domain')) <= domain' + 1
  <2> USE DEF IInv, TypeOK
  <2> DEFINE C == Constructed(slot, domain)
             n == GrownDomain
             s == Resized(slot, domain, n)
  <2>1. n \in Nat /\ n >= domain /\ domain' = n
    BY <1>1, GrownDomainType DEF Construct
  <2>2. PICK h \in 0 .. n - 1 : slot' = [s EXCEPT ![h] = o]
    BY <1>1 DEF Construct
  <2>3. s \in [0 .. n - 1 -> Objects \cup {NoObject}]
    BY <1>1, <2>1, ResizedType
  <2>4. Constructed(s, n) = C
    BY <1>1, <2>1, GrowKeepsConstructed
  <2>5. IsFiniteSet(C) /\ Cardinality(C) \in Nat /\ C \subseteq 0 .. domain - 1
    BY <1>1, ConstructedFinite
  <2>6. Cardinality(C) <= domain
    <3>1. domain \in Nat
      BY <1>1
    <3> QED BY <2>5, <3>1, SomeSlotsCount
  <2>7. Cardinality(C) <= num_existing
    BY <1>1 DEF CountCovers
  <2>8. 2 * Cardinality(C) + 2 <= n + 1
    <3> HIDE DEF C
    <3>1. CASE NeedsGrow
      <4>1. n = domain * 2 + 1
        BY <3>1 DEF GrownDomain
      <4>2. domain \in Nat
        BY <1>1
      <4> QED BY <2>5, <2>6, <4>1, <4>2
    <3>2. CASE ~NeedsGrow
      BY <1>1, <2>5, <2>7, <3>2 DEF GrownDomain, NeedsGrow
    <3> QED BY <3>1, <3>2
  <2> HIDE DEF s, n
  <2>9. Constructed(slot', n) \subseteq C \cup {h}
    <3>1. \A i \in 0 .. n - 1 : i # h => slot'[i] = s[i]
      BY <2>2, <2>3
    <3> QED BY <2>4, <3>1 DEF Constructed
  <2> HIDE DEF C
  <2>10. IsFiniteSet(C \cup {h}) /\ Cardinality(C \cup {h}) <= Cardinality(C) + 1
         /\ Cardinality(C \cup {h}) \in Nat
    BY <2>5, CountSteps, FS_AddElement
  <2>11. Cardinality(Constructed(slot', n)) <= Cardinality(C \cup {h})
         /\ Cardinality(Constructed(slot', n)) \in Nat
    BY <2>9, <2>10, FS_Subset, FS_CardinalityType
  <2> QED BY <2>1, <2>5, <2>8, <2>10, <2>11
<1>2. IInv /\ IInv' /\ [Next]_vars =>
        [\A o \in Objects : Construct(o) =>
           2 * Cardinality(Constructed(slot', domain')) <= domain' + 1]_vars
  BY <1>1
<1> QED BY <1>2, Invariance, PTL DEF Spec, CongestionBounded

----------------------------------------------------------------------------
(* Refinement *)

\* What the slots say of an object is what the client believes of it, and two
\* live objects have two handles (stated for any block, so that it holds of
\* the state before a step and of the one after).
LEMMA SlotsAreHandles ==
  ASSUME NEW n \in Nat,
         NEW s \in [0 .. n - 1 -> Objects \cup {NoObject}],
         NEW h \in [Objects -> Nat \cup {NoHandle}],
         \A o \in Objects : h[o] # NoHandle => h[o] < n /\ s[h[o]] = o,
         \A i \in Constructed(s, n) : h[s[i]] = i
  PROVE  /\ [o \in Objects |-> IndexOf(s, o)] = h
         /\ \A o, p \in Objects : h[o] # NoHandle /\ h[o] = h[p] => o = p
<1> USE ObjectsAssumption
<1>1. ASSUME NEW o \in Objects PROVE IndexOf(s, o) = h[o]
  <2>1. \A i \in 0 .. n - 1 : s[i] = o => h[o] = i
    BY DEF Constructed
  <2>2. CASE o \in Range(s)
    <3>1. IndexOf(s, o) \in 0 .. n - 1 /\ s[IndexOf(s, o)] = o
      BY <2>2, IndexOfType
    <3> QED BY <2>1, <3>1
  <2>3. CASE o \notin Range(s)
    <3>1. IndexOf(s, o) = NoHandle
      BY <2>3, IndexOfType
    <3>2. h[o] # NoHandle => h[o] \in 0 .. n - 1 /\ s[h[o]] = o
      BY DEF NoHandle
    <3>3. h[o] = NoHandle
      BY <2>3, <3>2 DEF Range
    <3> QED BY <3>1, <3>3
  <2> QED BY <2>2, <2>3
<1> QED BY <1>1

\* The k-th of increasing naturals is at least k.
LEMMA IncreasingAbove ==
  ASSUME NEW n \in Nat, NEW from \in [0 .. n - 1 -> Nat],
         \A j, k \in 0 .. n - 1 : j < k => from[j] < from[k],
         NEW k \in 0 .. n - 1
  PROVE  k <= from[k]
<1> DEFINE f == [j \in 0 .. k |-> from[j]]
<1>1. f \in [0 .. k -> 0 .. from[k]]
  BY DEF f
<1>2. IsInjective(f)
  BY DEF IsInjective
<1>3. f \in Injection(0 .. k, 0 .. from[k])
  BY <1>1, <1>2 DEF Injection
<1> HIDE DEF f
<1>4. from[k] \in Nat /\ k \in Nat
  OBVIOUS
<1>5. /\ IsFiniteSet(0 .. from[k]) /\ Cardinality(0 .. from[k]) = from[k] + 1
      /\ Cardinality(0 .. k) = k + 1
  BY <1>4, FS_Interval
<1>6. Cardinality(0 .. k) <= Cardinality(0 .. from[k])
  BY <1>3, <1>5, FS_Injection
<1> QED BY <1>4, <1>5, <1>6

\* The constructors' states are initial states of the abstract allocator.
LEMMA InitRefines == IInv => Abstract!Init
<1> SUFFICES ASSUME IInv PROVE Abstract!Init
  OBVIOUS
<1> DEFINE at == [o \in Objects |-> IndexOf(slot, o)]
<1>1. at = handle /\ \A o, p \in Objects : handle[o] # NoHandle /\ handle[o] = handle[p] => o = p
  BY SlotsAreHandles DEF IInv, TypeOK, HandlesResolve
<1>2. at \in [Objects -> Nat \cup {-1}]
  BY <1>1 DEF IInv, TypeOK, NoHandle
<1>3. \A o, p \in Objects : at[o] # -1 /\ at[o] = at[p] => o = p
  BY <1>1 DEF NoHandle
<1> HIDE DEF at
<1> QED
  BY <1>2, <1>3
  DEF Abstract!Init, Abstract!Typed, Abstract!Injective, Abstract!Live,
      Abstract!NoHandle, at

\* Each step of Array_Allocator is a step of the abstract allocator, or none.
LEMMA NextRefines ==
  ASSUME IInv, IInv', [Next]_vars
  PROVE  [Abstract!Next]_([o \in Objects |-> IndexOf(slot, o)])
<1> DEFINE at == [o \in Objects |-> IndexOf(slot, o)]
<1>1. at = handle
  <2>1. /\ domain \in Nat
        /\ slot \in [0 .. domain - 1 -> Objects \cup {NoObject}]
        /\ handle \in [Objects -> Nat \cup {NoHandle}]
        /\ \A o \in Objects :
             handle[o] # NoHandle => handle[o] < domain /\ slot[handle[o]] = o
        /\ \A i \in Constructed(slot, domain) : handle[slot[i]] = i
    BY DEF IInv, TypeOK, HandlesResolve
  <2> QED BY <2>1, SlotsAreHandles
<1>2. at' = handle'
      /\ \A o, p \in Objects : handle'[o] # NoHandle /\ handle'[o] = handle'[p] => o = p
  <2>1. /\ domain' \in Nat
        /\ slot' \in [0 .. domain' - 1 -> Objects \cup {NoObject}]
        /\ handle' \in [Objects -> Nat \cup {NoHandle}]
        /\ \A o \in Objects :
             handle'[o] # NoHandle => handle'[o] < domain' /\ slot'[handle'[o]] = o
        /\ \A i \in Constructed(slot', domain') : handle'[slot'[i]] = i
    BY DEF IInv, TypeOK, HandlesResolve
  <2> QED BY <2>1, SlotsAreHandles
<1> HIDE DEF at
<1>3. /\ handle \in [Objects -> Nat \cup {-1}] /\ handle' \in [Objects -> Nat \cup {-1}]
      /\ at \in [Objects -> Nat \cup {-1}] /\ at' \in [Objects -> Nat \cup {-1}]
      /\ \A o, p \in Objects : at'[o] # -1 /\ at'[o] = at'[p] => o = p
  BY <1>1, <1>2 DEF IInv, TypeOK, NoHandle
<1> USE DEF Abstract!Typed, Abstract!Injective, Abstract!Live,
            Abstract!NoHandle, Abstract!KeepsOthers, NoHandle
<1>4. ASSUME NEW o \in Objects, Construct(o) PROVE Abstract!Construct(o)
  <2>1. handle[o] = -1 /\ \E h \in 0 .. GrownDomain - 1 : handle' = [handle EXCEPT ![o] = h]
    BY <1>4 DEF Construct
  <2>2. handle'[o] # -1 /\ \A p \in Objects \ {o} : handle'[p] = handle[p]
    BY <1>3, <2>1
  <2> QED BY <1>1, <1>2, <1>3, <2>1, <2>2 DEF Abstract!Construct, at
<1>5. ASSUME NEW o \in Objects, Destruct(o) PROVE Abstract!Destruct(o)
  BY <1>1, <1>2, <1>5 DEF Destruct, Abstract!Destruct, at
<1>6. CASE ConstructOutOfBounds
  BY <1>1, <1>2, <1>6 DEF ConstructOutOfBounds, at
<1>7. ASSUME NEW n \in 0 .. MaxRequest, Reserve(n) PROVE at' = at
  BY <1>1, <1>2, <1>7 DEF Reserve
<1>8. ASSUME NEW n \in 0 .. MaxRequest, Shrink(n) PROVE Abstract!Truncate
  <2>1. handle' = [o \in Objects |-> IF handle[o] < n THEN handle[o] ELSE -1]
    BY <1>8 DEF Shrink
  <2>2. \A o \in Objects : handle'[o] # -1 => handle'[o] = handle[o] /\ handle[o] < n
    BY <2>1
  <2>3. \A o \in Objects : handle'[o] = -1 /\ handle[o] # -1 => ~(handle[o] < n)
    BY <2>1
  <2>4. \A o \in Objects : handle[o] = -1 => handle'[o] = handle[o]
    BY <2>1
  <2>5. \A o, p \in Objects : handle'[o] # -1 /\ handle'[p] = -1 /\ handle[p] # -1
          => handle[o] < handle[p]
    BY <1>3, <2>2, <2>3
  <2> QED BY <1>1, <1>2, <1>3, <2>2, <2>4, <2>5 DEF Abstract!Truncate, at
<1>9. ASSUME NEW n \in 0 .. MaxRequest, Extend(n) PROVE Abstract!Fill
  <2>1. PICK new \in Injection(domain .. n - 1, {o \in Objects : handle[o] = -1}) :
          handle' = [o \in Objects |->
                       IF o \in Range(new) THEN IndexOf(new, o) ELSE handle[o]]
    BY <1>9 DEF Extend
  <2>2. \A o \in Range(new) : handle[o] = -1
    BY DEF Range, Injection
  <2>3. \A o \in Objects : handle[o] # -1 => handle'[o] = handle[o]
    BY <2>1, <2>2
  <2>4. \A o \in Objects : handle[o] = -1 /\ handle'[o] = -1 => handle'[o] = handle[o]
    OBVIOUS
  <2> QED BY <1>1, <1>2, <1>3, <2>3, <2>4 DEF Abstract!Fill, at
<1>10. ASSUME Compact PROVE Abstract!Compact
  <2> DEFINE C == Constructed(slot, domain)
             n == Cardinality(C)
  <2>1. PICK from \in Compaction(slot, domain) :
          handle' = [o \in Objects |-> IndexOf(from, handle[o])]
    BY <1>10 DEF Compact
  <2>2. n \in Nat /\ C \subseteq 0 .. domain - 1
    BY ConstructedFinite DEF IInv, TypeOK
  <2>3. /\ from \in [0 .. n - 1 -> C]
        /\ \A j, k \in 0 .. n - 1 : j < k => from[j] < from[k]
        /\ \A i \in C : \E k \in 0 .. n - 1 : from[k] = i
    BY DEF Compaction
  <2>4. \A o \in Objects : handle[o] # -1 => handle[o] \in C
    <3> SUFFICES ASSUME NEW o \in Objects, handle[o] # -1 PROVE handle[o] \in C
      OBVIOUS
    <3>1. handle[o] < domain /\ slot[handle[o]] = o
      BY DEF IInv, HandlesResolve
    <3>2. handle[o] \in 0 .. domain - 1
      BY <1>3, <3>1 DEF IInv, TypeOK
    <3> QED BY <3>1, <3>2, ObjectsAssumption DEF Constructed
  <2> HIDE DEF n, C
  <2>5. ASSUME NEW o \in Objects, handle[o] # -1
        PROVE  handle'[o] \in 0 .. n - 1 /\ from[handle'[o]] = handle[o]
    <3>1. handle[o] \in Range(from) /\ DOMAIN from = 0 .. n - 1
      BY <2>3, <2>4, <2>5 DEF Range
    <3>2. handle'[o] = IndexOf(from, handle[o])
      BY <2>1
    <3>3. /\ IndexOf(from, handle[o]) \in DOMAIN from
          /\ from[IndexOf(from, handle[o])] = handle[o]
      BY <3>1, IndexOfType
    <3> QED BY <3>1, <3>2, <3>3
  <2>6. ASSUME NEW o \in Objects, handle[o] = -1 PROVE handle'[o] = -1
    <3>1. handle[o] \notin Range(from)
      BY <2>2, <2>3, <2>6 DEF Range
    <3> QED BY <2>1, <3>1, IndexOfType
  <2>7. \A o, p \in Objects : handle[o] # -1 /\ handle[p] # -1 /\ handle[o] < handle[p]
          => handle'[o] < handle'[p]
    <3> SUFFICES ASSUME NEW o \in Objects, NEW p \in Objects, handle[o] # -1,
                        handle[p] # -1, handle[o] < handle[p],
                        ~(handle'[o] < handle'[p])
                 PROVE  FALSE
      OBVIOUS
    <3>1. handle'[o] \in 0 .. n - 1 /\ handle'[p] \in 0 .. n - 1
          /\ from[handle'[o]] = handle[o] /\ from[handle'[p]] = handle[p]
      BY <2>5
    <3>2. handle'[p] < handle'[o] \/ handle'[p] = handle'[o]
      BY <2>2, <3>1
    <3> QED BY <1>3, <2>3, <3>1, <3>2
  <2>8. \A o \in Objects : handle[o] # -1 => handle'[o] <= handle[o] /\ handle'[o] # -1
    <3> SUFFICES ASSUME NEW o \in Objects, handle[o] # -1
                 PROVE  handle'[o] <= handle[o] /\ handle'[o] # -1
      OBVIOUS
    <3>1. handle'[o] \in 0 .. n - 1 /\ from[handle'[o]] = handle[o]
      BY <2>5
    <3>2. from \in [0 .. n - 1 -> Nat]
      <4>1. \A i \in C : i \in Nat
        BY <2>2 DEF IInv, TypeOK
      <4> QED BY <2>3, <4>1
    <3>3. handle'[o] <= from[handle'[o]]
      BY <2>2, <2>3, <3>1, <3>2, IncreasingAbove
    <3> QED BY <3>1, <3>3
  <2>9. {o \in Objects : at'[o] # -1} = {o \in Objects : at[o] # -1}
    BY <1>1, <1>2, <2>6, <2>8
  <2>10. \A o, p \in Objects : at[o] # -1 /\ at[p] # -1 /\ at[o] < at[p] => at'[o] < at'[p]
    BY <1>1, <1>2, <2>7
  <2>11. \A o \in Objects : at[o] # -1 => at'[o] <= at[o]
    BY <1>1, <1>2, <2>8
  <2>12. Abstract!Typed(at') /\ Abstract!Injective(at')
    BY <1>3
  <2>13. Abstract!Live(at') = Abstract!Live(at)
    BY <2>9
  <2>14. \A o, p \in Abstract!Live(at) : at[o] < at[p] => at'[o] < at'[p]
    BY <2>10
  <2>15. \A o \in Abstract!Live(at) : at'[o] <= at[o]
    BY <2>11
  <2> HIDE DEF Abstract!Live, Abstract!Typed, Abstract!Injective
  <2> QED BY <2>12, <2>13, <2>14, <2>15 DEF Abstract!Compact, at
<1>11. CASE UNCHANGED vars
  BY <1>1, <1>2, <1>11 DEF vars
<1> QED
  BY <1>4, <1>5, <1>6, <1>7, <1>8, <1>9, <1>10, <1>11
  DEF Next, Abstract!Next, ConstructOutOfBounds, at

\* Array_Allocator implements the abstract allocator: whatever the client asks
\* for, no live object changes its handle but through compact().
THEOREM Refinement == Spec => Refines
<1>1. Init => Abstract!Init
  BY InitInvariant, InitRefines
<1>2. IInv /\ IInv' /\ [Next]_vars
        => [Abstract!Next]_([o \in Objects |-> IndexOf(slot, o)])
  BY NextRefines
<1> QED BY <1>1, <1>2, Invariance, PTL DEF Spec, Refines, Abstract!Spec

----------------------------------------------------------------------------
(* Containers never leave the block *)

\* The next search starts inside the block, or the block is still empty.
LookupInBlock == lookup_index < domain \/ (domain = 0 /\ lookup_index = 0)

\* The containers, which neither shrink, compact nor prefill their allocator,
\* never make construct() start its search outside the block.
THEOREM ContainersSafe == ContainerSpec => []NoAbort
<1> DEFINE Inv == IInv /\ LookupInBlock /\ ~aborted
<1>1. InitEmpty => Inv
  BY InitInvariant DEF Init, InitEmpty, LookupInBlock
<1>2. Inv /\ [ContainerNext]_vars => Inv'
  <2> SUFFICES ASSUME Inv, [ContainerNext]_vars PROVE Inv'
    OBVIOUS
  <2>1. IInv'
    BY NextInvariant DEF ContainerNext, Next
  <2> USE DEF IInv, TypeOK
  <2>2. ASSUME NEW o \in Objects, Construct(o) PROVE LookupInBlock' /\ ~aborted'
    <3>1. PICK h \in 0 .. GrownDomain - 1 : lookup_index' = NextLookup(h, GrownDomain)
      BY <2>2 DEF Construct
    <3>2. domain' = GrownDomain /\ GrownDomain \in Nat
      BY <2>2, GrownDomainType DEF Construct
    <3>3. lookup_index' < domain'
      BY <3>1, <3>2 DEF NextLookup
    <3> QED BY <2>2, <3>3 DEF Construct, LookupInBlock
  <2>3. ASSUME NEW o \in Objects, Destruct(o) PROVE LookupInBlock' /\ ~aborted'
    BY <2>3 DEF Destruct, LookupInBlock
  <2>4. CASE ConstructOutOfBounds
    <3>1. lookup_index >= GrownDomain /\ GrownDomain \in Nat /\ GrownDomain >= domain
      BY <2>4, GrownDomainType DEF ConstructOutOfBounds
    <3>2. domain = 0 /\ lookup_index = 0 /\ GrownDomain = 0
      BY <3>1 DEF LookupInBlock
    <3>3. ~NeedsGrow
      BY <3>2 DEF GrownDomain
    <3>4. num_existing >= 0
      <4>1. Cardinality(Constructed(slot, domain)) \in Nat
        BY ConstructedFinite
      <4> QED BY <4>1 DEF CountCovers
    <3> QED BY <3>2, <3>3, <3>4 DEF NeedsGrow
  <2>5. ASSUME NEW n \in 0 .. MaxRequest, Reserve(n) PROVE LookupInBlock' /\ ~aborted'
    BY <2>5 DEF Reserve, LookupInBlock
  <2>6. ASSUME UNCHANGED vars PROVE LookupInBlock' /\ ~aborted'
    BY <2>6 DEF vars, LookupInBlock
  <2> QED BY <2>1, <2>2, <2>3, <2>4, <2>5, <2>6 DEF ContainerNext
<1>3. Inv => NoAbort
  BY DEF NoAbort
<1> QED BY <1>1, <1>2, <1>3, PTL DEF ContainerSpec
==========================================================================
