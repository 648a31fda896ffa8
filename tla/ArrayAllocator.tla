------------------------- MODULE ArrayAllocator -------------------------
(***************************************************************************)
(* Array_Allocator, salgo's default allocator: elements live in one        *)
(* Memory_Block with construction flags and a count, and construct() looks *)
(* for a hole in circular fashion from where the last search stopped.      *)
(*                                                                         *)
(* One action per member function that changes the block.  The client is a *)
(* legal one: it destructs only what it holds, and it follows the handles  *)
(* that compact() reports.  A failed DCHECK ends the program (aborted).    *)
(***************************************************************************)
EXTENDS Integers, FiniteSets, Functions

CONSTANTS
  Objects,      \* the values the client keeps in the allocator
  NoObject,     \* the content of a slot that holds no constructed value
  MaxRequest,   \* bound: the largest size the client asks for
  MaxDomain,    \* bound: construct() stops before the block outgrows it
  MaxCount      \* bound: no construction takes num_existing over it

ASSUME ObjectsAssumption ==
  /\ IsFiniteSet(Objects)
  /\ NoObject \notin Objects
  /\ MaxRequest \in Nat /\ MaxDomain \in Nat /\ MaxCount \in Nat

NoHandle == -1

VARIABLES
  domain,        \* Memory_Block::_size, the number of slots
  slot,          \* the slots with their construction flags
  num_existing,  \* Memory_Block's COUNT, kept by construct and destruct
  lookup_index,  \* where the next search for a hole starts
  handle,        \* the handle the client holds for each object
  aborted        \* a DCHECK has failed

block == <<domain, slot, num_existing>>
vars == <<domain, slot, num_existing, lookup_index, handle, aborted>>

----------------------------------------------------------------------------
(* Memory_Block *)

Constructed(s, n) == {i \in 0 .. n - 1 : s[i] # NoObject}

Holes(s, n) == {i \in 0 .. n - 1 : s[i] = NoObject}

\* Mutant: the flags of the removed slots stay behind.
ResizedKeepingTail(s, old, new) ==
  [i \in 0 .. old + new - 1 |-> IF i < old THEN s[i] ELSE NoObject]

\* Memory_Block::resize: the first min(old, new) slots move with their flags,
\* new slots are empty; num_existing is not touched.
Resized(s, old, new) ==
  [i \in 0 .. new - 1 |-> IF i < old THEN s[i] ELSE NoObject]

\* Mutant: the order of the elements is lost.
CompactionUnordered(s, n) ==
  {from \in [0 .. Cardinality(Constructed(s, n)) - 1 -> Constructed(s, n)] :
     \A i \in Constructed(s, n) : \E k \in DOMAIN from : from[k] = i}

\* The slots in the order compact() meets them: its k-th constructed slot is
\* from[k], and it moves the value there to slot k.
Compaction(s, n) ==
  {from \in [0 .. Cardinality(Constructed(s, n)) - 1 -> Constructed(s, n)] :
     /\ \A j, k \in DOMAIN from : j < k => from[j] < from[k]
     /\ \A i \in Constructed(s, n) : \E k \in DOMAIN from : from[k] = i}

----------------------------------------------------------------------------
(* Array_Allocator *)

\* Mutant: the block grows only when full.
NeedsGrowWhenFull == num_existing > domain

\* "grow if needed": construct() doubles the block at half congestion.
NeedsGrow == num_existing * 2 >= domain
GrownDomain == IF NeedsGrow THEN domain * 2 + 1 ELSE domain

\* How many times ++lookup_index, with its wrap at the domain, goes from one
\* slot to the other.
Steps(from, to, n) == IF to >= from THEN to - from ELSE to - from + n

\* Mutant: the flag of the slot is not tested.
IsFirstHoleUntested(h, s, n) == h = lookup_index

\* The while loop of construct(): the first hole at or after lookup_index.
IsFirstHole(h, s, n) ==
  /\ h \in Holes(s, n)
  /\ \A g \in Holes(s, n) : Steps(lookup_index, h, n) <= Steps(lookup_index, g, n)

\* Mutant: no wrap at the end of the block.
NextLookupNoWrap(h, n) == h + 1

\* The ++lookup_index after a hole has been taken, wrapping at the domain.
NextLookup(h, n) == IF h + 1 = n THEN 0 ELSE h + 1

\* Where f holds x, if anywhere.
IndexOf(f, x) ==
  IF x \in Range(f) THEN CHOOSE i \in DOMAIN f : f[i] = x ELSE NoHandle

\* Array_Allocator()
InitEmpty ==
  /\ domain = 0
  /\ slot = [i \in {} |-> NoObject]
  /\ num_existing = 0
  /\ lookup_index = 0
  /\ handle = [o \in Objects |-> NoHandle]
  /\ aborted = FALSE

\* Array_Allocator(num_starting_elements): every slot is constructed.
InitFilled(n) ==
  /\ domain = n
  /\ slot \in Injection(0 .. n - 1, Objects)
  /\ num_existing = n
  /\ lookup_index = n
  /\ handle = [o \in Objects |-> IndexOf(slot, o)]
  /\ aborted = FALSE

Init == InitEmpty \/ \E n \in 1 .. MaxRequest : InitFilled(n)

Construct(o) ==
  LET n == GrownDomain
      s == Resized(slot, domain, n)
  IN  /\ ~aborted
      /\ handle[o] = NoHandle
      /\ n <= MaxDomain /\ num_existing < MaxCount
      /\ lookup_index < n
      /\ \E h \in 0 .. n - 1 :
           /\ IsFirstHole(h, s, n)
           /\ slot' = [s EXCEPT ![h] = o]
           /\ handle' = [handle EXCEPT ![o] = h]
           /\ lookup_index' = NextLookup(h, n)
      /\ domain' = n
      /\ num_existing' = num_existing + 1
      /\ UNCHANGED aborted

\* The search starts outside the block: v(lookup_index) fails its bounds check.
ConstructOutOfBounds ==
  /\ ~aborted
  /\ \E o \in Objects : handle[o] = NoHandle
  /\ lookup_index >= GrownDomain
  /\ domain' = GrownDomain
  /\ slot' = Resized(slot, domain, GrownDomain)
  /\ aborted' = TRUE
  /\ UNCHANGED <<num_existing, lookup_index, handle>>

\* Accessor::destruct (alias erase)
Destruct(o) ==
  /\ ~aborted
  /\ handle[o] # NoHandle
  /\ slot' = [slot EXCEPT ![handle[o]] = NoObject]
  /\ num_existing' = num_existing - 1
  /\ handle' = [handle EXCEPT ![o] = NoHandle]
  /\ UNCHANGED <<domain, lookup_index, aborted>>

Reserve(n) ==
  /\ ~aborted
  /\ n > domain
  /\ domain' = n
  /\ slot' = Resized(slot, domain, n)
  /\ UNCHANGED <<num_existing, lookup_index, handle, aborted>>

\* resize(new_size) to fewer slots: the elements beyond are gone, and the
\* count keeps counting them.
Shrink(n) ==
  /\ ~aborted
  /\ n < domain
  /\ domain' = n
  /\ slot' = Resized(slot, domain, n)
  /\ handle' = [o \in Objects |-> IF handle[o] < n THEN handle[o] ELSE NoHandle]
  /\ UNCHANGED <<num_existing, lookup_index, aborted>>

\* resize(new_size) to more slots: every new slot is constructed.
Extend(n) ==
  /\ ~aborted
  /\ n > domain
  /\ num_existing + (n - domain) <= MaxCount
  /\ \E new \in Injection(domain .. n - 1, {o \in Objects : handle[o] = NoHandle}) :
       /\ slot' = [i \in 0 .. n - 1 |-> IF i < domain THEN slot[i] ELSE new[i]]
       /\ handle' = [o \in Objects |->
                       IF o \in Range(new) THEN IndexOf(new, o) ELSE handle[o]]
  /\ domain' = n
  /\ num_existing' = num_existing + (n - domain)
  /\ UNCHANGED <<lookup_index, aborted>>

\* compact(cb): the client moves its handles as cb(old, new) reports them;
\* the block is then resized to the number of elements.
Compact ==
  /\ ~aborted
  /\ \E from \in Compaction(slot, domain) :
       LET n == Cardinality(Constructed(slot, domain))
       IN  /\ domain' = n
           /\ slot' = [k \in 0 .. n - 1 |-> slot[from[k]]]
           /\ handle' = [o \in Objects |-> IndexOf(from, handle[o])]
  /\ UNCHANGED <<num_existing, lookup_index, aborted>>

Next ==
  \/ \E o \in Objects : Construct(o) \/ Destruct(o)
  \/ ConstructOutOfBounds
  \/ \E n \in 0 .. MaxRequest : Reserve(n) \/ Shrink(n) \/ Extend(n)
  \/ Compact

Spec == Init /\ [][Next]_vars

\* How List, Hash_Table, Union_Find and the forests use their allocator: from
\* empty, with construct(), destruct() and reserve() alone.
ContainerNext ==
  \/ \E o \in Objects : Construct(o) \/ Destruct(o)
  \/ ConstructOutOfBounds
  \/ \E n \in 0 .. MaxRequest : Reserve(n)

ContainerSpec == InitEmpty /\ [][ContainerNext]_vars

----------------------------------------------------------------------------
(* Properties *)

\* The types of the block, of the search's start and of the client's handles.
TypeOK ==
  /\ domain \in Nat
  /\ slot \in [0 .. domain - 1 -> Objects \cup {NoObject}]
  /\ num_existing \in Int
  /\ lookup_index \in Nat
  /\ handle \in [Objects -> Nat \cup {NoHandle}]
  /\ aborted \in BOOLEAN

\* Every handle the client holds resolves to its object, and every constructed
\* slot is one the client holds: growing, shrinking, filling and compacting
\* neither lose, duplicate nor leak an element.
HandlesResolve ==
  /\ \A o \in Objects :
       handle[o] # NoHandle => handle[o] < domain /\ slot[handle[o]] = o
  /\ \A i \in Constructed(slot, domain) : handle[slot[i]] = i

\* The search of construct() ends: whenever it does not grow the block first,
\* there is a hole (num_existing is never below the constructed slots, though
\* a shrinking resize leaves it above them).
SearchFindsHole == ~NeedsGrow => Holes(slot, domain) # {}

\* "When congestion reaches 0.5, memory block is resized": no construct()
\* leaves more than half of the block, rounded up, in use.
CongestionBounded ==
  [][\A o \in Objects : Construct(o) =>
       2 * Cardinality(Constructed(slot', domain')) <= domain' + 1]_vars

\* A search that starts inside the block leaves the next one inside as well,
\* unless the block itself shrinks (compact, resize): construct, destruct,
\* reserve and a growing resize never push lookup_index out.
LookupStaysInside ==
  [][lookup_index < domain /\ domain <= domain' => lookup_index' < domain']_vars

\* No DCHECK of Memory_Block fails for a legal client.
NoAbort == ~aborted

\* The client sees an allocator: AbstractAllocator over the slots themselves.
Abstract == INSTANCE AbstractAllocator WITH at <- [o \in Objects |-> IndexOf(slot, o)]

\* An allocator's client sees AbstractAllocator: what a live object's handle may
\* do in construct, destruct, reserve, resize and compact.
Refines == Abstract!Spec
==========================================================================
