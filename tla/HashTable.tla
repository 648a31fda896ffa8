---------------------------- MODULE HashTable ----------------------------
(***************************************************************************)
(* Hash_Table with its elements inplace: buckets of Unordered_Array, grown *)
(* by rehash(), and a loop over it that runs backwards so that its body    *)
(* may erase the loop's element, through the loop's accessor or not.       *)
(*                                                                         *)
(* The client keeps to the documented rules for a loop: it erases no other *)
(* element, and nothing in the loop re-buckets the table.                  *)
(***************************************************************************)
EXTENDS UnorderedArrayOps, FiniteSets

CONSTANTS
  Entries,     \* the elements the client may keep in the table
  Keys,        \* their keys
  KeyOf,       \* the key of each element; elements may share one
  Hash,        \* the hash of each key
  MaxBuckets,  \* bound: the most buckets that the client asks for
  MaxLost      \* bound: the most elements that are moved away uncounted

ASSUME EntriesAssumption == IsFiniteSet(Entries) /\ KeyOf \in [Entries -> Keys]
ASSUME HashAssumption == Hash \in [Keys -> Nat]
ASSUME BucketsAssumption == MaxBuckets \in Nat /\ MaxLost \in Nat

VARIABLES
  buckets,   \* _buckets, a function from 0 .. size - 1
  count,     \* _count
  promised,  \* history: how many elements the last reserve() was for
  lost,      \* history: how many elements were moved away and are still counted
  cursor,    \* the loop's iterator
  visited,   \* history: elements the loop has visited and not lost since
  kept       \* history: elements in the table since the loop began

table_vars == <<buckets, count, promised, lost>>
loop_vars == <<cursor, visited, kept>>
vars == <<buckets, count, promised, lost, cursor, visited, kept>>

\* No loop: HANDLE.a = -1, which is End_Iterator.
NoCursor == [a |-> -1, b |-> 0, erased |-> FALSE]

NumBuckets == Cardinality(DOMAIN buckets)

\* Where the elements are: bucket and index in it, as in a handle.
Positions == UNION {{a} \X Indices(buckets[a]) : a \in DOMAIN buckets}

EntryAt(p) == ItemAt(buckets[p[1]], p[2])

Contents == UNION {ToSet(buckets[a]) : a \in DOMAIN buckets}

\* Hash(k) % size
BucketOf(k, n) == Hash[k] % n

EmptyBuckets(n) == [a \in 0 .. n - 1 |-> <<>>]

----------------------------------------------------------------------------
(* Operations *)

WantBuckets(n) == n + 1

\* Mutant: the load factor is inverted.
NeedsRehashInverted == (NumBuckets * 2) \div 3 < WantBuckets(count)

\* "re-bucket" of emplace()
NeedsRehash == (NumBuckets * 3) \div 2 < WantBuckets(count)

\* The order in which the loops of rehash() meet the positions.
Before(p, q) == p[1] < q[1] \/ (p[1] = q[1] /\ p[2] < q[2])

\* The i-th of a set of positions.
Nth(P, i) == CHOOSE p \in P : Cardinality({q \in P : Before(q, p)}) = i - 1

\* The elements at a set of positions, in that order.
InOrder(P) == [i \in 1 .. Cardinality(P) |-> EntryAt(Nth(P, i))]

\* Mutant: elements stay in the bucket of their old index.
RehashedByOldIndex(n) ==
  [a \in 0 .. n - 1 |-> InOrder({p \in Positions : p[1] % n = a})]

\* rehash(want_buckets): every element moves to its bucket among the new ones.
Rehashed(n) ==
  [a \in 0 .. n - 1 |->
     InOrder({p \in Positions : BucketOf(KeyOf[EntryAt(p)], n) = a})]

\* _find(k): the first element of the bucket with this key, if any.
Find(k) ==
  IF NumBuckets = 0 THEN {}
  ELSE LET a == BucketOf(k, NumBuckets)
           Matches == {b \in Indices(buckets[a]) : KeyOf[ItemAt(buckets[a], b)] = k}
       IN  {<<a, b>> : b \in {m \in Matches : \A i \in Matches : m <= i}}

\* emplace(k, v): re-bucket if the load asks for it, then add to the bucket.
Emplace(e) ==
  LET table == IF NeedsRehash THEN Rehashed(WantBuckets(count)) ELSE buckets
      a == BucketOf(KeyOf[e], Cardinality(DOMAIN table))
  IN  /\ buckets' = [table EXCEPT ![a] = Append(@, e)]
      /\ count' = count + 1

\* The client emplaces an element that it does not hold in the table.
ClientEmplace(e) ==
  /\ e \notin Contents
  /\ cursor # NoCursor => ~NeedsRehash
  /\ Emplace(e)
  /\ UNCHANGED <<promised, lost, loop_vars>>

\* emplace_if_not_found(k, v)
EmplaceIfNotFound(e) ==
  /\ Find(KeyOf[e]) = {}
  /\ ClientEmplace(e)

\* Mutant: the counter is kept by emplace() alone.
EraseUncounted(a, b) ==
  /\ count > 0
  /\ buckets' = [buckets EXCEPT ![a] = SwapErase(@, b)]
  /\ UNCHANGED count

\* erase(handle)
Erase(a, b) ==
  /\ count > 0
  /\ buckets' = [buckets EXCEPT ![a] = SwapErase(@, b)]
  /\ count' = count - 1

\* erase through an accessor found by key or by position, outside of a loop.
ClientErase(a, b) ==
  /\ cursor = NoCursor
  /\ a \in DOMAIN buckets /\ b \in Indices(buckets[a])
  /\ Erase(a, b)
  /\ UNCHANGED <<promised, lost, loop_vars>>

\* The elements are moved into new buckets, which replace the old ones.  With
\* elements, want_buckets = 0 divides by zero: the client never asks for it.
Rehash(n) ==
  /\ cursor = NoCursor
  /\ n = 0 => Contents = {}
  /\ buckets' = Rehashed(n)
  /\ promised' = 0
  /\ UNCHANGED <<count, lost, loop_vars>>

Reserve(n) ==
  /\ cursor = NoCursor
  /\ buckets' = Rehashed(WantBuckets(n))
  /\ promised' = n
  /\ UNCHANGED <<count, lost, loop_vars>>

\* Hash_Table(Hash_Table&&), or assignment from the table: the buckets move, and
\* the table that has none now goes on counting what was in them.
MoveFrom ==
  /\ cursor = NoCursor
  /\ count <= MaxLost
  /\ buckets' = EmptyBuckets(0)
  /\ promised' = 0
  /\ lost' = count
  /\ UNCHANGED <<count, loop_vars>>

----------------------------------------------------------------------------
(* The loop *)

\* Mutant: an empty bucket ends the loop.
StepNoSkip(a, b) ==
  IF b > 0 THEN [a |-> a, b |-> b - 1, erased |-> FALSE]
  ELSE IF a > 0 /\ buckets[a - 1] # <<>>
    THEN [a |-> a - 1, b |-> Len(buckets[a - 1]) - 1, erased |-> FALSE]
    ELSE NoCursor

\* _increment(): down the bucket, then to the last element of the next lower
\* bucket that has any.
Step(a, b) ==
  IF b > 0 THEN [a |-> a, b |-> b - 1, erased |-> FALSE]
  ELSE LET Lower == {i \in DOMAIN buckets : i < a /\ buckets[i] # <<>>}
       IN  IF Lower = {} THEN NoCursor
           ELSE LET l == CHOOSE i \in Lower : \A j \in Lower : j <= i
                IN  [a |-> l, b |-> Len(buckets[l]) - 1, erased |-> FALSE]

Current == ItemAt(buckets[cursor.a], cursor.b)

\* The element under an iterator, as a set that is empty at the end.
Visit(c) == IF c = NoCursor THEN {} ELSE {ItemAt(buckets[c.a], c.b)}

\* begin(): one step from behind the last bucket.
LoopBegin ==
  /\ cursor = NoCursor
  /\ cursor' = Step(NumBuckets, 0)
  /\ visited' = Visit(cursor')
  /\ kept' = IF cursor' = NoCursor THEN {} ELSE Contents
  /\ UNCHANGED table_vars

LoopStep ==
  /\ cursor # NoCursor
  /\ cursor' = Step(cursor.a, cursor.b)
  /\ IF cursor' = NoCursor
       THEN visited' = {} /\ kept' = {}
       ELSE visited' = visited \cup Visit(cursor') /\ UNCHANGED kept
  /\ UNCHANGED table_vars

\* The body erases the loop's element: e.erase(), or ht.erase(e.handle()).
EraseCurrent ==
  /\ cursor # NoCursor /\ ~cursor.erased
  /\ Erase(cursor.a, cursor.b)
  /\ cursor' = [cursor EXCEPT !.erased = TRUE]
  /\ visited' = visited \ {Current}
  /\ kept' = kept \ {Current}
  /\ UNCHANGED <<promised, lost>>

----------------------------------------------------------------------------

\* Hash_Table(), or the buckets that the variadic constructor starts from.
Init ==
  /\ \E n \in 0 .. MaxBuckets : buckets = EmptyBuckets(n)
  /\ count = 0
  /\ promised = 0
  /\ lost = 0
  /\ cursor = NoCursor
  /\ visited = {}
  /\ kept = {}

Next ==
  \/ \E e \in Entries : ClientEmplace(e) \/ EmplaceIfNotFound(e)
  \/ \E a \in DOMAIN buckets : \E b \in Indices(buckets[a]) : ClientErase(a, b)
  \/ \E n \in 0 .. MaxBuckets : Rehash(n)
  \/ \E n \in 0 .. MaxBuckets - 1 : Reserve(n)
  \/ MoveFrom
  \/ LoopBegin
  \/ LoopStep
  \/ EraseCurrent

Spec == Init /\ [][Next]_vars

----------------------------------------------------------------------------
(* Properties *)

\* Growing, shrinking and swap-erasing leave each element in the table once,
\* in the bucket of its key among the buckets there are now.
EachInItsBucket ==
  /\ \A p, q \in Positions : EntryAt(p) = EntryAt(q) => p = q
  /\ \A p \in Positions : p[1] = BucketOf(KeyOf[EntryAt(p)], NumBuckets)

\* After reserve(n) the table takes elements up to n without re-bucketing, so
\* that a loop over it may emplace.
ReserveHonoured == count < promised => ~NeedsRehash

\* What the loop meets after the position of the cursor.
Ahead == {EntryAt(p) : p \in {q \in Positions :
            q[1] < cursor.a \/ (q[1] = cursor.a /\ q[2] < cursor.b)}}

\* A loop meets each element that is in the table from its beginning on, and
\* meets it once: what it has not visited is ahead, what is ahead it has not
\* visited, and it ends only when nothing is left; although erasing moves
\* elements within their bucket.  Its own element is in the table until the body
\* erases it.
LoopMeetsEachOnce ==
  cursor # NoCursor =>
    /\ cursor.erased \/ <<cursor.a, cursor.b>> \in Positions
    /\ kept \ visited \subseteq
         (IF Step(cursor.a, cursor.b) = NoCursor THEN {} ELSE Ahead)
    /\ Ahead \cap visited = {}

\* The table is a multiset, and the counter is its size, but for what was moved
\* away.
Abstract == INSTANCE AbstractMultiset WITH contents <- Contents, size <- count - lost

\* Every operation adds or removes one element and counts it, or moves all of them
\* away and counts none; re-bucketing and looping are invisible.
Refines == Abstract!Spec
==========================================================================
