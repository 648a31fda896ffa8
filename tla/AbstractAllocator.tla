------------------------ MODULE AbstractAllocator ------------------------
(***************************************************************************)
(* What a salgo allocator promises its client (List, Hash_Table EXTERNAL,  *)
(* Union_Find, the forests and the mesh all rest on it): a live object is  *)
(* found at the handle the client holds, two live objects never share a    *)
(* handle, and only an operation that announces new handles changes the    *)
(* handle of an object it was not asked about.                             *)
(***************************************************************************)
EXTENDS Integers

CONSTANTS Objects     \* the values a client may keep in the allocator

NoHandle == -1        \* the object is not in the allocator

VARIABLE at           \* at[o]: the handle of object o, or NoHandle

Live(f) == {o \in Objects : f[o] # NoHandle}

Injective(f) == \A o, p \in Live(f) : f[o] = f[p] => o = p

\* The objects outside S keep their handles.
KeepsOthers(S) == \A o \in Objects \ S : at'[o] = at[o]

Typed(f) == f \in [Objects -> Nat \cup {NoHandle}]

Init ==
  /\ Typed(at)
  /\ Injective(at)

\* construct(): o gets a handle no live object has.
Construct(o) ==
  /\ o \notin Live(at)
  /\ Typed(at') /\ Injective(at')
  /\ o \in Live(at')
  /\ KeepsOthers({o})

\* destruct(): the handle of o is free again.
Destruct(o) ==
  /\ o \in Live(at)
  /\ at' = [at EXCEPT ![o] = NoHandle]

\* resize() to fewer elements: the objects with the highest handles go, the
\* rest stay where they are.
Truncate ==
  LET gone == Live(at) \ Live(at')
  IN  /\ Typed(at')
      /\ Live(at') \subseteq Live(at)
      /\ KeepsOthers(gone)
      /\ \A o \in Live(at'), p \in gone : at[o] < at[p]

\* resize() to more elements: new objects fill the new handles.
Fill ==
  /\ Typed(at') /\ Injective(at')
  /\ Live(at) \subseteq Live(at')
  /\ KeepsOthers(Live(at') \ Live(at))

\* compact(): the live objects take the first handles, in the same order.
Compact ==
  /\ Typed(at') /\ Injective(at')
  /\ Live(at') = Live(at)
  /\ \A o, p \in Live(at) : at[o] < at[p] => at'[o] < at'[p]
  /\ \A o \in Live(at) : at'[o] <= at[o]

Next ==
  \/ \E o \in Objects : Construct(o) \/ Destruct(o)
  \/ Truncate
  \/ Fill
  \/ Compact

Spec == Init /\ [][Next]_at
==========================================================================
