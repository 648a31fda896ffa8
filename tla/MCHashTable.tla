-------------------------- MODULE MCHashTable --------------------------
EXTENDS HashTable, TLC

CONSTANTS e1, e2, e3, e4, e5, k1, k2, k3

\* Two elements share the key k1, and two the key k2.
MCKeyOf == (e1 :> k1) @@ (e2 :> k1) @@ (e3 :> k2) @@ (e4 :> k2) @@ (e5 :> k3)

\* k1 and k2 collide among an even number of buckets, all among one.
MCHash == (k1 :> 1) @@ (k2 :> 3) @@ (k3 :> 2)

\* Elements with the same key differ in nothing that the table sees.
Symmetric == Permutations({e1, e2}) \cup Permutations({e3, e4})
==========================================================================
