SPECIFICATION Spec
CONSTANTS
  e1 = e1
  e2 = e2
  e3 = e3
  e4 = e4
  e5 = e5
  k1 = k1
  k2 = k2
  k3 = k3
  Entries = {e1, e2, e3, e4, e5}
  Keys = {k1, k2, k3}
  KeyOf <- MCKeyOf
  Hash <- MCHash
  MaxBuckets = 5
  MaxLost = 2
SYMMETRY Symmetric
INVARIANTS
  EachInItsBucket
  ReserveHonoured
  LoopMeetsEachOnce
PROPERTIES
  Refines
