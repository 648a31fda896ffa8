SPECIFICATION BlocksSpec
CONSTANTS
  Objects = {o1, o2, o3, o4}
  NoObject = none
  MaxSize = 6
  MaxSparse = 3
  Probes = 2
  Div = 3
  MaxCrude = 2
  Addresses = 4
INVARIANTS
  BlocksMatchSize
  LoopMeetsEachOnce
PROPERTIES
  ConstructEnds
  Refines
CHECK_DEADLOCK FALSE
