CONSTANTS
  Objects = {o1, o2, o3}
  Raw = Raw
  StackBuffer = 2
  Names = {a, b}
  MaxSize = 3
  MaxDrift = 2
  MaxDomain = 6
SPECIFICATION ArraysSpec
SYMMETRY Symmetry
CHECK_DEADLOCK FALSE
INVARIANTS
  HeapLifetimesMatch
  LoopMeetsEachOnce
  CountDrifts
PROPERTIES
  ElementsStay
  BlocksKnowElements
