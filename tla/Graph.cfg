SPECIFICATION GraphSpec
CONSTANTS
  NumVerts = 3
  MaxEnds = 2
  MaxEdges = 3
  MaxRecords = 4
CHECK_DEADLOCK FALSE
INVARIANTS
  TypeOK
  EdgesWhole
  LoopMeetsEachOnce
PROPERTIES
  Refines
