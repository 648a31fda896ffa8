SPECIFICATION Spec
CONSTANTS
  Objects = {o1, o2, o3}
  NoObject = none
  MaxRequest = 3
  MaxDomain = 7
  MaxCount = 5
INVARIANTS
  TypeOK
  HandlesResolve
  SearchFindsHole
PROPERTIES
  LookupStaysInside
  Refines
SYMMETRY Symmetric
CHECK_DEADLOCK FALSE
