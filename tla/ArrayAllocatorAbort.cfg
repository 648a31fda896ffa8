SPECIFICATION Spec
CONSTANTS
  Objects = {o1, o2, o3}
  NoObject = none
  MaxRequest = 3
  MaxDomain = 7
  MaxCount = 5
INVARIANT NoAbort
SYMMETRY Symmetric
CHECK_DEADLOCK FALSE
