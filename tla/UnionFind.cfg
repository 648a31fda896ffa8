SPECIFICATION Spec
CONSTANTS
  MaxNodes = 4
CHECK_DEADLOCK FALSE
INVARIANTS
  FindEnds
  DataOfWholeSet
PROPERTIES
  Refines
