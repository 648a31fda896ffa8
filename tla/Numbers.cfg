SPECIFICATION Spec

CONSTANTS
  Width = 5
  NumHashes = 2
  IntWidth = 6
  MaxDepth = 2
  MaxN = 6
  MaxNumber = 2100
  Moduli <- MCModuli

INVARIANTS
  
  
  PrimesFound

CHECK_DEADLOCK FALSE
