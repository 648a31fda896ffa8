SPECIFICATION Spec
CONSTANTS
  Handles = {h1, h2, h3, h4}
  Nil = Nil
  Elements = {e1, e2, e3, e4}
  NoElement = NoElement
SYMMETRY Symmetric
INVARIANTS
  WellLinked
  LoopMeetsEachOnce
PROPERTIES
  Refines
