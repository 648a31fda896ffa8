SPECIFICATION Spec
CONSTANTS
  Nodes = {n1, n2, n3, n4}
  NoNode = none
  Dim = 2
  Boxes <- SomeBoxes
  Asked <- SomeAsked
  Points <- SomePoints
  Grid = 4
  Garbage = {8, nan}
  NaN = nan
  Unread = unread
  Far = 1000000
CHECK_DEADLOCK FALSE
SYMMETRY Handles
INVARIANTS
  ForestLinked
  WalkInOrder
  ClosestIsClosest
  IntersectingAllMet
