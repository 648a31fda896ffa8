SPECIFICATION MeshSpec
CONSTANTS
  MaxVerts = 5
  MaxPolys = 6
  NoVerts = NoVerts
  NoEdge = NoEdge
  NoTask = NoTask
  Samples <- AllSamples
  CleansOpen = FALSE
INVARIANTS
  LinksJoin
  PolyLinksExact
PROPERTIES
  BoundaryKept
  CapClosesHole
  TaskEnds
CHECK_DEADLOCK FALSE
