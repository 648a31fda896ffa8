SPECIFICATION MeshSpec
CONSTANTS
  MaxVerts = 5
  MaxPolys = 6
  NoVerts = NoVerts
  NoEdge = NoEdge
  NoTask = NoTask
  Samples <- SmallSamples
  CleansOpen = TRUE
INVARIANTS
  LinksJoin
CHECK_DEADLOCK FALSE
