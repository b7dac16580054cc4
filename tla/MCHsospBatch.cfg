CONSTANTS
  N = 4
  Source = 0
  Target = 1
  Inf = Inf
  NumVertices = 2
  Weights = {1, 2}
  MaxHostBatches = 2
  MaxOps = 2
  MaxInserts = 2
  HeSpare = 0
  VertexSpare = 1
  CsrSpare = 0
  CsrAlign = 1
  Room = 1
  MaxKey = 5
  InitialRows <- MCBatchRows
SPECIFICATION Spec
INVARIANTS
  DeviceExact
  TreesAgree
  ArraysSound
PROPERTIES
  ImplementsBatches
