CONSTANTS
  N = 3
  Source = 0
  MaxWeight = 2
  MaxEdgeId = 5
  MaxCalls = 4
  InitialGraphs <- Loaded
  InsertBatches <- BatchesTwice
  DeleteBatches <- Removals
  DeleteFiles <- NoFiles
  InsertFiles <- NoFiles
SPECIFICATION GraphUpdateSpec
CHECK_DEADLOCK FALSE
INVARIANTS
  NoParallelEdges
