CONSTANTS
  N = 3
  Source = 0
  MaxWeight = 2
  MaxEdgeId = 5
  MaxCalls = 4
  InitialGraphs <- Loaded
  InsertBatches <- Batches
  DeleteBatches <- Removals
  DeleteFiles <- Deleting
  InsertFiles <- Inserting
SPECIFICATION GraphUpdateSpec
CHECK_DEADLOCK FALSE
INVARIANTS
  HostSound
  LockStep
  UpdateMatches
