CONSTANTS
  N = 4
  Source = 0
  Target = 1
  Inf = Inf
  NumVertices = 2
  Weights = {1}
  MaxHostBatches = 2
  MaxOps = 3
  MaxInserts = 2
  InitialRows <- MCHostRows
SPECIFICATION HostSpec
INVARIANTS
  IncidenceConsistent
  FreeListExact
  ReservedIdsUsable
  NetIsDifference
