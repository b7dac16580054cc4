CONSTANTS
  N = 4
  Source = 0
  MaxWeight = 4
  Field = 16
  Deltas = {1, 3}
  MaxCalls = 1
  InitialGraphs <- HeavyPath
  DeleteSets <- NoDeletions
  InsertLists <- NoInsertions
SPECIFICATION NearFarSpec
CHECK_DEADLOCK FALSE
INVARIANTS
  DistancesAreUpperBounds
