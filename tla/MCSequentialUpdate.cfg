CONSTANTS
  N = 4
  Source = 0
  MaxWeight = 3
  MaxUpdates = 3
  InitialGraphs <- Digraphs
  DeleteSets <- Deletions
  InsertLists <- Insertions
SPECIFICATION SequentialSpec
CHECK_DEADLOCK FALSE
INVARIANTS
  NoStaleCycle
  SweepsSuffice
PROPERTIES
  ImplementsService
