CONSTANTS
  N = 4
  Source = 0
  MaxWeight = 3
  K = 3
  Networks <- NetworksOnFrame
  DeleteSets <- Deletions
  InsertLists <- Insertions
SPECIFICATION MospSpec
CHECK_DEADLOCK FALSE
INVARIANTS
  DijkstraExact
  SpansUpdatedGraph
  AgreedPathKept
