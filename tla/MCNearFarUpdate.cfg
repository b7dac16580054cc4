CONSTANTS
  N = 5
  Source = 0
  MaxWeight = 5
  Field = 32
  Deltas = {1, 3}
  MaxCalls = 2
  InitialGraphs <- DigraphsOfFive
  DeleteSets <- DeletionsOfFive
  InsertLists <- InsertionsOfFive
SPECIFICATION NearFarSpec
CHECK_DEADLOCK FALSE
INVARIANTS
  JumpsSound
  ListsFit
  WordsSound
PROPERTIES
  ImplementsService
  EveryCallReturns
