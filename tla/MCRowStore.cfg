SPECIFICATION StoreSpec
CONSTANTS
  Capacity = 20
  Alignment = 4
  MaxCalls = 4
  MaxKey = 4
  MaxBatch = 2
  InitialTables <- Tables
  FillLists <- Lists
  RemoveSets <- Removes
  NewRows <- News
CHECK_DEADLOCK FALSE
INVARIANTS
  PayloadSound
  TreeSound
  FillThrowsOnlyWhenNearlyFull
PROPERTIES
  KeepsContract
