CONSTANTS
  N = 4
  Source = 0
  Target = 3
  Inf = Inf
  Limit = 3
  MaxIterations = 1
  MaxJumpRounds = 1
  WorkBudget = 1
  MaxBatches = 2
  Graphs <- MCBudgetGraphs
  InitialGraphs <- MCBudgetInitial
SPECIFICATION Spec
PROPERTIES
  ImplementsSosp
  EveryCallReturns
