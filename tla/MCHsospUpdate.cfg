CONSTANTS
  N = 5
  Source = 0
  Target = 4
  Inf = Inf
  Limit = 15
  MaxIterations = 9
  MaxJumpRounds = 3
  WorkBudget = 9
  MaxBatches = 1
  Graphs <- MCAllGraphs
  InitialGraphs <- MCInitial
SPECIFICATION Spec
INVARIANTS
  TreeIsCanonical
  NoStaleWord
  NoLostImprovement
  FrontierWithoutDuplicates
  SubtreesMarked
  RoundsBounded
  IdleNodesSettled
  ConvergesToShortest
