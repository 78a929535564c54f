\* Every search ends in "done", where nothing more happens.
CONSTANTS
  NumNodes = 5
  Graphs <- MCGraphs
  K = 2
  Efs = {1, 2, 3}
  StatsLimit = 4
  Saturation = 2
  Patience = 1
  Epsilon = 3
  MinItems = 1
  MaxMarks = 1
SPECIFICATION Spec
CHECK_DEADLOCK FALSE
INVARIANTS
  BestSeen
  LocallyBest
  NeverDeleted
  EnoughResults
PROPERTIES
  Terminates
