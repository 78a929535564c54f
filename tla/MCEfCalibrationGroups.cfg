\* Searches that find nothing for some queries.
CONSTANTS
  NumQueries = 4
  MaxScore = 5
  K = 2
  EfUpper = 5
  MinQueries = 1
  Unit = 1200
  Eps = 1
  Expected = 1000
  Easy = 800
  BucketCounts = {1, 2, 5}
  ScoreLists <- MCScoreLists
  ConvLists <- MCConvLists
  Outcomes <- MCOutcomes
  Junk <- MCJunk
  NaN <- MCNaN
  IntMax = 2000
SPECIFICATION Spec
CHECK_DEADLOCK FALSE
INVARIANTS
  GroupStatistics
