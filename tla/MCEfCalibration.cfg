\* Four training queries in one, two, or more buckets than queries.
CONSTANTS
  NumQueries = 4
  MaxScore = 5
  K = 2
  EfUpper = 5
  MinQueries = 1
  Unit = 1200
  Eps = 1
  Expected = 1000
  Easy = 800
  BucketCounts = {1, 2, 5}
  ScoreLists <- MCScoreLists
  ConvLists <- MCConvLists
  Outcomes <- MCOutcomes
  Junk <- MCJunk
  NaN <- MCNaN
  IntMax = 2000
SPECIFICATION Spec
CHECK_DEADLOCK FALSE
INVARIANTS
  TypeOK
  LeastEfChosen
  FilledFromGroups
  ServedByOwnBucket
  EstimateEnclosed
PROPERTIES
  CalibrationEnds
