SPECIFICATION FairSpec
CONSTANTS
  a = a
  b = b
  c = c
  Targets = {a, b, c}
  Rank <- MCRank
  BatchSize = 2
  MaxBatchFailures = 3
  Pauses = TRUE
CHECK_DEADLOCK FALSE
INVARIANT NeverCrashes
