SPECIFICATION FairSpec
CONSTANTS
  a = a
  b = b
  c = c
  Targets = {a, b, c}
  Rank <- MCRank
  BatchSize = 1
  MaxBatchFailures = 2
  Pauses = TRUE
CHECK_DEADLOCK FALSE
PROPERTY ConsecutiveFailuresSkipped
