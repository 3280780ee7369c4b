SPECIFICATION FairSpec
CONSTANTS
  a = a
  b = b
  c = c
  Targets = {a, b, c}
  Rank <- MCRank
  BatchSize = 2
  MaxBatchFailures = 1
  Pauses = TRUE
CHECK_DEADLOCK FALSE
INVARIANTS TypeOK OncePerCycle
PROPERTIES CycleCoversAll TurnComes CancelEndsRun
