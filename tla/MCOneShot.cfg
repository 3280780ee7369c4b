SPECIFICATION FairSpec
CONSTANTS
  a = a
  b = b
  c = c
  Workers = {w1, w2}
  Cap = 1
  Targets = {a, b, c}
  NamespaceOf <- MCNamespaceOf
  LinesOf <- MCLinesOf
  FlagSets <- MCFlagSets
  MaxStreams = 2
CHECK_DEADLOCK FALSE
INVARIANTS TypeOK NoSendOnClosed ExitCodeIsTrue
PROPERTIES ImplementsPipeline ScanEnds
