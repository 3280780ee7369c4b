SPECIFICATION FairSpec
CONSTANTS
  Pods = {p1, p2}
  Sweeps = TRUE
  Beats = TRUE
  Cap = 2
  MaxLines = 3
  MaxNew = 2
CHECK_DEADLOCK FALSE
INVARIANTS TypeOK NoSendOnClosed FinalSummaryIsComplete
PROPERTIES FoundUnderLock SignalEndsProcess
