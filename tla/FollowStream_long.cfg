SPECIFICATION FairSpec
CONSTANTS
  TPS = 2
  MaxTime = 2
  MaxLog = 3
  LineLens = {1, 3}
  MaxLine = 2
  WindowBytes = 3
  Tears = {}
  SweepSince = 0
  WatchSince = 0
CHECK_DEADLOCK FALSE
PROPERTY LinesBehindLongAreSent
