SPECIFICATION FairSpec
CONSTANTS
  TPS = 2
  MaxTime = 3
  MaxLog = 3
  LineLens = {1, 2, 3}
  MaxLine = 2
  WindowBytes = 3
  Tears = {"payload"}
  SweepSince = 2
  WatchSince = 2
CHECK_DEADLOCK FALSE
INVARIANTS TypeOK NoGap LostPairWasCut
PROPERTY EveryLineIsSent
