SPECIFICATION FairSpec
CONSTANTS
  Names = {n1, n2}
  Containers = {c1}
  MaxGen = 2
  MaxQueue = 2
  NoPod = NoPod
CHECK_DEADLOCK FALSE
INVARIANTS TypeOK NoneMissing StaleIsReplaced
PROPERTIES RunningIsIndexed GoneIsDropped
