SPECIFICATION FairSinkSpec
CONSTANTS
  Workers = {w1, w2}
  Streams = {"s1", "s2"}
  Input <- MCInput
  Cap = 1
  Known <- MCKnown
  Settings <- MCSettings
  NoWriter = nobody
  FindingParts = 2
  MaxFailures = 1
INVARIANTS SinkTypeOK EmittedOnce TotalIsEmitted CompleteWithoutSignal RecordsAreWhole FailureIsContained
PROPERTY RunReturns
CHECK_DEADLOCK FALSE
