SPECIFICATION Spec
CONSTANTS
  p1 = p1
  p2 = p2
  t1 = t1
  t2 = t2
  t3 = t3
  k1 = k1
  k2 = k2
  k3 = k3
  NoProc = NoProc
  NoThread = NoThread
  NoKey = NoKey
  Procs = {p1, p2}
  Threads = {t1, t2, t3}
  ProcOf <- MCProcOf
  JsonProcs = {p1}
  Keys = {k1, k2}
  Faults = {"kill", "power", "torn", "short", "sync", "sink", "read"}
  MaxOpens = 3
SYMMETRY MCSymmetry
CHECK_DEADLOCK FALSE
INVARIANTS NoStaleSeen RecordedOnce HiddenByKillOrSink
