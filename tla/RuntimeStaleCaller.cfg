\* Runs are started one after the other, but calls of the first may still be inside.
CONSTANTS
  Calls = {c1, c2}
  Clients = {t1}
  Contract = {"runs"}
  Destroys = FALSE
  MaxInFlight = 1
  SoftLimit = 24
  PerCall = 4
  OpenCounts <- QuietProcess
  MaxEpoch = 2
  HasOp = FALSE
  KeepAlive = FALSE
  DegradeAfter = 1
  PendingSweepAt = 1
SPECIFICATION Spec
INVARIANT LoadBounded
CHECK_DEADLOCK FALSE
