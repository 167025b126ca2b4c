\* One client, one call after the other, start() again after start() timed out.
CONSTANTS
  Calls = {}
  Clients = {t1}
  Contract = {}
  Destroys = FALSE
  MaxInFlight = 1
  SoftLimit = 24
  PerCall = 4
  OpenCounts <- QuietProcess
  MaxEpoch = 2
  HasOp = FALSE
  KeepAlive = FALSE
  DegradeAfter = 1
  PendingSweepAt = 1
SPECIFICATION Spec
PROPERTY StopLeavesNoRun
CHECK_DEADLOCK FALSE
