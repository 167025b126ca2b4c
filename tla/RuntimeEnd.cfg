\* What stop() and the destructor bring about in two runs without any timeout,
\* and with a library that need not answer.
CONSTANTS
  Calls = {c1}
  Clients = {t1}
  Contract = {"runs", "calls"}
  Destroys = TRUE
  MaxInFlight = 1
  SoftLimit = 24
  PerCall = 4
  OpenCounts <- QuietProcess
  MaxEpoch = 2
  HasOp = FALSE
  KeepAlive = FALSE
  DegradeAfter = 1
  PendingSweepAt = 1
SPECIFICATION FairSpec
PROPERTY StopReleasesCallers
PROPERTY StopEnds
PROPERTY JoinEnds
CHECK_DEADLOCK FALSE
