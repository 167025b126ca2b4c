\* Two runs one after the other with the heartbeat, one of which may be refused
\* for want of descriptors.
\* The client may stop for good once it has used up its two starts.
CONSTANTS
  Calls = {c1}
  Clients = {t1}
  Contract = {"runs", "calls"}
  Destroys = FALSE
  MaxInFlight = 1
  SoftLimit = 24
  PerCall = 4
  OpenCounts <- MCOpenCounts
  MaxEpoch = 2
  HasOp = FALSE
  KeepAlive = TRUE
  DegradeAfter = 1
  PendingSweepAt = 2
SPECIFICATION Spec
INVARIANT InFlightCounted
INVARIANT PendingBounded
PROPERTY StopLeavesNoRun
PROPERTY StartedIsServing
PROPERTY KeepsAdmissionContract
PROPERTY KeepsHealthContract
PROPERTY KeepsRunLife
CHECK_DEADLOCK FALSE
