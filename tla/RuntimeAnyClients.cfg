\* Two clients that start and stop whenever they like, over each other and over
\* calls of earlier runs.
CONSTANTS
  Calls = {c1}
  Clients = {t1, t2}
  Contract = {}
  Destroys = TRUE
  MaxInFlight = 1
  SoftLimit = 24
  PerCall = 4
  OpenCounts <- QuietProcess
  MaxEpoch = 2
  HasOp = FALSE
  KeepAlive = FALSE
  DegradeAfter = 1
  PendingSweepAt = 1
SYMMETRY RuntimeSymmetry
SPECIFICATION Spec
INVARIANT ServingHasContext
INVARIANT StartIsOwed
INVARIANT DestroyedIsAtRest
CHECK_DEADLOCK FALSE
