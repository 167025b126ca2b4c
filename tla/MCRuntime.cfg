\* Two calls and both syncs compete in one run; the contract is kept.
CONSTANTS
  Calls = {c1, c2}
  Clients = {t1}
  Contract = {"runs", "calls"}
  Destroys = FALSE
  MaxInFlight = 1
  SoftLimit = 24
  PerCall = 4
  OpenCounts <- QuietProcess
  MaxEpoch = 1
  HasOp = TRUE
  KeepAlive = FALSE
  DegradeAfter = 1
  PendingSweepAt = 1
SYMMETRY RuntimeSymmetry
SPECIFICATION Spec
INVARIANT LoadBounded
INVARIANT NoOrphan
PROPERTY ImplementsCallService
