\* Every interleaving of three callers, the heartbeat and three runs.
CONSTANTS
  Callers = {c1, c2, c3}
  MaxInFlight = 2
  SoftLimit = 24
  PerCall = 4
  OpenCounts <- MCOpenCounts
  MaxEpoch = 3
SPECIFICATION FairSpec
INVARIANT TypeOK
INVARIANT Accounting
INVARIANT CeilingRespected
INVARIANT LineConsistent
PROPERTY ImplementsFifo
PROPERTY NoStarvation
