\* L1 and OP sync with heartbeats; three failures in a row degrade.
CONSTANTS
  HasOp = TRUE
  KeepAlive = TRUE
  DegradeAfter = 3
SPECIFICATION FairSpec
INVARIANT TypeOK
INVARIANT HealthReported
INVARIANT ServedOnlyWhenUp
PROPERTY GoodCycleIsComplete
PROPERTY ShutdownIsFinal
PROPERTY Recovers
PROPERTY OutageReported
