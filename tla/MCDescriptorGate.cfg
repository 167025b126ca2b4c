\* A limit of 32 keeps 16 in reserve, so at most four calls of four sockets
\* fit, and the host can grow by more than the reserve.
CONSTANTS
  SoftLimit = 32
  PerCall <- MCPerCall
  MaxInFlight = 3
  HostMax = 20
SPECIFICATION Spec
INVARIANT ReserveUntouched
INVARIANT NoExhaustion
PROPERTY StartedRunCanAdmit
