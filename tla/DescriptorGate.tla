--------------------------- MODULE DescriptorGate ---------------------------
(***************************************************************************)
(* What the descriptor budget is for.  One process holds the descriptors   *)
(* of the host, which come and go as they like, and the sockets verified   *)
(* calls open.  The proxy only controls how many calls it admits; nothing  *)
(* tells it when a call opens its sockets, so openCount may or may not     *)
(* include those of the calls already admitted.                            *)
(***************************************************************************)
EXTENDS ResourceBudget

CONSTANTS
  SoftLimit,    \* RLIMIT_NOFILE, known
  PerCall,      \* m_descriptorsPerCall: sockets one call opens at most
  MaxInFlight,  \* cfg.maxInFlight
  HostMax       \* bound: descriptors the rest of the process ever holds

ASSUME BudgetAssumption ==
  /\ SoftLimit \in Nat \ {0}
  /\ PerCall \in Nat \ {0}
  /\ MaxInFlight \in Nat \ {0}
  /\ HostMax \in Nat
  /\ HostMax <= SoftLimit

VARIABLES
  host,       \* descriptors held by the rest of the process
  sockets,    \* descriptors held by admitted calls
  admitted,   \* m_admitted
  effective,  \* m_effectiveMaxInFlight
  up,         \* a run is being served
  base        \* history: the value of host at the latest admission

vars == <<host, sockets, admitted, effective, up, base>>

openCount == host + sockets

Init ==
  /\ host \in 0..HostMax
  /\ sockets = 0
  /\ admitted = 0
  /\ effective = MaxInFlight
  /\ up = FALSE
  /\ base = 0

-----------------------------------------------------------------------------
\* start(): the ceiling is fixed from the budget of this moment, and a run
\* with no room for a single call is refused.
Start ==
  LET capacity == Capacity(SoftLimit, openCount, PerCall)
  IN  /\ ~up
      /\ effective' = EffectiveCeiling(MaxInFlight, capacity)
      /\ up' = (capacity # 0)
      /\ admitted' = 0
      /\ UNCHANGED <<host, sockets, base>>

\* teardown(): freeing the context closes what its calls had open.
Stop ==
  /\ up
  /\ up' = FALSE
  /\ admitted' = 0
  /\ sockets' = 0
  /\ UNCHANGED <<host, effective, base>>

\* One reservation, by a user call or by a heartbeat.
Admit ==
  /\ up
  /\ ~Blocked(admitted, effective, SoftLimit, openCount, PerCall)
  /\ admitted' = admitted + 1
  /\ base' = host
  /\ UNCHANGED <<host, sockets, effective, up>>

\* An admitted call opens one more of the sockets it may use.
Dial ==
  /\ sockets < PerCall * admitted
  /\ sockets' = sockets + 1
  /\ UNCHANGED <<host, admitted, effective, up, base>>

\* A call completes, its sockets are closed and its reservation released.
Finish ==
  /\ admitted > 0
  /\ admitted' = admitted - 1
  /\ sockets' \in {k \in 0..sockets : k <= PerCall * (admitted - 1)}
  /\ UNCHANGED <<host, effective, up, base>>

\* The rest of the process opens or closes a descriptor.
HostOpens ==
  /\ host < HostMax
  /\ openCount < SoftLimit
  /\ host' = host + 1
  /\ UNCHANGED <<sockets, admitted, effective, up, base>>

HostCloses ==
  /\ host > 0
  /\ host' = host - 1
  /\ UNCHANGED <<sockets, admitted, effective, up, base>>

Next ==
  \/ Start \/ Stop \/ Admit \/ Dial \/ Finish
  \/ HostOpens \/ HostCloses

Spec == Init /\ [][Next]_vars

-----------------------------------------------------------------------------
\* Every variable keeps its type, and sockets exist only under a reservation.
TypeOK ==
  /\ host \in 0..HostMax
  /\ base \in 0..HostMax
  /\ admitted \in Nat
  /\ sockets \in 0..(PerCall * admitted)
  /\ effective \in 0..MaxInFlight
  /\ up \in BOOLEAN

\* With every admitted call at its full fan-out, and the host as it was at the
\* latest admission, the host's reserve is still untouched: admitting looks at
\* descriptors that are not open yet, not only at openCount.
ReserveUntouched ==
  admitted > 0 => base + PerCall * admitted + Reserve(SoftLimit) <= SoftLimit

\* The process cannot run into its descriptor limit because of verified calls
\* while the host grows by at most the reserve after the latest admission.
NoExhaustion ==
  (admitted > 0 /\ host - base <= Reserve(SoftLimit)) => openCount <= SoftLimit

\* start() and admission agree: a run that start() lets up, with the ceiling
\* of resource_budget.cpp, can reserve its first call by the live check of
\* admissionBlockLocked().
StartedRunCanAdmit ==
  [][~up /\ up' => ~Blocked(admitted', effective', SoftLimit, openCount', PerCall)]_vars
=============================================================================
