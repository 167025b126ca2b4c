--------------------------- MODULE ResourceBudget ---------------------------
(***************************************************************************)
(* The file-descriptor arithmetic of resource_budget.cpp, and the two      *)
(* places in proxy_runtime.cpp that apply it: start(), which fixes the     *)
(* concurrent call ceiling of a run, and admissionBlockLocked(), which     *)
(* re-checks the live budget before every reservation.  Integers are       *)
(* int64_t in the code; no expression here leaves that range for a limit   *)
(* an operating system reports, and the one that could (the fan-out        *)
(* estimate) saturates in the code as it does below.                       *)
(*                                                                         *)
(* C++ division truncates toward zero and \div rounds down.  Both agree    *)
(* wherever the quotient is used: the code clamps negative values to 0.    *)
(***************************************************************************)
EXTENDS Integers

Lesser(a, b)  == IF a <= b THEN a ELSE b
Greater(a, b) == IF a >= b THEN a ELSE b

\* The value a DescriptorSnapshot field has when the platform cannot tell.
Unknown == -1

\* Descriptors kept back for the host: a quarter of the limit, within 16..128.
Reserve(softLimit) ==
  IF softLimit <= 0 THEN 0 ELSE Lesser(128, Greater(16, softLimit \div 4))

\* Mutant of Capacity: the host's reserve is forgotten.
CapacityWithoutReserve(softLimit, openCount, perCall) ==
  IF softLimit < 0 \/ openCount < 0 \/ perCall <= 0
  THEN Unknown
  ELSE Greater(0, (softLimit - openCount) \div perCall)

\* New operations the limit has room for, or Unknown.
Capacity(softLimit, openCount, perCall) ==
  IF softLimit < 0 \/ openCount < 0 \/ perCall <= 0
  THEN Unknown
  ELSE Greater(0, (softLimit - openCount - Reserve(softLimit)) \div perCall)

\* Upstream may open parallelBlockDownloads connections for one call, and two
\* more for the primary provider and DNS/TLS; never fewer than four.
PerCallEstimate(parallelBlockDownloads, int64Max) ==
  Greater(4, IF parallelBlockDownloads > int64Max - 2
             THEN int64Max
             ELSE parallelBlockDownloads + 2)

\* The ceiling start() gives a run: the configured one, lowered to what the
\* limit has room for when the limit is known.
EffectiveCeiling(maxInFlight, capacity) ==
  IF capacity >= 0 THEN Lesser(maxInFlight, capacity) ELSE maxInFlight

\* Mutant of Reservable: the reserve is not kept back.
ReservableWithoutReserve(softLimit, openCount, perCall) ==
  LET available == softLimit - openCount
  IN  IF available > 0 THEN available \div perCall ELSE 0

\* Calls the live budget can carry in total, the admitted ones counted again.
Reservable(softLimit, openCount, perCall) ==
  LET available == softLimit - Reserve(softLimit) - openCount
  IN  IF available > 0 THEN available \div perCall ELSE 0

\* Mutant of Blocked: off by one, a full house admits one more.
BlockedTooLate(admitted, effective, softLimit, openCount, perCall) ==
  \/ admitted > effective
  \/ /\ softLimit >= 0 /\ openCount >= 0
     /\ admitted > Reservable(softLimit, openCount, perCall)

\* admissionBlockLocked(): no further call may be reserved now.
Blocked(admitted, effective, softLimit, openCount, perCall) ==
  \/ admitted >= effective
  \/ /\ softLimit >= 0 /\ openCount >= 0
     /\ admitted >= Reservable(softLimit, openCount, perCall)
=============================================================================
