------------------------ MODULE DescriptorGateProofs ------------------------
(***************************************************************************)
(* The descriptor budget holds for every limit, fan-out, ceiling and host. *)
(* Products and quotients are confined to the first lemmas, so that the    *)
(* step cases are linear arithmetic over PerCall * admitted.               *)
(***************************************************************************)
EXTENDS DescriptorGate, TLAPS

\* The quotient the budget divides by: a \div b operations of b fit into a.
LEMMA QuotientFits ==
  ASSUME NEW a \in Int, NEW b \in Nat \ {0}
  PROVE  a \div b \in Int /\ b * (a \div b) <= a
<1>1. a \div b \in Int
  OBVIOUS
<1>2. a = (b * (a \div b)) + (a % b) /\ a % b >= 0
  OBVIOUS
<1> QED
  BY <1>1, <1>2

\* A larger number of operations needs at least as many descriptors.
LEMMA FanOutMonotone ==
  ASSUME NEW p \in Nat, NEW m \in Int, NEW n \in Int, m <= n
  PROVE  p * m <= p * n
<1>1. p * (n - m) >= 0
  OBVIOUS
<1>2. p * (n - m) = p * n - p * m
  OBVIOUS
<1> QED
  BY <1>1, <1>2

\* One more call needs PerCall more descriptors.
LEMMA FanOutStep ==
  ASSUME NEW p \in Nat, NEW n \in Int
  PROVE  p * (n + 1) = p * n + p /\ p * (n - 1) = p * n - p /\ p * n \in Int
  OBVIOUS

\* descriptorReserve() keeps between 0 and 128 descriptors.
LEMMA ReserveType ==
  ASSUME NEW s \in Int
  PROVE  Reserve(s) \in 0..128
<1>1. s \div 4 \in Int
  OBVIOUS
<1> QED
  BY <1>1, SMT DEF Reserve, Lesser, Greater

\* descriptorOperationCapacity() yields an integer whatever it is given.
LEMMA CapacityType ==
  ASSUME NEW s \in Int, NEW open \in Int, NEW p \in Nat \ {0}
  PROVE  Capacity(s, open, p) \in Int
<1>1. s - open - Reserve(s) \in Int
  BY ReserveType
<1>2. (s - open - Reserve(s)) \div p \in Int
  BY <1>1, QuotientFits
<1> QED
  BY <1>2, SMT DEF Capacity, Greater, Unknown

\* What the live check of admissionBlockLocked() buys: an admission beyond n
\* others leaves room for all n + 1 at full fan-out, reserve untouched.
LEMMA AdmissionFits ==
  ASSUME NEW s \in Nat, NEW open \in Nat, NEW p \in Nat \ {0},
         NEW n \in Nat, NEW e \in Int,
         ~Blocked(n, e, s, open, p)
  PROVE  /\ n < e
         /\ open + p * (n + 1) + Reserve(s) <= s
<1> DEFINE available == s - Reserve(s) - open
<1>1. Reserve(s) \in Int /\ available \in Int
  BY ReserveType
<1>2. n < e /\ n < Reservable(s, open, p)
  <2>1. Reservable(s, open, p) \in Int
    BY <1>1, QuotientFits DEF Reservable
  <2> QED
    BY <2>1 DEF Blocked
<1>3. available > 0 /\ Reservable(s, open, p) = available \div p
  BY <1>1, <1>2 DEF Reservable
<1>4. available \div p \in Int /\ p * (available \div p) <= available
  BY <1>1, QuotientFits
<1>5. p * (n + 1) <= p * (available \div p)
  <2>1. n + 1 <= available \div p
    BY <1>2, <1>3, <1>4
  <2> QED
    BY <2>1, <1>4, FanOutMonotone
<1>6. p * (n + 1) \in Int /\ p * (available \div p) \in Int
  BY <1>4
<1>7. p * (n + 1) <= available
  BY <1>1, <1>4, <1>5, <1>6
<1> HIDE DEF available
<1>8. open + p * (n + 1) + Reserve(s) <= s
  <2>1. available = s - Reserve(s) - open
    BY DEF available
  <2> DEFINE x == p * (n + 1)
  <2>2. x \in Int /\ x <= available
    BY <1>6, <1>7
  <2> HIDE DEF x
  <2>3. open + x + Reserve(s) <= s
    BY <1>1, <2>1, <2>2
  <2> QED
    BY <2>3 DEF x
<1> QED
  BY <1>2, <1>8

-----------------------------------------------------------------------------
\* Between runs nothing is reserved, so a new run starts with no sockets open.
IdleHoldsNothing == ~up => admitted = 0

\* The inductive invariant.
IInv == TypeOK /\ ReserveUntouched /\ IdleHoldsNothing

LEMMA InitIInv == Init => IInv
<1> SUFFICES ASSUME Init PROVE IInv
  OBVIOUS
<1>1. PerCall * admitted = 0 /\ admitted = 0
  BY BudgetAssumption DEF Init
<1>2. 0 \in 0..(PerCall * admitted)
  BY <1>1
<1>3. TypeOK
  <2>1. up \in BOOLEAN
    BY DEF Init
  <2>2. /\ host \in 0..HostMax
        /\ base \in 0..HostMax
        /\ admitted \in Nat
        /\ effective \in 0..MaxInFlight
    BY BudgetAssumption DEF Init
  <2>3. sockets \in 0..(PerCall * admitted)
    BY <1>2 DEF Init
  <2> QED
    BY <2>1, <2>2, <2>3 DEF TypeOK
<1>4. ReserveUntouched /\ IdleHoldsNothing
  BY <1>1 DEF ReserveUntouched, IdleHoldsNothing
<1> QED
  BY <1>3, <1>4 DEF IInv

LEMMA StepIInv == IInv /\ [Next]_vars => IInv'
<1> SUFFICES ASSUME IInv, [Next]_vars PROVE IInv'
  OBVIOUS
<1> USE BudgetAssumption
<1> USE DEF IInv, TypeOK, ReserveUntouched, IdleHoldsNothing
<1>0. /\ Reserve(SoftLimit) \in 0..128
      /\ PerCall * 0 = 0
      /\ PerCall * admitted \in Int
      /\ PerCall * (admitted + 1) = PerCall * admitted + PerCall
      /\ PerCall * (admitted - 1) = PerCall * admitted - PerCall
  BY ReserveType, FanOutStep
<1>1. CASE Start
  <2>1. Capacity(SoftLimit, openCount, PerCall) \in Int
    BY <1>0, CapacityType DEF openCount
  <2>2. effective' \in 0..MaxInFlight
    BY <1>1, <2>1 DEF Start, EffectiveCeiling, Lesser
  <2> QED
    BY <1>0, <1>1, <2>2 DEF Start
<1>2. CASE Stop
  <2>1. PerCall * admitted' = 0 /\ admitted' = 0 /\ sockets' = 0
    BY <1>0, <1>2 DEF Stop
  <2>2. sockets' \in 0..(PerCall * admitted')
    BY <2>1
  <2>3. up' \in BOOLEAN
    BY <1>2 DEF Stop
  <2>4. TypeOK'
    BY <1>2, <2>1, <2>2, <2>3 DEF Stop
  <2>5. ReserveUntouched' /\ IdleHoldsNothing'
    BY <2>1
  <2> QED
    BY <2>4, <2>5
<1>3. CASE Admit
  <2>1. openCount \in Nat /\ host <= openCount
    BY <1>0 DEF openCount
  <2>2. openCount + PerCall * (admitted + 1) + Reserve(SoftLimit) <= SoftLimit
    BY <1>3, <2>1, AdmissionFits DEF Admit
  <2> QED
    BY <1>0, <1>3, <2>1, <2>2 DEF Admit
<1>4. CASE Dial
  BY <1>0, <1>4 DEF Dial
<1>5. CASE Finish
  BY <1>0, <1>5 DEF Finish
<1>6. CASE HostOpens
  BY <1>0, <1>6 DEF HostOpens
<1>7. CASE HostCloses
  BY <1>0, <1>7 DEF HostCloses
<1>8. CASE UNCHANGED vars
  BY <1>8 DEF vars
<1> QED
  BY <1>1, <1>2, <1>3, <1>4, <1>5, <1>6, <1>7, <1>8 DEF Next

LEMMA Inductive == Spec => []IInv
<1> QED
  BY InitIInv, StepIInv, PTL DEF Spec

-----------------------------------------------------------------------------
\* Every variable keeps its type: a call has no socket beyond its reservation.
THEOREM TypeCorrect == Spec => []TypeOK
<1>1. IInv => TypeOK
  BY DEF IInv
<1> QED
  BY <1>1, Inductive, PTL

\* Admission never plans with the descriptors reserved for the host, whatever
\* part of the admitted calls' sockets is open yet.
THEOREM ReserveIsUntouched == Spec => []ReserveUntouched
<1>1. IInv => ReserveUntouched
  BY DEF IInv
<1> QED
  BY <1>1, Inductive, PTL

\* Verified calls never push the process over its limit while the host grows
\* by at most its reserve after the latest admission.
THEOREM NeverExhausted == Spec => []NoExhaustion
<1>1. IInv => NoExhaustion
  BY BudgetAssumption, ReserveType, FanOutStep
  DEF IInv, TypeOK, ReserveUntouched, NoExhaustion, openCount
<1> QED
  BY <1>1, Inductive, PTL

\* The budget start() computes and the check every admission makes agree: a
\* run that was let up can reserve its first call.
THEOREM StartAdmits == Spec => StartedRunCanAdmit
<1> DEFINE A == ~up /\ up' =>
                  ~Blocked(admitted', effective', SoftLimit, openCount', PerCall)
<1>1. IInv /\ [Next]_vars => [A]_vars
  <2> SUFFICES ASSUME IInv, Next, ~up, up'
               PROVE  ~Blocked(admitted', effective', SoftLimit, openCount', PerCall)
    OBVIOUS
  <2> USE BudgetAssumption
  <2> DEFINE available == SoftLimit - openCount - Reserve(SoftLimit)
  <2>1. Start
    BY DEF Next, Stop, Admit, Dial, Finish, HostOpens, HostCloses
  <2>2. openCount \in Nat /\ openCount' = openCount /\ admitted' = 0
    BY <2>1, FanOutStep DEF Start, openCount, IInv, TypeOK
  <2>3. Reserve(SoftLimit) \in 0..128 /\ available \in Int
    BY <2>2, ReserveType
  <2>4. available \div PerCall \in Int /\ PerCall * (available \div PerCall) <= available
    BY <2>3, QuotientFits
  <2>5. Capacity(SoftLimit, openCount, PerCall) = Greater(0, available \div PerCall)
    BY <2>2 DEF Capacity
  <2>6. available \div PerCall >= 1
    <3>1. Capacity(SoftLimit, openCount, PerCall) # 0
      BY <2>1, Zenon DEF Start
    <3> QED
      BY <2>4, <2>5, <3>1 DEF Greater
  <2>7. effective' >= 1
    BY <2>1, <2>4, <2>5, <2>6 DEF Start, EffectiveCeiling, Lesser, Greater
  <2>8. available > 0
    <3>1. PerCall * 1 <= PerCall * (available \div PerCall)
      BY <2>4, <2>6, FanOutMonotone
    <3>2. PerCall * (available \div PerCall) \in Int /\ PerCall * 1 = PerCall
      BY <2>4
    <3> QED
      BY <2>3, <2>4, <3>1, <3>2
  <2>9. SoftLimit - Reserve(SoftLimit) - openCount = available
    BY <2>2, <2>3
  <2>10. Reservable(SoftLimit, openCount, PerCall) = available \div PerCall
    BY <2>8, <2>9 DEF Reservable
  <2>11. effective' \in Int
    BY <2>1, <2>4, <2>5, <2>6 DEF Start, EffectiveCeiling, Lesser, Greater
  <2>12. Reservable(SoftLimit, openCount', PerCall) >= 1
    BY <2>2, <2>6, <2>10
  <2> QED
    BY <2>2, <2>7, <2>11, <2>4, <2>10, <2>12 DEF Blocked
<1> QED
  BY <1>1, Inductive, PTL DEF Spec, StartedRunCanAdmit
=============================================================================
