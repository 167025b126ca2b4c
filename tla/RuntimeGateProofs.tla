-------------------------- MODULE RuntimeGateProofs --------------------------
(***************************************************************************)
(* Clients that keep both parts of their contract: every step of the       *)
(* runtime is then a step of Admission, so what is proved there of the     *)
(* gate holds of the runtime, and no run is loaded beyond its ceiling.     *)
(***************************************************************************)
EXTENDS RuntimeCallsProofs

\* The proofs about Admission, read for the runtime's gate: the same module as
\* AdmissionContract, with its lemmas.
GateProofs ==
  INSTANCE AdmissionProofs WITH Callers <- Calls, run <- GateRun, beating <- BeatReserved

LEMMA GateAssumed == GateProofs!GateAssumption
<1>1. GateProofs!IsFiniteSet(Calls)
  BY RuntimeAssumption DEF IsFiniteSet, GateProofs!IsFiniteSet
<1> QED
  BY <1>1, RuntimeAssumption
  DEF GateProofs!GateAssumption, GateProofs!Beats, Beat, GateProofs!Unknown, Unknown

LEMMA SameInit == AdmissionContract!Init <=> GateProofs!Init
  BY DEF AdmissionContract!Init, GateProofs!Init

LEMMA SameRemove ==
  \A c \in Calls : AdmissionContract!RemoveTicket(c) <=> GateProofs!RemoveTicket(c)
  BY Zenon
  DEF AdmissionContract!RemoveTicket, GateProofs!RemoveTicket,
      AdmissionContract!RemoveAt, GateProofs!RemoveAt

LEMMA SameStep ==
  [AdmissionContract!Next]_(AdmissionContract!vars) <=> [GateProofs!Next]_(GateProofs!vars)
<1> USE DEF AdmissionContract!BlockedAt, GateProofs!BlockedAt,
  AdmissionContract!Blocked, GateProofs!Blocked,
  AdmissionContract!Reservable, GateProofs!Reservable,
  AdmissionContract!Reserve, GateProofs!Reserve,
  AdmissionContract!Lesser, GateProofs!Lesser,
  AdmissionContract!Greater, GateProofs!Greater,
  AdmissionContract!Closing, GateProofs!Closing,
  AdmissionContract!Waiting, GateProofs!Waiting,
  AdmissionContract!Outdated, GateProofs!Outdated,
  AdmissionContract!EnterRefused, GateProofs!EnterRefused,
  AdmissionContract!EnterAdmitted, GateProofs!EnterAdmitted,
  AdmissionContract!EnterQueued, GateProofs!EnterQueued,
  AdmissionContract!WakeRefused, GateProofs!WakeRefused,
  AdmissionContract!WakeAdmitted, GateProofs!WakeAdmitted,
  AdmissionContract!WakeTimedOut, GateProofs!WakeTimedOut,
  AdmissionContract!TryAdmit, GateProofs!TryAdmit,
  AdmissionContract!ReleaseAdmission, GateProofs!ReleaseAdmission,
  AdmissionContract!StartResets, GateProofs!StartResets,
  AdmissionContract!SetCeiling, GateProofs!SetCeiling,
  AdmissionContract!TeardownResets, GateProofs!TeardownResets,
  AdmissionContract!Enter, GateProofs!Enter,
  AdmissionContract!Wake, GateProofs!Wake,
  AdmissionContract!Finish, GateProofs!Finish,
  AdmissionContract!Return, GateProofs!Return,
  AdmissionContract!Beat, GateProofs!Beat,
  AdmissionContract!BeatFinish, GateProofs!BeatFinish,
  AdmissionContract!StopRequest, GateProofs!StopRequest,
  AdmissionContract!ShutdownRequest, GateProofs!ShutdownRequest,
  AdmissionContract!RunEnds, GateProofs!RunEnds,
  AdmissionContract!RunStarts, GateProofs!RunStarts,
  AdmissionContract!RunSized, GateProofs!RunSized,
  AdmissionContract!RunFails, GateProofs!RunFails,
  AdmissionContract!Holders, GateProofs!Holders,
  AdmissionContract!envVars, GateProofs!envVars,
  AdmissionContract!gateVars, GateProofs!gateVars,
  AdmissionContract!vars, GateProofs!vars
<1>1. ASSUME NEW c \in Calls PROVE AdmissionContract!Enter(c) <=> GateProofs!Enter(c)
  BY Zenon
<1>2. ASSUME NEW c \in Calls PROVE AdmissionContract!Wake(c) <=> GateProofs!Wake(c)
  BY SameRemove, Zenon
<1>3. ASSUME NEW c \in Calls PROVE AdmissionContract!Finish(c) <=> GateProofs!Finish(c)
  BY Zenon
<1>4. ASSUME NEW c \in Calls PROVE AdmissionContract!Return(c) <=> GateProofs!Return(c)
  BY Zenon
<1>5. /\ AdmissionContract!Beat <=> GateProofs!Beat
      /\ AdmissionContract!BeatFinish <=> GateProofs!BeatFinish
      /\ AdmissionContract!StopRequest <=> GateProofs!StopRequest
      /\ AdmissionContract!ShutdownRequest <=> GateProofs!ShutdownRequest
      /\ AdmissionContract!RunEnds <=> GateProofs!RunEnds
      /\ AdmissionContract!RunStarts <=> GateProofs!RunStarts
      /\ AdmissionContract!RunSized <=> GateProofs!RunSized
      /\ AdmissionContract!RunFails <=> GateProofs!RunFails
  BY Zenon
<1>6. AdmissionContract!vars = GateProofs!vars
  OBVIOUS
<1> QED
  BY <1>1, <1>2, <1>3, <1>4, <1>5, <1>6, Zenon DEF AdmissionContract!Next, GateProofs!Next
-----------------------------------------------------------------------------
(* Where a run is, as the gate sees it *)

Sizing == \E t \in Clients : ctl[t] = "sizing"

Bringing == \E t \in Clients : ctl[t] \in {"spawning", "posting"}

\* From the start of the prologue to the reset of the gate in teardown().
OnPlaces == Pumping \cup {"leaving", "draining", "freeing", "freed", "prologue", "null"}

\* Where an outstanding heartbeat has a reservation.
BeatPlaces == Pumping \cup {"leaving", "draining", "freeing", "freed"}

LEMMA RunIs ==
  /\ Sizing => GateRun = "starting"
  /\ ~Sizing /\ (Bringing \/ runRequested \/ proxy \in OnPlaces) => GateRun = "on"
  /\ ~Sizing /\ ~Bringing /\ ~runRequested /\ proxy \notin OnPlaces => GateRun = "off"
  BY DEF GateRun, Sizing, Bringing, OnPlaces, Ending

LEMMA RunIsNext ==
  /\ Sizing' => GateRun' = "starting"
  /\ ~Sizing' /\ (Bringing' \/ runRequested' \/ proxy' \in OnPlaces) => GateRun' = "on"
  /\ ~Sizing' /\ ~Bringing' /\ ~runRequested' /\ proxy' \notin OnPlaces =>
       GateRun' = "off"
  BY DEF GateRun, Sizing, Bringing, OnPlaces, Ending

LEMMA RunStays ==
  ASSUME UNCHANGED <<proxy, runRequested>>, Sizing' <=> Sizing, Bringing' <=> Bringing
  PROVE  UNCHANGED GateRun
  BY DEF GateRun, Sizing, Bringing

LEMMA BeatIs ==
  /\ BeatReserved <=> beatInFlight /\ proxy \in BeatPlaces
  /\ BeatReserved' <=> beatInFlight' /\ proxy' \in BeatPlaces
  BY DEF BeatReserved, BeatPlaces, Ending

LEMMA GateRests ==
  ASSUME UNCHANGED gateVars, UNCHANGED flagVars, UNCHANGED GateRun,
         BeatReserved' <=> BeatReserved
  PROVE  UNCHANGED GateProofs!vars
<1>1. BeatReserved' = BeatReserved
  BY DEF BeatReserved
<1> QED
  BY <1>1 DEF gateVars, flagVars, GateProofs!vars, GateProofs!gateVars, GateProofs!envVars

-----------------------------------------------------------------------------
(* What the reservations have to do with calls, queue and library *)

\* A call past the gate has its reservation, unless a teardown took it; what is
\* queued for the library or handed to it has one.
Reserved ==
  \A c \in Calls :
    /\ call[c] \in {"reserved", "aborting"} =>
         gate[c] = "holding" \/ (gate[c] = "outside" /\ proxy \notin BeatPlaces)
    /\ c \in lib \cup Range(cmdQueue) => gate[c] = "holding"

\* Until its context exists a new run has admitted nobody.
Fresh ==
  Bringing \/ runRequested \/ proxy \in {"prologue", "null"} =>
    /\ \A c \in Calls : CallAtRest(c) /\ gate[c] # "holding"
    /\ queue = <<>>

\* Who is where when the gate is reset.
InTime ==
  /\ proxy = "prologue" => ~beatInFlight
  /\ proxy \in {"leaving", "draining", "freeing", "freed"} => Closing
  /\ shutdown => \E t \in Clients : ctl[t] \in DestroyPlaces
  /\ (\E t \in Clients : ctl[t] = "resetting") => epoch < MaxEpoch

Gated == Reserved /\ Fresh /\ InTime

GateInv ==
  /\ RunShape /\ OwnerAlone /\ RunsInTurn /\ Ledger /\ Sheltered
  /\ Gated
  /\ GateProofs!IInv

LEMMA InitGated == Init => Gated
<1> SUFFICES ASSUME Init PROVE Gated
  OBVIOUS
<1>1. Reserved
  BY DEF Init, Reserved, Range
<1>2. Fresh
  BY DEF Init, Fresh, Bringing
<1>3. InTime
  BY DEF Init, InTime, DestroyPlaces
<1> QED
  BY <1>1, <1>2, <1>3 DEF Gated

LEMMA InitGate == Init => GateProofs!Init
  BY DEF Init, GateProofs!Init, GateRun, BeatReserved, Pumping, Ending

LEMMA GateTypes ==
  ASSUME GateProofs!IInv
  PROVE  /\ gate \in [Calls -> {"outside", "waiting", "holding", "refused"}]
         /\ queue \in Seq(Calls)
         /\ admitted \in Nat /\ epoch \in Nat
  BY RuntimeAssumption DEF GateProofs!IInv, GateProofs!TypeOK

-----------------------------------------------------------------------------
(* Every step of the runtime is one of the gate's *)

LEMMA GateOfStart ==
  ASSUME GateInv, NEW t \in Clients, Start(t)
  PROVE  [GateProofs!Next]_(GateProofs!vars)
<1>1. ctl[t] \in StartPlaces =>
        /\ proxy \in Resting /\ ~runRequested
        /\ \A u \in Clients \ {t} : ctl[u] \notin StartPlaces
  BY DEF GateInv, RunsInTurn
<1>2. \A pc \in Places : Go(t, pc) =>
        ctl'[t] = pc /\ \A u \in Clients \ {t} : ctl'[u] = ctl[u]
  BY Moves DEF GateInv, OwnerAlone
<1>3. CASE StartChecks(t) \/ StartReturns(t)
  <2>1. /\ UNCHANGED <<gateVars, flagVars, healthVars, proxy, runRequested>>
        /\ ctl[t] \in {"free", "startWait"}
        /\ \E pc \in Returned \cup {"resetting"} : Go(t, pc)
    BY <1>3, Zenon DEF StartChecks, StartReturns, runVars, startVars, Returned
  <2>2. /\ ctl'[t] \in Returned \cup {"resetting"}
        /\ \A u \in Clients \ {t} : ctl'[u] = ctl[u]
    BY <1>2, <2>1 DEF Places, StartPlaces
  <2>3. (Sizing' <=> Sizing) /\ (Bringing' <=> Bringing)
    BY <2>1, <2>2 DEF Sizing, Bringing, Returned
  <2>4. UNCHANGED beatInFlight
    BY <2>1 DEF healthVars, beatVars
  <2> QED
    BY <2>1, <2>3, <2>4, RunStays, BeatIs, GateRests
<1>4. CASE StartResets(t)
  <2>1. /\ UNCHANGED <<shutdown, proxy, runRequested>>
        /\ ctl[t] = "resetting" /\ Go(t, "sizing")
    BY <1>4, Zenon DEF StartResets, runVars, startVars
  <2>2. ctl'[t] = "sizing"
    BY <1>2, <2>1 DEF Places, StartPlaces
  <2>3. GateRun = "off" /\ GateRun' = "starting"
    <3>1. ~Sizing /\ ~Bringing /\ Sizing'
      BY <1>1, <2>1, <2>2 DEF Sizing, Bringing, StartPlaces
    <3>2. ~runRequested /\ proxy \notin OnPlaces
      BY <1>1, <2>1 DEF StartPlaces, Resting, OnPlaces, Pumping
    <3> QED
      BY <3>1, <3>2, RunIs, RunIsNext
  <2>4. ~shutdown
    BY <2>1 DEF GateInv, Gated, InTime, OwnerAlone, DestroyPlaces
  <2>5. epoch < MaxEpoch
    BY <2>1 DEF GateInv, Gated, InTime
  <2>6. GateProofs!StartResets
    BY <1>4, Zenon DEF StartResets, Gate!StartResets, GateProofs!StartResets
  <2>7. BeatReserved' = BeatReserved
    BY <1>1, <2>1 DEF BeatReserved, StartPlaces, Resting, Pumping, Ending
  <2>8. GateProofs!RunStarts
    BY <2>1, <2>3, <2>4, <2>5, <2>6, <2>7 DEF GateProofs!RunStarts
  <2> QED
    BY <2>8, Zenon DEF GateProofs!Next
<1>5. CASE StartSizes(t)
  <2>1. /\ UNCHANGED <<flagVars, proxy, runRequested>> /\ ctl[t] = "sizing"
    BY <1>5, Zenon DEF StartSizes, runVars, startVars
  <2>2. PICK open \in OpenCounts :
          LET capacity == Capacity(SoftLimit, open, PerCall)
          IN  /\ Gate!SetCeiling(EffectiveCeiling(MaxInFlight, capacity))
              /\ \/ capacity = 0 /\ Go(t, "startFailed")
                 \/ capacity # 0 /\ Go(t, "spawning")
    BY <1>5, Zenon DEF StartSizes
  <2> DEFINE capacity == Capacity(SoftLimit, open, PerCall)
             ceiling == EffectiveCeiling(MaxInFlight, capacity)
  <2>3. capacity \in Nat \cup {Unknown}
    <3>1. /\ SoftLimit \in Int /\ open \in Int /\ PerCall \in Int /\ PerCall > 0
          /\ Reserve(SoftLimit) \in Int
      BY RuntimeAssumption DEF Unknown, Reserve, Lesser, Greater
    <3>2. (SoftLimit - open - Reserve(SoftLimit)) \div PerCall \in Int
      BY <3>1
    <3> QED
      BY <3>2 DEF Capacity, Greater, Unknown
  <2> HIDE DEF capacity
  <2>4. ceiling \in 0..MaxInFlight /\ (ceiling = 0 <=> capacity = 0)
    BY <2>3, RuntimeAssumption DEF EffectiveCeiling, Lesser, Unknown
  <2> HIDE DEF ceiling
  <2>5. /\ Gate!SetCeiling(ceiling)
        /\ \/ capacity = 0 /\ Go(t, "startFailed")
           \/ capacity # 0 /\ Go(t, "spawning")
    BY <2>2 DEF capacity, ceiling
  <2>6. /\ \/ capacity = 0 /\ ctl'[t] = "startFailed"
           \/ capacity # 0 /\ ctl'[t] = "spawning"
        /\ \A u \in Clients \ {t} : ctl'[u] = ctl[u]
    BY <1>2, <2>5 DEF Places, StartPlaces, Returned
  <2>7. /\ GateRun = "starting"
        /\ GateRun' = IF ceiling = 0 THEN "off" ELSE "on"
    <3>1. /\ Sizing /\ ~Sizing'
          /\ Bringing' <=> capacity # 0
      BY <1>1, <2>1, <2>6 DEF Sizing, Bringing, StartPlaces
    <3>2. ~runRequested' /\ proxy' \notin OnPlaces
      BY <1>1, <2>1 DEF StartPlaces, Resting, OnPlaces, Pumping
    <3> QED
      BY <2>4, <3>1, <3>2, RunIs, RunIsNext
  <2>8. GateProofs!SetCeiling(ceiling)
    BY <2>5, Zenon DEF Gate!SetCeiling, GateProofs!SetCeiling
  <2>9. BeatReserved' = BeatReserved
    BY <1>1, <2>1 DEF BeatReserved, StartPlaces, Resting, Pumping, Ending
  <2>10. GateProofs!RunSized
    BY <2>1, <2>4, <2>7, <2>8, <2>9 DEF GateProofs!RunSized, flagVars
  <2> QED
    BY <2>10, Zenon DEF GateProofs!Next
<1>6. CASE StartSpawns(t) \/ StartPosts(t)
  <2>1. /\ UNCHANGED <<gateVars, flagVars>>
        /\ \/ /\ ctl[t] = "spawning" /\ Go(t, "posting") /\ UNCHANGED runRequested
              /\ proxy' = IF proxy = "none" THEN "parked" ELSE proxy
           \/ /\ ctl[t] = "posting" /\ Go(t, "startWait") /\ runRequested'
              /\ UNCHANGED proxy
    BY <1>6, Zenon DEF StartSpawns, StartPosts, runVars, startVars
  <2>2. /\ ctl'[t] \in {"posting", "startWait"}
        /\ ctl'[t] = "posting" \/ runRequested'
        /\ \A u \in Clients \ {t} : ctl'[u] = ctl[u]
    BY <1>2, <2>1 DEF Places, StartPlaces
  <2>3. ~Sizing /\ ~Sizing' /\ Bringing /\ (Bringing' \/ runRequested')
    BY <1>1, <2>1, <2>2 DEF Sizing, Bringing, StartPlaces
  <2>4. UNCHANGED GateRun
    BY <2>3, RunIs, RunIsNext
  <2>5. BeatReserved' <=> BeatReserved
    BY <1>1, <2>1 DEF BeatReserved, StartPlaces, Resting, Pumping, Ending
  <2> QED
    BY <2>1, <2>4, <2>5, GateRests
<1> QED
  BY <1>3, <1>4, <1>5, <1>6, Zenon DEF Start

LEMMA GateOfStop ==
  ASSUME GateInv, NEW t \in Clients, Stop(t) \/ Destroy(t)
  PROVE  [GateProofs!Next]_(GateProofs!vars)
<1>1. UNCHANGED <<gateVars, healthVars, proxy, runRequested>>
  BY Zenon
  DEF Stop, StopChecks, StopRequests, StopReturns, ClientGoesOn, Destroy, DestroyChecks,
      DestroyShutsDown, DestroyJoins, runVars, startVars
<1>2. /\ ctl[t] \notin StartPlaces
      /\ \E pc \in Places \ StartPlaces : Go(t, pc)
  BY
  DEF Stop, StopChecks, StopRequests, StopReturns, ClientGoesOn, Destroy, DestroyChecks,
      DestroyShutsDown, DestroyJoins, Places, Returned, StartPlaces, StopPlaces,
      DestroyPlaces
<1>3. ctl'[t] \notin StartPlaces /\ \A u \in Clients \ {t} : ctl'[u] = ctl[u]
  BY <1>2, Moves DEF GateInv, OwnerAlone
<1>4. UNCHANGED GateRun
  <2>1. (Sizing' <=> Sizing) /\ (Bringing' <=> Bringing)
    BY <1>2, <1>3 DEF Sizing, Bringing, StartPlaces
  <2> QED
    BY <1>1, <2>1, RunStays
<1>5. BeatReserved' = BeatReserved
  BY <1>1 DEF BeatReserved, healthVars, beatVars
<1>6. CASE StopRequests(t)
  <2>1. stopRequested' = TRUE /\ UNCHANGED shutdown
    BY <1>6, Zenon DEF StopRequests
  <2>2. GateProofs!StopRequest
    BY <1>1, <1>4, <1>5, <2>1
    DEF GateProofs!StopRequest, GateProofs!gateVars, gateVars
  <2> QED
    BY <2>2, Zenon DEF GateProofs!Next
<1>7. CASE DestroyShutsDown(t)
  <2>1. shutdown' = TRUE /\ UNCHANGED stopRequested
    BY <1>7, Zenon DEF DestroyShutsDown
  <2>2. GateProofs!ShutdownRequest
    BY <1>1, <1>4, <1>5, <2>1
    DEF GateProofs!ShutdownRequest, GateProofs!gateVars, gateVars
  <2> QED
    BY <2>2, Zenon DEF GateProofs!Next
<1>8. CASE ~StopRequests(t) /\ ~DestroyShutsDown(t)
  <2>1. UNCHANGED flagVars
    BY <1>8, Zenon
    DEF Stop, StopChecks, StopReturns, ClientGoesOn, Destroy, DestroyChecks, DestroyJoins
  <2> QED
    BY <1>1, <1>4, <1>5, <2>1, GateRests
<1> QED
  BY <1>6, <1>7, <1>8, Zenon

LEMMA GateOfCall ==
  ASSUME GateInv, NEW c \in Calls, Caller(c) \/ Impatience(c)
  PROVE  [GateProofs!Next]_(GateProofs!vars)
<1>1. UNCHANGED <<ctl, proxy, runRequested>>
  BY OthersKeepClients
<1>2. UNCHANGED <<flagVars, healthVars>>
  BY Zenon
  DEF Caller, CallChecks, CallAtGate, CallEnqueues, CallAborts, CallReturns, Impatience,
      CallTimesOutInLine, CallTimesOut, proxyVars
<1>3. UNCHANGED GateRun /\ BeatReserved' = BeatReserved
  <2>1. (Sizing' <=> Sizing) /\ (Bringing' <=> Bringing)
    BY <1>1 DEF Sizing, Bringing
  <2>2. UNCHANGED beatInFlight
    BY <1>2 DEF healthVars, beatVars
  <2> QED
    BY <1>1, <2>1, <2>2, RunStays DEF BeatReserved
<1>4. UNCHANGED GateProofs!envVars
  BY <1>2, <1>3 DEF flagVars, GateProofs!envVars
<1>5. ASSUME GateProofs!Enter(c) \/ GateProofs!Wake(c) \/ GateProofs!Finish(c)
      PROVE  [GateProofs!Next]_(GateProofs!vars)
  BY <1>5, Zenon DEF GateProofs!Next
<1>6. CASE UNCHANGED gateVars
  BY <1>2, <1>3, <1>6, GateRests
<1>7. CASE CallAtGate(c)
  <2>1. CASE Gate!EnterRefused(c)
    <3>1. GateProofs!EnterRefused(c)
      BY <2>1, Zenon
      DEF Gate!EnterRefused, GateProofs!EnterRefused, Gate!Closing, GateProofs!Closing
    <3> QED
      BY <1>4, <1>5, <3>1, Zenon DEF GateProofs!Enter
  <2>2. CASE Gate!EnterAdmitted(c) \/ Gate!EnterQueued(c)
    <3>1. GateProofs!EnterAdmitted(c) \/ GateProofs!EnterQueued(c)
      BY <2>2, Zenon
      DEF Gate!EnterAdmitted, GateProofs!EnterAdmitted, Gate!EnterQueued,
          GateProofs!EnterQueued, Gate!Closing, GateProofs!Closing, Gate!BlockedAt,
          GateProofs!BlockedAt, Gate!Blocked, GateProofs!Blocked, Gate!Reservable,
          GateProofs!Reservable, Gate!Reserve, GateProofs!Reserve, Gate!Lesser,
          GateProofs!Lesser, Gate!Greater, GateProofs!Greater
    <3>2. ~Closing
      BY <2>2, Zenon DEF Gate!EnterAdmitted, Gate!EnterQueued, Gate!Closing, Closing
    <3>3. ~CallAtRest(c)
      BY <1>7 DEF CallAtGate, CallAtRest
    <3>4. GateRun = "on"
      <4>1. proxy \in Pumping /\ ~Sizing
        BY <3>2, <3>3 DEF GateInv, Sheltered, Sizing, StartPlaces
      <4> QED
        BY <4>1, RunIs DEF OnPlaces
    <3> QED
      BY <1>4, <1>5, <3>1, <3>4, Zenon DEF GateProofs!Enter
  <2>3. CASE Gate!WakeRefused(c) \/ Gate!WakeAdmitted(c)
    <3>1. GateProofs!WakeRefused(c) \/ GateProofs!WakeAdmitted(c)
      BY <2>3, Zenon
      DEF Gate!WakeRefused, GateProofs!WakeRefused, Gate!WakeAdmitted,
          GateProofs!WakeAdmitted, Gate!Closing, GateProofs!Closing, Gate!Waiting,
          GateProofs!Waiting, Gate!Outdated, GateProofs!Outdated, Gate!RemoveTicket,
          GateProofs!RemoveTicket, Gate!RemoveAt, GateProofs!RemoveAt, Gate!BlockedAt,
          GateProofs!BlockedAt, Gate!Blocked, GateProofs!Blocked, Gate!Reservable,
          GateProofs!Reservable, Gate!Reserve, GateProofs!Reserve, Gate!Lesser,
          GateProofs!Lesser, Gate!Greater, GateProofs!Greater
    <3> QED
      BY <1>4, <1>5, <3>1, Zenon DEF GateProofs!Wake
  <2> QED
    BY <1>7, <2>1, <2>2, <2>3, Zenon DEF CallAtGate
<1>8. CASE CallTimesOutInLine(c)
  <2>1. GateProofs!WakeTimedOut(c)
    BY <1>8, Zenon
    DEF CallTimesOutInLine, Gate!WakeTimedOut, GateProofs!WakeTimedOut, Gate!Closing,
        GateProofs!Closing, Gate!Waiting, GateProofs!Waiting, Gate!Outdated,
        GateProofs!Outdated, Gate!RemoveTicket, GateProofs!RemoveTicket, Gate!RemoveAt,
        GateProofs!RemoveAt, Gate!BlockedAt, GateProofs!BlockedAt, Gate!Blocked,
        GateProofs!Blocked, Gate!Reservable, GateProofs!Reservable, Gate!Reserve,
        GateProofs!Reserve, Gate!Lesser, GateProofs!Lesser, Gate!Greater,
        GateProofs!Greater
  <2> QED
    BY <1>4, <1>5, <2>1, Zenon DEF GateProofs!Wake
<1>9. CASE CallAborts(c)
  <2>1. /\ call[c] = "aborting" /\ Gate!ReleaseAdmission
        /\ gate' = [gate EXCEPT ![c] = "outside"]
    BY <1>9, Zenon DEF CallAborts
  <2>2. CASE gate[c] = "holding"
    <3>1. GateProofs!ReleaseAdmission
      BY <2>1, Zenon DEF Gate!ReleaseAdmission, GateProofs!ReleaseAdmission
    <3> QED
      BY <1>4, <1>5, <2>1, <2>2, <3>1, Zenon DEF GateProofs!Finish
  <2>3. CASE gate[c] # "holding"
    <3>1. gate[c] = "outside" /\ proxy \notin BeatPlaces
      BY <2>1, <2>3 DEF GateInv, Gated, Reserved
    <3>2. ~CallAtRest(c)
      BY <2>1 DEF CallAtRest
    <3>3. GateRun # "on"
      <4>1. ~Bringing /\ ~runRequested /\ proxy \notin {"prologue", "null"}
        BY <3>2 DEF GateInv, Gated, Fresh
      <4>2. proxy \notin OnPlaces
        BY <3>1, <4>1 DEF OnPlaces, BeatPlaces
      <4> QED
        BY <4>1, <4>2, RunIs
    <3>4. admitted = 0
      <4>1. GateProofs!Holders = {} /\ ~BeatReserved
        BY <3>3 DEF GateInv, GateProofs!IInv, GateProofs!QuietBetweenRuns
      <4>2. admitted = Cardinality(GateProofs!Holders) + 0
        BY <4>1
        DEF GateInv, GateProofs!IInv, GateProofs!Accounting, GateProofs!BeatHolds,
            Cardinality, GateProofs!Cardinality, IsFiniteSet, GateProofs!IsFiniteSet
      <4> QED
        BY <4>1, <4>2, FS_EmptySet
    <3>5. UNCHANGED gateVars
      <4>1. gate' = gate
        BY <2>1, <3>1, GateTypes DEF GateInv
      <4>2. UNCHANGED <<effective, queue, queuedNow, epoch, ticketEpoch>>
        BY <2>1, Zenon DEF Gate!ReleaseAdmission
      <4>3. admitted' = 0
        BY <2>1, <3>4 DEF Gate!ReleaseAdmission
      <4> QED
        BY <3>4, <4>1, <4>2, <4>3 DEF gateVars
    <3> QED
      BY <1>6, <3>5
  <2> QED
    BY <2>2, <2>3
<1>10. CASE CallChecks(c) \/ CallEnqueues(c) \/ CallReturns(c) \/ CallTimesOut(c)
  <2>1. UNCHANGED gateVars
    BY <1>10, Zenon DEF CallChecks, CallEnqueues, CallReturns, CallTimesOut
  <2> QED
    BY <1>6, <2>1
<1> QED
  BY <1>7, <1>8, <1>9, <1>10, Zenon DEF Caller, Impatience

LEMMA GateOfProxy ==
  ASSUME GateInv, Proxy
  PROVE  [GateProofs!Next]_(GateProofs!vars)
<1>1. UNCHANGED <<ctl, stopRequested, shutdown>>
  BY ProxyKeepsClients, Zenon
  DEF Proxy, ProxyTakesRun, ProxyExits, ProxyComesUp, ProxyFailsToComeUp, ProxyFailed,
      ProxyFinishes, ProxyDispatches, ProxyDrained, ProxyAdvances, ProxyReleasesStart,
      ProxyBeats, ProxyPumped, ProxyLeaves, ProxyBeginsDrain, ProxyFailsPending,
      ProxyFrees, ProxyResetsGate, ProxyStops, flagVars
<1>2. (Sizing' <=> Sizing) /\ (Bringing' <=> Bringing)
  BY <1>1 DEF Sizing, Bringing
<1>3. Sizing \/ Bringing => proxy \in Resting /\ ~runRequested
  BY DEF GateInv, RunsInTurn, Sizing, Bringing, StartPlaces
<1>4. runRequested => proxy \in Resting
  BY DEF GateInv, RunsInTurn
<1>5. ASSUME UNCHANGED runRequested, proxy \in OnPlaces <=> proxy' \in OnPlaces
      PROVE  UNCHANGED GateRun
  BY <1>2, <1>5, RunIs, RunIsNext
<1>6. ASSUME UNCHANGED gateVars, UNCHANGED runRequested,
             proxy \in OnPlaces <=> proxy' \in OnPlaces, BeatReserved' <=> BeatReserved
      PROVE  [GateProofs!Next]_(GateProofs!vars)
  BY <1>1, <1>5, <1>6, GateRests DEF flagVars
<1>7. CASE ProxyTakesRun
  <2>1. /\ proxy = "parked" /\ proxy' = "prologue" /\ runRequested
        /\ UNCHANGED gateVars
    BY <1>7, Zenon DEF ProxyTakesRun, At, Onto
  <2>2. UNCHANGED GateRun
    BY <1>2, <1>3, <2>1, RunIs, RunIsNext DEF OnPlaces
  <2>3. BeatReserved' <=> BeatReserved
    BY <2>1, BeatIs DEF BeatPlaces, Pumping
  <2> QED
    BY <1>1, <2>1, <2>2, <2>3, GateRests DEF flagVars
<1>8. CASE ProxyComesUp
  <2>1. /\ proxy = "prologue" /\ proxy' = "drain"
        /\ UNCHANGED <<gateVars, runRequested, beatInFlight>>
    BY <1>8, Zenon
    DEF ProxyComesUp, Health!ResetSync, Health!beatVars, At, Onto, startVars
  <2>2. ~beatInFlight
    BY <2>1 DEF GateInv, Gated, InTime
  <2>3. BeatReserved' <=> BeatReserved
    BY <2>1, <2>2, BeatIs
  <2> QED
    BY <1>6, <2>1, <2>3 DEF OnPlaces, Pumping
<1>9. CASE ProxyFailed
  <2>1. /\ proxy = "null" /\ proxy' = "over" /\ UNCHANGED <<gateVars, runRequested>>
    BY <1>9, Zenon DEF ProxyFailed, At, Onto, runVars, startVars
  <2>2. GateRun = "on" /\ GateRun' = "off"
    BY <1>2, <1>3, <1>4, <2>1, RunIs, RunIsNext DEF OnPlaces, Resting, Pumping
  <2>3. ~BeatReserved /\ BeatReserved' = BeatReserved
    BY <2>1 DEF BeatReserved, Pumping, Ending
  <2>4. queue = <<>> /\ \A c \in Calls : gate[c] # "holding"
    BY <2>1 DEF GateInv, Gated, Fresh
  <2>5. GateProofs!RunFails
    <3>1. GateProofs!Holders = {}
      BY <2>4 DEF GateProofs!Holders
    <3> QED
      BY <1>1, <2>1, <2>2, <2>3, <2>4, <3>1
      DEF GateProofs!RunFails, GateProofs!gateVars, gateVars
  <2> QED
    BY <2>5, Zenon DEF GateProofs!Next
<1>10. CASE ProxyResetsGate
  <2>1. /\ proxy = "freed" /\ proxy' = "emptied" /\ UNCHANGED runRequested
        /\ gate' = [c \in Calls |-> IF gate[c] = "holding" THEN "outside" ELSE gate[c]]
        /\ GateProofs!TeardownResets
    BY <1>10, Zenon
    DEF ProxyResetsGate, Gate!TeardownResets, GateProofs!TeardownResets, At, Onto,
        runVars, startVars
  <2>2. GateRun = "on" /\ GateRun' = "off"
    BY <1>2, <1>3, <1>4, <2>1, RunIs, RunIsNext DEF OnPlaces, Resting, Pumping
  <2>3. GateProofs!Closing
    BY <2>1 DEF GateInv, Gated, InTime, Closing, GateProofs!Closing
  <2>4. BeatReserved' = FALSE
    BY <2>1 DEF BeatReserved, Pumping, Ending
  <2>5. GateProofs!RunEnds
    BY <1>1, <2>1, <2>2, <2>3, <2>4, Zenon DEF GateProofs!RunEnds
  <2> QED
    BY <2>5, Zenon DEF GateProofs!Next
<1>11. CASE ProxyBeats
  <2>1. /\ proxy = "beat" /\ proxy' = "pump" /\ UNCHANGED <<gate, runRequested>>
    BY <1>11, Zenon DEF ProxyBeats, At, Onto, runVars, startVars
  <2>2. CASE Health!IssueBeat /\ Gate!TryAdmit
    <3>1. ~beatInFlight /\ beatInFlight' = TRUE
      BY <2>2 DEF Health!IssueBeat, Health!BeatWanted
    <3>2. GateProofs!TryAdmit
      BY <2>2, Zenon
      DEF Gate!TryAdmit, GateProofs!TryAdmit, Gate!BlockedAt, GateProofs!BlockedAt,
          Gate!Blocked, GateProofs!Blocked, Gate!Reservable, GateProofs!Reservable,
          Gate!Reserve, GateProofs!Reserve, Gate!Lesser, GateProofs!Lesser,
          Gate!Greater, GateProofs!Greater
    <3>3. GateRun = "on" /\ UNCHANGED GateRun
      <4>1. proxy \in OnPlaces /\ proxy' \in OnPlaces /\ ~Sizing
        BY <1>3, <2>1 DEF OnPlaces, Pumping, Resting
      <4> QED
        BY <1>5, <2>1, <4>1, RunIs
    <3>4. ~BeatReserved /\ BeatReserved' = TRUE
      BY <2>1, <3>1 DEF BeatReserved, Pumping
    <3>5. GateProofs!Beat
      BY <1>1, <2>1, <3>2, <3>3, <3>4 DEF GateProofs!Beat
    <3> QED
      BY <3>5, Zenon DEF GateProofs!Next
  <2>3. CASE \/ Health!SkipBeat /\ Gate!TryAdmitRefused
             \/ /\ ~Health!BeatWanted
                /\ UNCHANGED <<admitted, effective, queue, queuedNow, epoch, ticketEpoch,
                               healthVars>>
    <3>1. /\ UNCHANGED <<admitted, effective, queue, queuedNow, epoch, ticketEpoch>>
          /\ UNCHANGED beatInFlight
      BY <2>3, Zenon
      DEF Health!SkipBeat, Health!beatVars, Gate!TryAdmitRefused, healthVars, beatVars
    <3>2. UNCHANGED gateVars
      BY <2>1, <3>1 DEF gateVars
    <3>3. BeatReserved' <=> BeatReserved
      BY <2>1, <3>1, BeatIs DEF BeatPlaces, Pumping
    <3> QED
      BY <1>6, <2>1, <3>2, <3>3 DEF OnPlaces, Pumping
  <2> QED
    BY <1>11, <2>2, <2>3, Zenon DEF ProxyBeats
<1>12. CASE \/ ProxyExits \/ ProxyFailsToComeUp \/ ProxyFinishes \/ ProxyStops
            \/ ProxyDispatches \/ ProxyDrained \/ ProxyReleasesStart \/ ProxyPumped
            \/ ProxyLeaves \/ ProxyBeginsDrain \/ ProxyFailsPending \/ ProxyFrees
  <2>1. UNCHANGED <<gateVars, runRequested, beatInFlight>>
    BY <1>12, Zenon
    DEF ProxyExits, ProxyFailsToComeUp, ProxyFinishes, ProxyStops, ProxyDispatches,
        ProxyDrained, ProxyReleasesStart, ProxyPumped, ProxyLeaves, ProxyBeginsDrain,
        ProxyFailsPending, ProxyFrees, Health!SetState, Health!AbandonStart,
        Health!beatVars, healthVars, beatVars, runVars, startVars
  <2>2. /\ proxy \in OnPlaces <=> proxy' \in OnPlaces
        /\ proxy \in BeatPlaces <=> proxy' \in BeatPlaces
    BY <1>12
    DEF ProxyExits, ProxyFailsToComeUp, ProxyFinishes, ProxyStops, ProxyDispatches,
        ProxyDrained, ProxyReleasesStart, ProxyPumped, ProxyLeaves, ProxyBeginsDrain,
        ProxyFailsPending, ProxyFrees, At, Onto, healthVars, runVars, OnPlaces,
        BeatPlaces, Pumping
  <2>3. BeatReserved' <=> BeatReserved
    BY <2>1, <2>2, BeatIs
  <2> QED
    BY <1>6, <2>1, <2>2, <2>3
<1>13. CASE ProxyAdvances
  <2>1. /\ UNCHANGED <<gateVars, runRequested>>
        /\ proxy = "turn" /\ proxy' \in {"beat", "release"}
    BY <1>13, Zenon DEF ProxyAdvances, At, Onto, runVars, startVars
  <2>2. UNCHANGED beatInFlight
    BY <1>13, Zenon
    DEF ProxyAdvances, Health!IssueEth, Health!IssueOp, Health!FinishGood,
        Health!FinishBad, Health!SyncWaits, Health!CycleOver, Health!healthVars,
        Health!beatVars
  <2>3. BeatReserved' <=> BeatReserved
    BY <2>1, <2>2, BeatIs DEF BeatPlaces, Pumping
  <2> QED
    BY <1>6, <2>1, <2>3 DEF OnPlaces, Pumping
<1> QED
  BY <1>7, <1>8, <1>9, <1>10, <1>11, <1>12, <1>13, Zenon DEF Proxy

LEMMA GateOfLibrary ==
  ASSUME GateInv, Answers \/ Timers
  PROVE  [GateProofs!Next]_(GateProofs!vars)
<1>1. /\ UNCHANGED <<ctl, proxy, runRequested>>
      /\ UNCHANGED flagVars
  BY OthersKeepTurn, Zenon DEF turnVars, flagVars
<1>2. UNCHANGED GateRun
  BY <1>1, RunStays DEF Sizing, Bringing
<1>3. ASSUME UNCHANGED gateVars, UNCHANGED beatInFlight
      PROVE  [GateProofs!Next]_(GateProofs!vars)
  BY <1>1, <1>2, <1>3, GateRests, BeatIs
<1>4. ASSUME NEW c \in Calls, AnswersCall(c)
      PROVE  [GateProofs!Next]_(GateProofs!vars)
  <2>1. /\ c \in lib /\ UNCHANGED beatInFlight
        /\ gate' = [gate EXCEPT ![c] = "outside"]
        /\ GateProofs!ReleaseAdmission
    BY <1>4, Zenon
    DEF AnswersCall, Gate!ReleaseAdmission, GateProofs!ReleaseAdmission, healthVars,
        beatVars
  <2>2. gate[c] = "holding"
    BY <2>1 DEF GateInv, Gated, Reserved
  <2>3. UNCHANGED GateProofs!envVars
    BY <1>1, <1>2, <2>1 DEF flagVars, GateProofs!envVars, BeatReserved
  <2>4. GateProofs!Finish(c)
    BY <2>1, <2>2, <2>3, Zenon DEF GateProofs!Finish
  <2> QED
    BY <2>4, Zenon DEF GateProofs!Next
<1>5. CASE AnswersBeat
  <2>1. /\ Beat \in lib /\ InLibrary /\ beatInFlight' = FALSE
        /\ UNCHANGED gate /\ GateProofs!ReleaseAdmission
    BY <1>5, Zenon
    DEF AnswersBeat, Answered, Health!NoteHeartbeat, Gate!ReleaseAdmission,
        GateProofs!ReleaseAdmission
  <2>2. BeatReserved /\ BeatReserved' = FALSE
    <3>1. beatInFlight
      BY <2>1 DEF GateInv, Ledger, Once
    <3> QED
      BY <2>1, <3>1 DEF BeatReserved, InLibrary, Pumping, Ending
  <2>3. GateProofs!BeatFinish
    BY <1>1, <1>2, <2>1, <2>2 DEF GateProofs!BeatFinish, flagVars
  <2> QED
    BY <2>3, Zenon DEF GateProofs!Next
<1>6. CASE AnswersSync \/ Timers
  <2>1. UNCHANGED gateVars /\ UNCHANGED beatInFlight
    BY <1>6, Zenon
    DEF AnswersSync, Timers, Health!NoteSync, Health!SyncTimer, Health!BeatTimer,
        Health!beatVars
  <2> QED
    BY <1>3, <2>1
<1> QED
  BY <1>4, <1>5, <1>6, Zenon DEF Answers

LEMMA GateStep ==
  ASSUME GateInv, [Next]_vars
  PROVE  [GateProofs!Next]_(GateProofs!vars)
<1>1. CASE UNCHANGED vars
  <2>1. UNCHANGED <<gateVars, flagVars, healthVars, ctl, proxy, runRequested>>
    BY <1>1, Zenon DEF vars, runVars, startVars
  <2>2. UNCHANGED GateRun
    BY <2>1, RunStays DEF Sizing, Bringing
  <2>3. BeatReserved' <=> BeatReserved
    BY <2>1, BeatIs DEF healthVars, beatVars
  <2> QED
    BY <2>1, <2>2, <2>3, GateRests
<1> QED
  BY <1>1, GateOfStart, GateOfStop, GateOfCall, GateOfProxy, GateOfLibrary, Zenon
  DEF Next

-----------------------------------------------------------------------------
(* Reservations, new runs and the reset, step by step *)

\* A step that moves no call and reserves nothing keeps what is reserved.
LEMMA ReservedStays ==
  ASSUME Reserved, UNCHANGED call, UNCHANGED gate,
         \A c \in Calls : c \in lib' \cup Range(cmdQueue') => c \in lib \cup Range(cmdQueue),
         \/ proxy' \in BeatPlaces => proxy \in BeatPlaces
         \/ \A c \in Calls : CallAtRest(c)
  PROVE  Reserved'
  BY DEF Reserved, CallAtRest

LEMMA ReservedCall ==
  ASSUME GateInv, NEW c \in Calls, Caller(c) \/ Impatience(c)
  PROVE  Reserved'
<1>1. UNCHANGED <<proxy, lib>>
  BY Zenon
  DEF Caller, CallChecks, CallAtGate, CallEnqueues, CallAborts, CallReturns, Impatience,
      CallTimesOutInLine, CallTimesOut, proxyVars, libVars
<1>2. /\ gate \in [Calls -> {"outside", "waiting", "holding", "refused"}]
      /\ LedgerTypes /\ Reserved
  BY GateTypes DEF GateInv, Gated, Ledger
<1>3. c \in lib \cup Range(cmdQueue) => call[c] \in Asked
  BY DEF GateInv, Ledger, Answerable
<1>4. CASE CallChecks(c) \/ CallReturns(c) \/ CallTimesOut(c)
  <2>1. /\ UNCHANGED <<gate, cmdQueue>>
        /\ \E pc \in {"entering", "ok", "failed"} : CallAt(c, pc)
    BY <1>4 DEF CallChecks, CallReturns, CallTimesOut, gateVars, SlotVars
  <2>2. /\ call'[c] \in {"entering", "ok", "failed"}
        /\ \A d \in Calls \ {c} : call'[d] = call[d]
    BY <1>2, <2>1 DEF CallAt, LedgerTypes
  <2> QED
    BY <1>1, <1>2, <2>1, <2>2 DEF Reserved
<1>5. CASE CallAtGate(c) \/ CallTimesOutInLine(c)
  <2>1. PICK pc \in {"failed", "reserved", "inLine"}, place \in {"refused", "holding", "waiting"} :
          /\ UNCHANGED cmdQueue
          /\ CallAt(c, pc) /\ gate' = [gate EXCEPT ![c] = place]
          /\ call[c] \in {"entering", "inLine"}
          /\ pc = "reserved" => place = "holding"
    <3>1. UNCHANGED cmdQueue /\ call[c] \in {"entering", "inLine"}
      BY <1>5, Zenon DEF CallAtGate, CallTimesOutInLine, SlotVars
    <3>2. \/ CallAt(c, "failed") /\ gate' = [gate EXCEPT ![c] = "refused"]
          \/ CallAt(c, "reserved") /\ gate' = [gate EXCEPT ![c] = "holding"]
          \/ CallAt(c, "inLine") /\ gate' = [gate EXCEPT ![c] = "waiting"]
      BY <1>5, Zenon
      DEF CallAtGate, CallTimesOutInLine, Gate!EnterRefused, Gate!EnterAdmitted,
          Gate!EnterQueued, Gate!WakeRefused, Gate!WakeAdmitted, Gate!WakeTimedOut
    <3> QED
      BY <3>1, <3>2
  <2>2. /\ call'[c] = pc /\ gate'[c] = place
        /\ \A d \in Calls \ {c} : call'[d] = call[d] /\ gate'[d] = gate[d]
    BY <1>2, <2>1 DEF CallAt, LedgerTypes
  <2>3. c \notin lib \cup Range(cmdQueue)
    BY <1>3, <2>1 DEF Asked
  <2> QED
    BY <1>1, <1>2, <2>1, <2>2, <2>3 DEF Reserved
<1>6. CASE CallAborts(c)
  <2>1. /\ UNCHANGED cmdQueue /\ call[c] = "aborting"
        /\ CallAt(c, "failed") /\ gate' = [gate EXCEPT ![c] = "outside"]
    BY <1>6, Zenon DEF CallAborts, SlotVars
  <2>2. /\ call'[c] = "failed"
        /\ \A d \in Calls \ {c} : call'[d] = call[d] /\ gate'[d] = gate[d]
    BY <1>2, <2>1 DEF CallAt, LedgerTypes
  <2>3. c \notin lib \cup Range(cmdQueue)
    BY <1>3, <2>1 DEF Asked
  <2> QED
    BY <1>1, <1>2, <2>1, <2>2, <2>3 DEF Reserved
<1>7. CASE CallEnqueues(c)
  <2>1. /\ call[c] = "reserved" /\ UNCHANGED gate
        /\ \/ CallAt(c, "aborting") /\ UNCHANGED cmdQueue
           \/ ~Closing /\ CallAt(c, "waiting") /\ cmdQueue' = Append(cmdQueue, c)
    BY <1>7, Zenon DEF CallEnqueues, SlotVars, gateVars
  <2>2. \A d \in Calls \ {c} : call'[d] = call[d]
    BY <1>2, <2>1 DEF CallAt, LedgerTypes
  <2>3. CASE CallAt(c, "aborting") /\ UNCHANGED cmdQueue
    BY <1>1, <1>2, <2>1, <2>2, <2>3 DEF Reserved
  <2>4. CASE ~Closing /\ CallAt(c, "waiting") /\ cmdQueue' = Append(cmdQueue, c)
    <3>1. proxy \in BeatPlaces
      BY <2>1, <2>4 DEF GateInv, Sheltered, CallAtRest, BeatPlaces
    <3>2. gate[c] = "holding"
      BY <1>2, <2>1, <3>1 DEF Reserved
    <3>3. call'[c] = "waiting"
      BY <1>2, <2>4 DEF CallAt, LedgerTypes
    <3>4. \A d \in Range(cmdQueue') : d = c \/ d \in Range(cmdQueue)
      BY <1>2, <2>4, AppendProperties DEF LedgerTypes, Range
    <3> QED
      BY <1>1, <1>2, <2>1, <2>2, <3>2, <3>3, <3>4 DEF Reserved
  <2> QED
    BY <2>1, <2>3, <2>4
<1> QED
  BY <1>4, <1>5, <1>6, <1>7, Zenon DEF Caller, Impatience

LEMMA ReservedProxy ==
  ASSUME GateInv, Proxy
  PROVE  Reserved'
<1>1. Reserved /\ UNCHANGED call
  BY Zenon
  DEF GateInv, Gated, Proxy, ProxyTakesRun, ProxyExits, ProxyComesUp, ProxyFailsToComeUp,
      ProxyFailed, ProxyFinishes, ProxyDispatches, ProxyDrained, ProxyAdvances,
      ProxyReleasesStart, ProxyBeats, ProxyPumped, ProxyLeaves, ProxyBeginsDrain,
      ProxyFailsPending, ProxyFrees, ProxyResetsGate, ProxyStops, callVars
<1>2. CASE ProxyResetsGate
  <2>1. /\ proxy = "freed" /\ proxy' = "emptied" /\ UNCHANGED <<lib, cmdQueue>>
        /\ gate' = [c \in Calls |-> IF gate[c] = "holding" THEN "outside" ELSE gate[c]]
    BY <1>2, Zenon DEF ProxyResetsGate, At, Onto, libVars, callVars
  <2>2. lib = {} /\ cmdQueue = <<>>
    BY <2>1 DEF GateInv, RunShape, Sheltered, Up, Pumping
  <2>3. \A c \in Calls : c \notin lib' \cup Range(cmdQueue')
    BY <2>1, <2>2 DEF Range
  <2> QED
    BY <1>1, <2>1, <2>3 DEF Reserved, BeatPlaces, Pumping
<1>3. CASE ProxyComesUp
  <2>1. proxy = "prologue" /\ UNCHANGED <<gate, lib, cmdQueue>>
    BY <1>3, Zenon DEF ProxyComesUp, At, gateVars, libVars, callVars
  <2>2. \A c \in Calls : CallAtRest(c)
    BY <2>1 DEF GateInv, Gated, Fresh
  <2> QED
    BY <1>1, <2>1, <2>2, ReservedStays
<1>4. CASE ProxyDispatches
  <2>1. /\ UNCHANGED <<gate, proxy>> /\ cmdQueue # <<>>
        /\ cmdQueue' = Tail(cmdQueue) /\ lib' = lib \cup {Head(cmdQueue)}
    BY <1>4, Zenon DEF ProxyDispatches, gateVars
  <2>2. /\ Head(cmdQueue) \in Range(cmdQueue)
        /\ \A d \in Range(cmdQueue') : d \in Range(cmdQueue)
    BY <2>1, HeadTailProperties DEF GateInv, Ledger, LedgerTypes, Range
  <2>3. \A c \in Calls :
          c \in lib' \cup Range(cmdQueue') => c \in lib \cup Range(cmdQueue)
    BY <2>1, <2>2
  <2> QED
    BY <1>1, <2>1, <2>3, ReservedStays
<1>5. CASE ProxyAdvances \/ ProxyBeats
  <2>1. /\ UNCHANGED <<gate, cmdQueue>>
        /\ proxy \in {"turn", "beat"}
        /\ lib' = lib \/ lib' = lib \cup {Sync} \/ lib' = lib \cup {Beat}
    BY <1>5, Zenon DEF ProxyAdvances, ProxyBeats, At, gateVars, libVars
  <2>2. Sync \notin Calls /\ Beat \notin Calls
    BY RuntimeAssumption
  <2> QED
    BY <1>1, <2>1, <2>2, ReservedStays DEF BeatPlaces, Pumping
<1>6. CASE ProxyFailsPending \/ ProxyFrees
  <2>1. /\ UNCHANGED gate /\ proxy \in {"draining", "freeing"}
        /\ cmdQueue' = cmdQueue \/ cmdQueue' = <<>>
        /\ lib' = lib \/ lib' = {}
    BY <1>6, Zenon DEF ProxyFailsPending, ProxyFrees, At, gateVars, libVars, callVars
  <2>2. \A c \in Calls :
          c \in lib' \cup Range(cmdQueue') => c \in lib \cup Range(cmdQueue)
    BY <2>1 DEF Range
  <2> QED
    BY <1>1, <2>1, <2>2, ReservedStays DEF BeatPlaces
<1>7. CASE \/ ProxyTakesRun \/ ProxyExits \/ ProxyFailsToComeUp \/ ProxyFailed
           \/ ProxyFinishes \/ ProxyStops \/ ProxyDrained \/ ProxyReleasesStart
           \/ ProxyPumped \/ ProxyLeaves \/ ProxyBeginsDrain
  <2>1. UNCHANGED <<gate, lib, cmdQueue>>
    BY <1>7, Zenon
    DEF ProxyTakesRun, ProxyExits, ProxyFailsToComeUp, ProxyFailed, ProxyFinishes,
        ProxyStops, ProxyDrained, ProxyReleasesStart, ProxyPumped, ProxyLeaves,
        ProxyBeginsDrain, gateVars, libVars, callVars
  <2>2. proxy' \in BeatPlaces => proxy \in BeatPlaces
    BY <1>7
    DEF ProxyTakesRun, ProxyExits, ProxyFailsToComeUp, ProxyFailed, ProxyFinishes,
        ProxyStops, ProxyDrained, ProxyReleasesStart, ProxyPumped, ProxyLeaves,
        ProxyBeginsDrain, At, Onto, BeatPlaces, Pumping
  <2> QED
    BY <1>1, <2>1, <2>2, ReservedStays
<1> QED
  BY <1>2, <1>3, <1>4, <1>5, <1>6, <1>7, Zenon DEF Proxy

LEMMA StepReserved == GateInv /\ [Next]_vars => Reserved'
<1> SUFFICES ASSUME GateInv, [Next]_vars PROVE Reserved'
  OBVIOUS
<1>1. Reserved
  BY DEF GateInv, Gated
<1>2. ASSUME NEW t \in Clients, Start(t) \/ Stop(t) \/ Destroy(t)
      PROVE  Reserved'
  <2>1. UNCHANGED <<call, gate, lib, cmdQueue>>
    BY <1>2, Zenon
    DEF Start, StartChecks, StartResets, StartSizes, StartSpawns, StartPosts,
        StartReturns, Stop, StopChecks, StopRequests, StopReturns, ClientGoesOn, Destroy,
        DestroyChecks, DestroyShutsDown, DestroyJoins, Gate!StartResets,
        Gate!SetCeiling, gateVars, callVars, libVars
  <2>2. proxy' = proxy \/ (proxy = "none" /\ proxy' = "parked")
    BY <1>2
    DEF Start, StartChecks, StartResets, StartSizes, StartSpawns, StartPosts,
        StartReturns, Stop, StopChecks, StopRequests, StopReturns, ClientGoesOn, Destroy,
        DestroyChecks, DestroyShutsDown, DestroyJoins
  <2> QED
    BY <1>1, <2>1, <2>2, ReservedStays DEF BeatPlaces, Pumping
<1>3. CASE Answers
  <2>1. UNCHANGED <<proxy, call, cmdQueue>>
    BY <1>3, Zenon DEF Answers, AnswersCall, AnswersBeat, AnswersSync, Answered
  <2>2. ASSUME NEW c \in Calls, AnswersCall(c)
        PROVE  Reserved'
    <3>1. /\ c \in lib /\ lib' = lib \ {c}
          /\ gate' = [gate EXCEPT ![c] = "outside"]
      BY <2>2, Zenon DEF AnswersCall
    <3>2. call[c] \in Asked /\ c \notin Range(cmdQueue)
      BY <3>1 DEF GateInv, Ledger, Answerable, Once, Range
    <3>3. \A d \in Calls \ {c} : gate'[d] = gate[d]
      BY <3>1, GateTypes DEF GateInv
    <3> QED
      BY <1>1, <2>1, <3>1, <3>2, <3>3 DEF Reserved, Asked
  <2>3. CASE AnswersBeat \/ AnswersSync
    <3>1. UNCHANGED gate /\ (lib' = lib \ {Beat} \/ lib' = lib \ {Sync})
      BY <2>3, Zenon DEF AnswersBeat, AnswersSync, gateVars
    <3> QED
      BY <1>1, <2>1, <3>1, ReservedStays
  <2> QED
    BY <1>3, <2>2, <2>3, Zenon DEF Answers
<1>4. CASE Timers \/ UNCHANGED vars
  <2>1. UNCHANGED <<proxy, call, gate, lib, cmdQueue>>
    BY <1>4, Zenon DEF Timers, vars, gateVars, callVars, libVars
  <2> QED
    BY <1>1, <2>1, ReservedStays
<1> QED
  BY <1>2, <1>3, <1>4, ReservedCall, ReservedProxy, Zenon DEF Next

LEMMA StepFresh == GateInv /\ [Next]_vars => Fresh'
<1> SUFFICES ASSUME GateInv, [Next]_vars PROVE Fresh'
  OBVIOUS
<1> DEFINE Begun == Bringing \/ runRequested \/ proxy \in {"prologue", "null"}
<1>1. Begun => (\A c \in Calls : CallAtRest(c) /\ gate[c] # "holding") /\ queue = <<>>
  BY DEF GateInv, Gated, Fresh
<1>3. Begun => proxy \in Resting \cup {"prologue", "null"}
  BY DEF GateInv, RunsInTurn, Bringing, StartPlaces
<1>4. ASSUME ~Begun' PROVE Fresh'
  BY <1>4 DEF Fresh
<1>5. ASSUME \A c \in Calls : CallAtRest(c) /\ gate[c] # "holding",
             UNCHANGED <<call, gate>>, queue' = <<>>
      PROVE  Fresh'
  BY <1>5 DEF Fresh, CallAtRest
<1>6. ASSUME NEW t \in Clients, Start(t)
      PROVE  Fresh'
  <2>1. UNCHANGED <<call, gate>> /\ (queue' = queue \/ queue' = <<>>)
    BY <1>6, Zenon
    DEF Start, StartChecks, StartResets, StartSizes, StartSpawns, StartPosts,
        StartReturns, Gate!StartResets, Gate!SetCeiling, gateVars, callVars
  <2>2. CASE Begun
    BY <1>1, <1>5, <2>1, <2>2
  <2>3. CASE ~Begun /\ StartSizes(t)
    <3>1. ctl[t] = "sizing" /\ UNCHANGED queue
      BY <2>3, Zenon DEF StartSizes, Gate!SetCeiling
    <3>2. GateRun = "starting"
      BY <3>1, RunIs DEF Sizing
    <3>3. queue = <<>> /\ \A c \in Calls : gate[c] # "holding"
      BY <3>2
      DEF GateInv, GateProofs!IInv, GateProofs!LeftoversSentAway,
          GateProofs!QuietBetweenRuns, GateProofs!Holders
    <3>4. \A c \in Calls : CallAtRest(c)
      BY <3>1 DEF GateInv, Sheltered, StartPlaces
    <3> QED
      BY <1>5, <2>1, <3>1, <3>3, <3>4
  <2>4. CASE ~Begun /\ ~StartSizes(t)
    <3>1. /\ UNCHANGED runRequested /\ (proxy' = proxy \/ proxy' = "parked")
          /\ \E pc \in Places \ {"spawning", "posting"} : Go(t, pc)
      <4>1. ctl[t] # "spawning" /\ ctl[t] # "posting"
        BY <2>4 DEF Bringing
      <4> QED
        BY <1>6, <2>4, <4>1
        DEF Start, StartChecks, StartResets, StartSpawns, StartPosts, StartReturns,
            runVars, startVars, Places, StartPlaces, Returned
    <3>2. ctl'[t] \notin {"spawning", "posting"} /\ \A u \in Clients \ {t} : ctl'[u] = ctl[u]
      BY <3>1, Moves DEF GateInv, OwnerAlone
    <3>3. ~Begun'
      BY <2>4, <3>1, <3>2 DEF Bringing
    <3> QED
      BY <1>4, <3>3
  <2> QED
    BY <2>2, <2>3, <2>4
<1>7. ASSUME NEW t \in Clients, Stop(t) \/ Destroy(t)
      PROVE  Fresh'
  <2>1. UNCHANGED <<call, gate, queue, proxy, runRequested>>
    BY <1>7, Zenon
    DEF Stop, StopChecks, StopRequests, StopReturns, ClientGoesOn, Destroy, DestroyChecks,
        DestroyShutsDown, DestroyJoins, gateVars, callVars, runVars, startVars
  <2>2. \E pc \in Places \ {"spawning", "posting"} : Go(t, pc)
    BY <1>7
    DEF Stop, StopChecks, StopRequests, StopReturns, ClientGoesOn, Destroy, DestroyChecks,
        DestroyShutsDown, DestroyJoins, Places, Returned, StopPlaces, DestroyPlaces
  <2>3. ctl'[t] \notin {"spawning", "posting"} /\ \A u \in Clients \ {t} : ctl'[u] = ctl[u]
    BY <2>2, Moves DEF GateInv, OwnerAlone
  <2>4. Begun' => Begun
    BY <2>1, <2>3 DEF Bringing
  <2> QED
    BY <1>1, <1>4, <1>5, <2>1, <2>4
<1>8. ASSUME NEW c \in Calls, Caller(c) \/ Impatience(c)
      PROVE  Fresh'
  <2>1. UNCHANGED <<ctl, proxy, runRequested>>
    BY <1>8, OthersKeepClients
  <2>2. Begun' <=> Begun
    BY <2>1 DEF Bringing
  <2>3. CASE Begun
    <3>1. CallAtRest(c) /\ ~Serving
      BY <1>1, <1>3, <2>3
      DEF GateInv, RunShape, Resting, Pumping
    <3>2. ~CallAtGate(c) /\ ~CallEnqueues(c) /\ ~CallAborts(c) /\ ~CallTimesOutInLine(c)
      BY <3>1
      DEF CallAtGate, CallEnqueues, CallAborts, CallTimesOutInLine, CallAtRest
    <3>3. UNCHANGED gateVars /\ \E pc \in {"ok", "failed"} : CallAt(c, pc)
      BY <1>8, <3>1, <3>2
      DEF Caller, Impatience, CallChecks, CallReturns, CallTimesOut
    <3>4. \A d \in Calls : CallAtRest(d)'
      <4>1. call \in [Calls -> CallPlaces]
        BY DEF GateInv, Ledger, LedgerTypes
      <4>2. /\ call'[c] \in {"ok", "failed"}
            /\ \A d \in Calls \ {c} : call'[d] = call[d]
        BY <3>3, <4>1 DEF CallAt
      <4> QED
        BY <1>1, <2>3, <4>2 DEF CallAtRest
    <3>5. UNCHANGED <<gate, queue>>
      BY <3>3 DEF gateVars
    <3> QED
      BY <1>1, <2>3, <3>4, <3>5 DEF Fresh
  <2> QED
    BY <1>4, <2>2, <2>3
<1>9. CASE Proxy
  <2>1. UNCHANGED <<ctl, call>>
    BY <1>9, ProxyKeepsClients, Zenon
    DEF Proxy, ProxyTakesRun, ProxyExits, ProxyComesUp, ProxyFailsToComeUp, ProxyFailed,
        ProxyFinishes, ProxyDispatches, ProxyDrained, ProxyAdvances, ProxyReleasesStart,
        ProxyBeats, ProxyPumped, ProxyLeaves, ProxyBeginsDrain, ProxyFailsPending,
        ProxyFrees, ProxyResetsGate, ProxyStops, callVars
  <2>2. Bringing' <=> Bringing
    BY <2>1 DEF Bringing
  <2>3. CASE ProxyBeats \/ ProxyResetsGate
    <3>1. /\ proxy \in {"beat", "freed"} /\ proxy' \in {"pump", "emptied"}
          /\ UNCHANGED runRequested
      BY <2>3, Zenon DEF ProxyBeats, ProxyResetsGate, At, Onto, runVars, startVars
    <3>2. ~Begun'
      BY <1>3, <2>2, <3>1 DEF Resting
    <3> QED
      BY <1>4, <3>2
  <2>4. CASE ~ProxyBeats /\ ~ProxyResetsGate
    <3>1. UNCHANGED <<gate, queue>>
      BY <1>9, <2>4, Zenon
      DEF Proxy, ProxyTakesRun, ProxyExits, ProxyComesUp, ProxyFailsToComeUp, ProxyFailed,
          ProxyFinishes, ProxyDispatches, ProxyDrained, ProxyAdvances, ProxyReleasesStart,
          ProxyPumped, ProxyLeaves, ProxyBeginsDrain, ProxyFailsPending, ProxyFrees,
          ProxyStops, gateVars
    <3>2. CASE ProxyTakesRun
      BY <1>1, <1>5, <2>1, <3>1, <3>2 DEF ProxyTakesRun
    <3>3. CASE ProxyFailsToComeUp
      BY <1>1, <1>5, <2>1, <3>1, <3>3 DEF ProxyFailsToComeUp, At
    <3>4. CASE ProxyAdvances
      <4>1. /\ proxy = "turn" /\ proxy' \in {"beat", "release"}
            /\ UNCHANGED runRequested
        BY <3>4, Zenon DEF ProxyAdvances, At, Onto, runVars, startVars
      <4>2. ~Begun'
        BY <1>3, <2>2, <4>1 DEF Resting
      <4> QED
        BY <1>4, <4>2
    <3>5. CASE ~ProxyTakesRun /\ ~ProxyFailsToComeUp /\ ~ProxyAdvances
      <4>1. UNCHANGED runRequested /\ proxy' \notin {"prologue", "null"}
        BY <1>9, <2>4, <3>5
        DEF Proxy, ProxyExits, ProxyComesUp, ProxyFailed, ProxyFinishes, ProxyDispatches,
            ProxyDrained, ProxyReleasesStart, ProxyPumped, ProxyLeaves, ProxyBeginsDrain,
            ProxyFailsPending, ProxyFrees, ProxyStops, At, Onto, runVars, startVars
      <4>2. Begun' => Begun
        BY <2>2, <4>1
      <4> QED
        BY <1>1, <1>4, <1>5, <2>1, <3>1, <4>2
    <3> QED
      BY <3>2, <3>3, <3>4, <3>5
  <2> QED
    BY <2>3, <2>4
<1>10. CASE Answers
  <2>1. UNCHANGED <<ctl, proxy, runRequested>>
    BY <1>10, OthersKeepClients
  <2>2. proxy \in {"drain", "turn", "beat", "pump", "draining"}
    BY <1>10, Zenon
    DEF Answers, AnswersCall, AnswersBeat, AnswersSync, Answered, InLibrary
  <2>3. ~Begun'
    BY <1>3, <2>1, <2>2 DEF Resting, Bringing
  <2> QED
    BY <1>4, <2>3
<1>11. CASE Timers \/ UNCHANGED vars
  <2>1. UNCHANGED <<ctl, proxy, runRequested, call, gate, queue>>
    BY <1>11, Zenon DEF Timers, vars, gateVars, callVars, runVars, startVars
  <2>2. Begun' <=> Begun
    BY <2>1 DEF Bringing
  <2> QED
    BY <1>1, <1>4, <1>5, <2>1, <2>2
<1> QED
  BY <1>6, <1>7, <1>8, <1>9, <1>10, <1>11, Zenon DEF Next

LEMMA InTimeClient ==
  ASSUME "runs" \in Contract, GateInv, NEW t \in Clients, Start(t) \/ Stop(t) \/ Destroy(t)
  PROVE  InTime'
<1>1. InTime /\ ClientTypes /\ RunsInTurn
  BY DEF GateInv, Gated, OwnerAlone
<1>2. PICK pc \in Places : Go(t, pc)
  BY Zenon
  DEF Start, StartChecks, StartResets, StartSizes, StartSpawns, StartPosts, StartReturns,
      Stop, StopChecks, StopRequests, StopReturns, ClientGoesOn, Destroy, DestroyChecks,
      DestroyShutsDown, DestroyJoins, Places, StartPlaces, StopPlaces, DestroyPlaces,
      Returned
<1>3. ctl'[t] = pc /\ \A u \in Clients \ {t} : ctl'[u] = ctl[u]
  BY <1>1, <1>2, Moves
<1>4. UNCHANGED beatInFlight /\ (proxy' = proxy \/ (proxy = "none" /\ proxy' = "parked"))
  <2>1. UNCHANGED beatInFlight
    BY Zenon
    DEF Start, StartChecks, StartResets, StartSizes, StartSpawns, StartPosts,
        StartReturns, Stop, StopChecks, StopRequests, StopReturns, ClientGoesOn, Destroy,
        DestroyChecks, DestroyShutsDown, DestroyJoins, Health!SetState, Health!beatVars,
        healthVars, beatVars
  <2>2. proxy' = proxy \/ (proxy = "none" /\ proxy' = "parked")
    BY
    DEF Start, StartChecks, StartResets, StartSizes, StartSpawns, StartPosts,
        StartReturns, Stop, StopChecks, StopRequests, StopReturns, ClientGoesOn, Destroy,
        DestroyChecks, DestroyShutsDown, DestroyJoins
  <2> QED
    BY <2>1, <2>2
<1>5. proxy' = "prologue" => ~beatInFlight'
  BY <1>1, <1>4 DEF InTime
<1>6. proxy' \in {"leaving", "draining", "freeing", "freed"} => Closing'
  <2>1. CASE StartResets(t)
    BY <1>1, <1>4, <2>1 DEF StartResets, StartPlaces, RunsInTurn, Resting
  <2>2. CASE ~StartResets(t)
    <3>1. Closing => Closing'
      BY <2>2
      DEF Start, StartChecks, StartSizes, StartSpawns, StartPosts, StartReturns, Stop,
          StopChecks, StopRequests, StopReturns, ClientGoesOn, Destroy, DestroyChecks,
          DestroyShutsDown, DestroyJoins, flagVars, Closing
    <3> QED
      BY <1>1, <1>4, <3>1 DEF InTime
  <2> QED
    BY <2>1, <2>2
<1>7. shutdown' => \E u \in Clients : ctl'[u] \in DestroyPlaces
  <2>1. ctl[t] \in DestroyPlaces => ctl'[t] \in DestroyPlaces
    <3>1. CASE Start(t)
      BY <3>1
      DEF Start, StartChecks, StartResets, StartSizes, StartSpawns, StartPosts,
          StartReturns, DestroyPlaces
    <3>2. CASE Stop(t) \/ Destroy(t)
      <4>1. ctl[t] \in DestroyPlaces => \E p \in DestroyPlaces : Go(t, p)
        BY <1>1, <3>2
        DEF Stop, StopChecks, StopRequests, StopReturns, ClientGoesOn, Destroy,
            DestroyChecks, DestroyShutsDown, DestroyJoins, DestroyPlaces, Returned
      <4> QED
        BY <1>1, <4>1, Moves DEF Places
    <3> QED
      BY <3>1, <3>2
  <2>2. CASE DestroyShutsDown(t)
    BY <1>3, <2>1, <2>2 DEF DestroyShutsDown, DestroyPlaces
  <2>3. CASE ~DestroyShutsDown(t)
    <3>1. UNCHANGED shutdown
      BY <2>3, Zenon
      DEF Start, StartChecks, StartResets, StartSizes, StartSpawns, StartPosts,
          StartReturns, Stop, StopChecks, StopRequests, StopReturns, ClientGoesOn,
          Destroy, DestroyChecks, DestroyJoins, flagVars
    <3> QED
      BY <1>1, <1>3, <2>1, <3>1 DEF InTime
  <2> QED
    BY <2>2, <2>3
<1>8. (\E u \in Clients : ctl'[u] = "resetting") => epoch' < MaxEpoch
  <2>1. CASE StartResets(t)
    <3>1. ctl[t] = "resetting" /\ ctl'[t] = "sizing"
      BY <1>1, <2>1, Moves DEF StartResets, Places, StartPlaces
    <3>2. \A u \in Clients \ {t} : ctl'[u] # "resetting"
      BY <1>1, <1>3, <3>1 DEF RunsInTurn, StartPlaces
    <3> QED
      BY <3>1, <3>2
  <2>2. CASE StartChecks(t)
    <3>1. /\ \A u \in Clients : ctl[u] = "free"
          /\ epoch + Cardinality({u \in Clients : ctl[u] = "resetting"}) < MaxEpoch
          /\ UNCHANGED epoch
      BY <2>2, Zenon DEF StartChecks, MayStart, gateVars
    <3>2. {u \in Clients : ctl[u] = "resetting"} = {}
      BY <3>1
    <3>3. Cardinality({u \in Clients : ctl[u] = "resetting"}) = 0 /\ epoch \in Nat
      BY <3>2, FS_EmptySet, GateTypes DEF GateInv
    <3> QED
      BY <3>1, <3>3
  <2>3. CASE ~StartResets(t) /\ ~StartChecks(t)
    <3>1. UNCHANGED epoch /\ \E p \in Places \ {"resetting"} : Go(t, p)
      BY <2>3
      DEF Start, StartSizes, StartSpawns, StartPosts, StartReturns, Stop, StopChecks,
          StopRequests, StopReturns, ClientGoesOn, Destroy, DestroyChecks,
          DestroyShutsDown, DestroyJoins, Places, StartPlaces, StopPlaces, DestroyPlaces,
          Returned, Gate!SetCeiling, gateVars
    <3>2. ctl'[t] # "resetting"
      BY <1>1, <3>1, Moves
    <3> QED
      BY <1>1, <1>3, <3>1, <3>2 DEF InTime
  <2> QED
    BY <2>1, <2>2, <2>3
<1> QED
  BY <1>5, <1>6, <1>7, <1>8 DEF InTime

LEMMA StepInTime ==
  ASSUME "runs" \in Contract, GateInv, [Next]_vars
  PROVE  InTime'
<1>1. InTime
  BY DEF GateInv, Gated
<1>2. CASE Proxy
  <2>1. UNCHANGED <<ctl, stopRequested, shutdown>>
    BY <1>2, ProxyKeepsClients, Zenon
    DEF Proxy, ProxyTakesRun, ProxyExits, ProxyComesUp, ProxyFailsToComeUp, ProxyFailed,
        ProxyFinishes, ProxyDispatches, ProxyDrained, ProxyAdvances, ProxyReleasesStart,
        ProxyBeats, ProxyPumped, ProxyLeaves, ProxyBeginsDrain, ProxyFailsPending,
        ProxyFrees, ProxyResetsGate, ProxyStops, flagVars
  <2>2. UNCHANGED epoch
    BY <1>2, Zenon
    DEF Proxy, ProxyTakesRun, ProxyExits, ProxyComesUp, ProxyFailsToComeUp, ProxyFailed,
        ProxyFinishes, ProxyDispatches, ProxyDrained, ProxyAdvances, ProxyReleasesStart,
        ProxyBeats, ProxyPumped, ProxyLeaves, ProxyBeginsDrain, ProxyFailsPending,
        ProxyFrees, ProxyResetsGate, ProxyStops, Gate!TryAdmit, Gate!TryAdmitRefused,
        Gate!TeardownResets, gateVars
  <2>3. Closing' = Closing
    BY <2>1 DEF Closing
  <2>4. CASE ProxyTakesRun
    <3>1. proxy' = "prologue" /\ beatInFlight' = FALSE
      BY <2>4, Zenon DEF ProxyTakesRun, Health!ResetBeat, Onto
    <3> QED
      BY <1>1, <2>1, <2>2, <3>1 DEF InTime
  <2>5. CASE ProxyAdvances \/ ProxyBeats
    <3>1. proxy' \in {"beat", "release", "pump"}
      BY <2>5, Zenon DEF ProxyAdvances, ProxyBeats, Onto
    <3> QED
      BY <1>1, <2>1, <2>2, <3>1 DEF InTime
  <2>6. CASE ~ProxyTakesRun /\ ~ProxyAdvances /\ ~ProxyBeats
    <3>1. /\ proxy' # "prologue"
          /\ proxy' \in {"leaving", "draining", "freeing", "freed"} =>
               Closing \/ proxy \in {"leaving", "draining", "freeing", "freed"}
      BY <1>2, <2>6
      DEF Proxy, ProxyExits, ProxyComesUp, ProxyFailsToComeUp, ProxyFailed, ProxyFinishes,
          ProxyDispatches, ProxyDrained, ProxyReleasesStart, ProxyPumped, ProxyLeaves,
          ProxyBeginsDrain, ProxyFailsPending, ProxyFrees, ProxyResetsGate, ProxyStops,
          At, Onto
    <3> QED
      BY <1>1, <2>1, <2>2, <2>3, <3>1 DEF InTime
  <2> QED
    BY <2>4, <2>5, <2>6
<1>3. CASE \/ \E c \in Calls : Caller(c) \/ Impatience(c)
           \/ Answers \/ Timers \/ UNCHANGED vars
  <2>1. UNCHANGED <<ctl, proxy, stopRequested, shutdown>>
    BY <1>3, OthersKeepTurn, Zenon DEF turnVars, vars, flagVars
  <2>2. UNCHANGED epoch
    <3>1. ASSUME NEW c \in Calls, Caller(c) \/ Impatience(c)
          PROVE  UNCHANGED epoch
      BY <3>1, Zenon
      DEF Caller, CallChecks, CallAtGate, CallEnqueues, CallAborts, CallReturns,
          Impatience, CallTimesOutInLine, CallTimesOut, Gate!EnterRefused,
          Gate!EnterAdmitted, Gate!EnterQueued, Gate!WakeRefused, Gate!WakeAdmitted,
          Gate!WakeTimedOut, Gate!ReleaseAdmission, gateVars
    <3>2. CASE Answers \/ Timers \/ UNCHANGED vars
      BY <3>2, Zenon
      DEF Answers, AnswersCall, AnswersBeat, AnswersSync, Timers, Gate!ReleaseAdmission,
          gateVars, vars
    <3> QED
      BY <1>3, <3>1, <3>2
  <2>3. ~beatInFlight => ~beatInFlight'
    <3>1. ASSUME NEW c \in Calls, Caller(c) \/ Impatience(c)
          PROVE  UNCHANGED beatInFlight
      BY <3>1, Zenon
      DEF Caller, CallChecks, CallAtGate, CallEnqueues, CallAborts, CallReturns,
          Impatience, CallTimesOutInLine, CallTimesOut, proxyVars, healthVars, beatVars
    <3>2. CASE AnswersBeat
      BY <3>2, Zenon DEF AnswersBeat, Health!NoteHeartbeat
    <3>3. CASE AnswersSync \/ Timers \/ UNCHANGED vars
      BY <3>3, Zenon
      DEF AnswersSync, Health!NoteSync, Timers, Health!SyncTimer, Health!BeatTimer,
          Health!beatVars, vars, healthVars, beatVars
    <3>4. ASSUME NEW c \in Calls, AnswersCall(c)
          PROVE  UNCHANGED beatInFlight
      BY <3>4, Zenon DEF AnswersCall, healthVars, beatVars
    <3> QED
      BY <1>3, <3>1, <3>2, <3>3, <3>4, Zenon DEF Answers
  <2> QED
    BY <1>1, <2>1, <2>2, <2>3 DEF InTime, Closing
<1> QED
  BY <1>2, <1>3, InTimeClient, Zenon DEF Next

-----------------------------------------------------------------------------
LEMMA InitGateInv == Init => GateInv
<1> SUFFICES ASSUME Init PROVE GateInv
  OBVIOUS
<1>1. GateProofs!IInv
  BY InitGate, GateAssumed, GateProofs!InitIInv
<1> QED
  BY <1>1, InitRunShape, InitOwnerAlone, InitRunsInTurn, InitLedger, InitSheltered,
     InitGated
  DEF GateInv

LEMMA StepGateInv ==
  ASSUME {"runs", "calls"} \subseteq Contract, GateInv, [Next]_vars
  PROVE  GateInv'
<1>1. RunShape /\ OwnerAlone /\ ClientTypes /\ RunsInTurn /\ Ledger /\ Sheltered
  BY DEF GateInv, OwnerAlone
<1>2. (RunShape /\ OwnerAlone /\ RunsInTurn /\ Ledger /\ Sheltered)'
  BY <1>1, StepRunShape, StepOwnerAlone, StepRunsInTurn, StepLedger, StepSheltered
<1>3. Gated'
  BY StepReserved, StepFresh, StepInTime DEF Gated
<1>4. GateProofs!IInv'
  BY GateStep, GateAssumed, GateProofs!StepIInv DEF GateInv
<1> QED
  BY <1>2, <1>3, <1>4 DEF GateInv

\* If nobody starts a run while another is up, nor while a call of an earlier
\* one is still on its way in, then every step of the runtime keeps the contract
\* Admission is proved under: what is proved there of reservations, ceiling and
\* line holds of the runtime. (waitForAdmission(), start(), teardown().)
THEOREM GateContractKept ==
  ASSUME {"runs", "calls"} \subseteq Contract PROVE Spec => KeepsAdmissionContract
<1>1. Init => AdmissionContract!Init
  BY InitGate, SameInit
<1>2. GateInv /\ [Next]_vars => GateInv'
  BY StepGateInv
<1>3. GateInv /\ [Next]_vars => [AdmissionContract!Next]_(AdmissionContract!vars)
  BY GateStep, SameStep
<1> QED
  BY <1>1, <1>2, <1>3, InitGateInv, PTL
  DEF Spec, KeepsAdmissionContract, AdmissionContract!Spec

\* The reservations in force are the callers' and the beat's.
LEMMA HoldersAndBeat ==
  LET holders == {c \in Calls : gate[c] = "holding"}
      beats == IF BeatReserved THEN {Beat} ELSE {}
  IN  /\ IsFiniteSet(holders \cup beats)
      /\ Cardinality(holders) \in Nat
      /\ Cardinality(holders \cup beats)
           = Cardinality(holders) + (IF BeatReserved THEN 1 ELSE 0)
<1> DEFINE holders == {c \in Calls : gate[c] = "holding"}
           beats == IF BeatReserved THEN {Beat} ELSE {}
<1>1. IsFiniteSet(holders) /\ Cardinality(holders) \in Nat
  <2>1. holders \subseteq Calls
    OBVIOUS
  <2> QED
    BY <2>1, RuntimeAssumption, FS_Subset, FS_CardinalityType
<1>2. Beat \notin holders
  BY RuntimeAssumption
<1>3. CASE BeatReserved
  <2>1. holders \cup beats = holders \cup {Beat}
    BY <1>3
  <2> QED
    BY <1>1, <1>2, <1>3, <2>1, FS_AddElement
<1>4. CASE ~BeatReserved
  <2>1. holders \cup beats = holders
    BY <1>4
  <2> QED
    BY <1>1, <1>4, <2>1
<1> QED
  BY <1>3, <1>4

\* Under the same contract what a run has queued for the library and handed to
\* it, the sync aside, never exceeds the ceiling fixed when it started: every
\* such call, and the heartbeat, has a reservation in force.
\* (m_effectiveMaxInFlight against m_queue and the library.)
THEOREM LoadStaysBounded ==
  ASSUME {"runs", "calls"} \subseteq Contract PROVE Spec => []LoadBounded
<1>1. GateInv => LoadBounded
  <2> SUFFICES ASSUME GateInv, ctx
               PROVE  Cardinality((lib \cup Range(cmdQueue)) \ {Sync}) <= effective
    BY DEF LoadBounded
  <2> DEFINE load == (lib \cup Range(cmdQueue)) \ {Sync}
             holders == {c \in Calls : gate[c] = "holding"}
             beats == IF BeatReserved THEN {Beat} ELSE {}
  <2>1. proxy \in Up
    BY DEF GateInv, RunShape
  <2>2. GateRun = "on"
    <3>1. proxy \notin Resting /\ proxy \in OnPlaces
      BY <2>1 DEF Up, Pumping, Resting, OnPlaces
    <3>2. ~Sizing
      BY <3>1 DEF GateInv, RunsInTurn, Sizing, StartPlaces
    <3> QED
      BY <3>1, <3>2, RunIs
  <2>3. load \subseteq holders \cup beats
    <3>1. Range(cmdQueue) \subseteq Calls /\ lib \subseteq Calls \cup {Beat, Sync}
      <4>1. LedgerTypes
        BY DEF GateInv, Ledger
      <4> QED
        BY <4>1 DEF LedgerTypes, Range, Entries
    <3>2. Beat \in lib => BeatReserved
      <4>1. Beat \in lib => beatInFlight
        BY DEF GateInv, Ledger, Once
      <4>2. proxy \in BeatPlaces
        BY <2>1 DEF Up, BeatPlaces
      <4> QED
        BY <4>1, <4>2, BeatIs
    <3>3. \A c \in Calls : c \in lib \cup Range(cmdQueue) => c \in holders
      BY DEF GateInv, Gated, Reserved
    <3> QED
      BY <3>1, <3>2, <3>3
  <2>4. /\ IsFiniteSet(holders \cup beats)
        /\ Cardinality(holders) \in Nat
        /\ Cardinality(holders \cup beats)
             = Cardinality(holders) + (IF BeatReserved THEN 1 ELSE 0)
    BY HoldersAndBeat
  <2>6. /\ Cardinality(load) <= Cardinality(holders \cup beats)
        /\ Cardinality(load) \in Nat
    BY <2>3, <2>4, FS_Subset, FS_CardinalityType
  <2> HIDE DEF load, beats
  <2>7. admitted = Cardinality(holders) + (IF BeatReserved THEN 1 ELSE 0)
    BY
    DEF GateInv, GateProofs!IInv, GateProofs!Accounting, GateProofs!BeatHolds,
        GateProofs!Holders, Cardinality, GateProofs!Cardinality, IsFiniteSet,
        GateProofs!IsFiniteSet
  <2>8. admitted <= effective
    BY <2>2 DEF GateInv, GateProofs!IInv, GateProofs!CeilingRespected
  <2>9. admitted \in Int /\ effective \in Int
    BY RuntimeAssumption DEF GateInv, GateProofs!IInv, GateProofs!TypeOK
  <2>10. Cardinality(load) <= effective
    <3> DEFINE size == Cardinality(load)
    <3>1. size <= admitted /\ size \in Int
      BY <2>4, <2>6, <2>7
    <3> QED
      BY <2>8, <2>9, <3>1
  <2> QED
    BY <2>10 DEF load
<1> QED
  BY <1>1, InitGateInv, StepGateInv, PTL DEF Spec

-----------------------------------------------------------------------------
(* Reservations in force are in use: none is left behind by a call that    *)
(* failed, timed out or was answered, nor by a beat                        *)

\* Where the context is there and its requests have not been dropped.
Working == Pumping \cup {"leaving", "draining"}

\* A call that has its reservation and is on its way into the queue.
BeforeQueue(c) == call[c] \in {"reserved", "aborting"}

Used ==
  proxy \in Working =>
    /\ \A c \in Calls :
         gate[c] = "holding" => BeforeQueue(c) \/ c \in lib \cup Range(cmdQueue)
    /\ beatInFlight => Beat \in lib

\* While a run works, m_admitted is the number of the calls between the gate and
\* the queue, in the queue and in the library, and of the beat that is out.
NoReservationLeaks ==
  proxy \in Working =>
    admitted = Cardinality({c \in Calls : BeforeQueue(c)}
                           \cup Range(cmdQueue) \cup (lib \ {Sync}))

LEMMA AppendedRange ==
  ASSUME NEW S, NEW q \in Seq(S), NEW c \in S
  PROVE  Range(Append(q, c)) = Range(q) \cup {c}
<1> DEFINE r == Append(q, c)
<1>1. /\ r \in Seq(S)
      /\ Len(r) = Len(q) + 1
      /\ \A j \in 1..Len(q) : r[j] = q[j]
      /\ r[Len(q) + 1] = c
  BY AppendProperties
<1>2. Len(q) \in Nat /\ DOMAIN q = 1..Len(q) /\ DOMAIN r = 1..(Len(q) + 1)
  BY <1>1, LenProperties
<1> HIDE DEF r
<1>3. Range(r) = Range(q) \cup {c}
  BY <1>1, <1>2 DEF Range
<1> QED
  BY <1>3 DEF r

LEMMA TailRange ==
  ASSUME NEW S, NEW q \in Seq(S), q # <<>>
  PROVE  Range(q) \subseteq {Head(q)} \cup Range(Tail(q))
<1> DEFINE r == Tail(q)
<1>1. Len(q) \in Nat \ {0} /\ DOMAIN q = 1..Len(q)
  BY EmptySeq, LenProperties
<1>2. /\ Head(q) = q[1]
      /\ r \in Seq(S) /\ Len(r) = Len(q) - 1
      /\ \A j \in 1..(Len(q) - 1) : r[j] = q[j + 1]
  BY <1>1, HeadTailProperties
<1>3. DOMAIN r = 1..(Len(q) - 1)
  BY <1>2, LenProperties
<1> HIDE DEF r
<1>4. ASSUME NEW i \in DOMAIN q, i # 1 PROVE q[i] \in Range(r)
  <2>1. i - 1 \in DOMAIN r /\ r[i - 1] = q[i]
    BY <1>1, <1>2, <1>3, <1>4
  <2> QED
    BY <2>1 DEF Range
<1>5. Range(q) \subseteq {Head(q)} \cup Range(r)
  BY <1>2, <1>4 DEF Range
<1> QED
  BY <1>5 DEF r

\* A step that takes no call away from where its reservation is used.
LEMMA UsedStays ==
  ASSUME Used, UNCHANGED <<call, gate>>,
         \A c \in Calls : c \in lib \cup Range(cmdQueue) => c \in lib' \cup Range(cmdQueue'),
         proxy' \in Working => proxy \in Working,
         proxy' \in Working /\ beatInFlight' => beatInFlight \/ Beat \in lib',
         proxy' \in Working /\ beatInFlight /\ Beat \in lib => Beat \in lib' \/ ~beatInFlight'
  PROVE  Used'
  BY DEF Used, BeforeQueue

LEMMA UsedCall ==
  ASSUME GateInv, Used, NEW c \in Calls, Caller(c) \/ Impatience(c)
  PROVE  Used'
<1>1. UNCHANGED <<proxy, lib, beatInFlight>>
  BY Zenon
  DEF Caller, CallChecks, CallAtGate, CallEnqueues, CallAborts, CallReturns, Impatience,
      CallTimesOutInLine, CallTimesOut, proxyVars, libVars, healthVars, beatVars
<1>2. /\ gate \in [Calls -> {"outside", "waiting", "holding", "refused"}]
      /\ LedgerTypes
  BY GateTypes DEF GateInv, Ledger
<1>3. ASSUME UNCHANGED cmdQueue,
             \A d \in Calls \ {c} : call'[d] = call[d] /\ gate'[d] = gate[d],
             gate'[c] = "holding" =>
               \/ call'[c] \in {"reserved", "aborting"}
               \/ gate[c] = "holding" /\ ~BeforeQueue(c)
      PROVE  Used'
  BY <1>1, <1>3 DEF Used, BeforeQueue
<1>4. CASE CallChecks(c) \/ CallReturns(c) \/ CallTimesOut(c)
  <2>1. /\ UNCHANGED <<gate, cmdQueue>> /\ call[c] \in {"idle", "waiting"}
        /\ \E pc \in {"entering", "ok", "failed"} : CallAt(c, pc)
    BY <1>4 DEF CallChecks, CallReturns, CallTimesOut, gateVars, SlotVars
  <2>2. \A d \in Calls \ {c} : call'[d] = call[d]
    BY <1>2, <2>1 DEF CallAt, LedgerTypes
  <2> QED
    BY <1>3, <2>1, <2>2 DEF BeforeQueue
<1>5. CASE CallAtGate(c) \/ CallTimesOutInLine(c)
  <2>1. UNCHANGED cmdQueue
    BY <1>5, Zenon DEF CallAtGate, CallTimesOutInLine, SlotVars
  <2>2. \/ CallAt(c, "failed") /\ gate' = [gate EXCEPT ![c] = "refused"]
        \/ CallAt(c, "reserved") /\ gate' = [gate EXCEPT ![c] = "holding"]
        \/ CallAt(c, "inLine") /\ gate' = [gate EXCEPT ![c] = "waiting"]
    BY <1>5, Zenon
    DEF CallAtGate, CallTimesOutInLine, Gate!EnterRefused, Gate!EnterAdmitted,
        Gate!EnterQueued, Gate!WakeRefused, Gate!WakeAdmitted, Gate!WakeTimedOut
  <2>3. /\ \A d \in Calls \ {c} : call'[d] = call[d] /\ gate'[d] = gate[d]
        /\ gate'[c] = "holding" => call'[c] = "reserved"
    BY <1>2, <2>2 DEF CallAt, LedgerTypes
  <2> QED
    BY <1>3, <2>1, <2>3
<1>6. CASE CallAborts(c)
  <2>1. /\ UNCHANGED cmdQueue
        /\ CallAt(c, "failed") /\ gate' = [gate EXCEPT ![c] = "outside"]
    BY <1>6, Zenon DEF CallAborts, SlotVars
  <2>2. /\ gate'[c] = "outside"
        /\ \A d \in Calls \ {c} : call'[d] = call[d] /\ gate'[d] = gate[d]
    BY <1>2, <2>1 DEF CallAt, LedgerTypes
  <2> QED
    BY <1>3, <2>1, <2>2
<1>7. CASE CallEnqueues(c)
  <2>1. /\ UNCHANGED gate
        /\ \/ CallAt(c, "aborting") /\ UNCHANGED cmdQueue
           \/ CallAt(c, "waiting") /\ cmdQueue' = Append(cmdQueue, c)
    BY <1>7, Zenon DEF CallEnqueues, SlotVars, gateVars
  <2>2. \A d \in Calls \ {c} : call'[d] = call[d]
    BY <1>2, <2>1 DEF CallAt, LedgerTypes
  <2>3. CASE CallAt(c, "aborting") /\ UNCHANGED cmdQueue
    <3>1. call'[c] = "aborting"
      BY <1>2, <2>3 DEF CallAt, LedgerTypes
    <3> QED
      BY <1>3, <2>1, <2>2, <2>3, <3>1
  <2>4. CASE cmdQueue' = Append(cmdQueue, c)
    <3>1. c \in Range(cmdQueue') /\ Range(cmdQueue) \subseteq Range(cmdQueue')
      BY <1>2, <2>4, AppendedRange DEF LedgerTypes
    <3> QED
      BY <1>1, <2>1, <2>2, <3>1 DEF Used, BeforeQueue
  <2> QED
    BY <2>1, <2>3, <2>4
<1> QED
  BY <1>4, <1>5, <1>6, <1>7, Zenon DEF Caller, Impatience

LEMMA UsedProxy ==
  ASSUME GateInv, Used, Proxy
  PROVE  Used'
<1>1. UNCHANGED call
  BY Zenon
  DEF Proxy, ProxyTakesRun, ProxyExits, ProxyComesUp, ProxyFailsToComeUp,
      ProxyFailed, ProxyFinishes, ProxyDispatches, ProxyDrained, ProxyAdvances,
      ProxyReleasesStart, ProxyBeats, ProxyPumped, ProxyLeaves, ProxyBeginsDrain,
      ProxyFailsPending, ProxyFrees, ProxyResetsGate, ProxyStops, callVars
<1>2. CASE ProxyComesUp
  <2>1. proxy = "prologue" /\ UNCHANGED <<gate, beatInFlight>>
    BY <1>2, Zenon DEF ProxyComesUp, At, gateVars, Health!ResetSync, Health!beatVars
  <2>2. ~beatInFlight /\ \A c \in Calls : gate[c] # "holding"
    BY <2>1 DEF GateInv, Gated, Fresh, InTime
  <2> QED
    BY <2>1, <2>2 DEF Used
<1>3. CASE ProxyDispatches
  <2>1. /\ UNCHANGED <<gate, proxy, beatInFlight>> /\ cmdQueue # <<>>
        /\ cmdQueue' = Tail(cmdQueue) /\ lib' = lib \cup {Head(cmdQueue)}
    BY <1>3, Zenon DEF ProxyDispatches, gateVars, healthVars, beatVars
  <2>2. Range(cmdQueue) \subseteq {Head(cmdQueue)} \cup Range(Tail(cmdQueue))
    BY <2>1, TailRange DEF GateInv, Ledger, LedgerTypes
  <2> QED
    BY <1>1, <2>1, <2>2, UsedStays
<1>4. CASE ProxyAdvances
  <2>1. /\ UNCHANGED <<gate, cmdQueue, beatInFlight>>
        /\ proxy = "turn"
        /\ lib' = lib \/ lib' = lib \cup {Sync}
    BY <1>4, Zenon
    DEF ProxyAdvances, At, gateVars, libVars, Health!IssueEth, Health!IssueOp,
        Health!FinishGood, Health!FinishBad, Health!SyncWaits, Health!healthVars,
        Health!beatVars
  <2> QED
    BY <1>1, <2>1, UsedStays DEF Working, Pumping
<1>5. CASE ProxyBeats
  <2>1. /\ UNCHANGED <<gate, cmdQueue>> /\ proxy = "beat"
        /\ \/ lib' = lib \cup {Beat}
           \/ lib' = lib /\ beatInFlight' = beatInFlight
    BY <1>5, Zenon
    DEF ProxyBeats, At, libVars, healthVars, beatVars, Health!SkipBeat, Health!beatVars
  <2> QED
    BY <1>1, <2>1, UsedStays DEF Working, Pumping
<1>6. CASE ProxyDrained \/ ProxyReleasesStart \/ ProxyPumped \/ ProxyLeaves \/ ProxyBeginsDrain
  <2>1. UNCHANGED <<gate, lib, cmdQueue, beatInFlight>>
    BY <1>6, Zenon
    DEF ProxyDrained, ProxyReleasesStart, ProxyPumped, ProxyLeaves, ProxyBeginsDrain,
        gateVars, libVars, callVars, healthVars, beatVars, Health!AbandonStart,
        Health!SetState, Health!beatVars
  <2>2. proxy \in Working
    BY <1>6
    DEF ProxyDrained, ProxyReleasesStart, ProxyPumped, ProxyLeaves, ProxyBeginsDrain,
        At, Working, Pumping
  <2> QED
    BY <1>1, <2>1, <2>2, UsedStays
<1>7. CASE \/ ProxyTakesRun \/ ProxyExits \/ ProxyFailsToComeUp \/ ProxyFailed
           \/ ProxyFinishes \/ ProxyFailsPending \/ ProxyFrees \/ ProxyResetsGate
           \/ ProxyStops
  <2>1. proxy' \notin Working
    BY <1>7
    DEF ProxyTakesRun, ProxyExits, ProxyFailsToComeUp, ProxyFailed, ProxyFinishes,
        ProxyFailsPending, ProxyFrees, ProxyResetsGate, ProxyStops, Onto, Working, Pumping
  <2> QED
    BY <2>1 DEF Used
<1> QED
  BY <1>2, <1>3, <1>4, <1>5, <1>6, <1>7, Zenon DEF Proxy

LEMMA UsedLibrary ==
  ASSUME GateInv, Used, Answers
  PROVE  Used'
<1>1. UNCHANGED <<proxy, call, cmdQueue>>
  BY Zenon DEF Answers, AnswersCall, AnswersBeat, AnswersSync, Answered
<1>2. ASSUME NEW c \in Calls, AnswersCall(c)
      PROVE  Used'
  <2>1. /\ lib' = lib \ {c} /\ UNCHANGED beatInFlight
        /\ gate' = [gate EXCEPT ![c] = "outside"]
    BY <1>2, Zenon DEF AnswersCall, healthVars, beatVars
  <2>2. gate'[c] = "outside" /\ \A d \in Calls \ {c} : gate'[d] = gate[d]
    BY <2>1, GateTypes DEF GateInv
  <2>3. c # Beat
    BY RuntimeAssumption
  <2> QED
    BY <1>1, <2>1, <2>2, <2>3 DEF Used, BeforeQueue
<1>3. CASE AnswersBeat
  <2>1. UNCHANGED gate /\ lib' = lib \ {Beat} /\ beatInFlight' = FALSE
    BY <1>3, Zenon DEF AnswersBeat, Health!NoteHeartbeat
  <2>2. Beat \notin Calls
    BY RuntimeAssumption
  <2> QED
    BY <1>1, <2>1, <2>2, UsedStays
<1>4. CASE AnswersSync
  <2>1. UNCHANGED <<gate, beatInFlight>> /\ lib' = lib \ {Sync}
    BY <1>4, Zenon DEF AnswersSync, gateVars, Health!NoteSync, Health!beatVars
  <2>2. Sync \notin Calls /\ Sync # Beat
    BY RuntimeAssumption DEF Sync, Beat
  <2> QED
    BY <1>1, <2>1, <2>2, UsedStays
<1> QED
  BY <1>2, <1>3, <1>4, Zenon DEF Answers

LEMMA StepUsed == GateInv /\ Used /\ [Next]_vars => Used'
<1> SUFFICES ASSUME GateInv, Used, [Next]_vars PROVE Used'
  OBVIOUS
<1>1. ASSUME NEW t \in Clients, Start(t) \/ Stop(t) \/ Destroy(t)
      PROVE  Used'
  <2>1. UNCHANGED <<call, gate, lib, cmdQueue, beatInFlight>>
    BY <1>1, Zenon
    DEF Start, StartChecks, StartResets, StartSizes, StartSpawns, StartPosts,
        StartReturns, Stop, StopChecks, StopRequests, StopReturns, ClientGoesOn, Destroy,
        DestroyChecks, DestroyShutsDown, DestroyJoins, Gate!StartResets,
        Gate!SetCeiling, gateVars, callVars, libVars, healthVars, beatVars,
        Health!SetState, Health!beatVars
  <2>2. proxy' = proxy \/ proxy' = "parked"
    BY <1>1
    DEF Start, StartChecks, StartResets, StartSizes, StartSpawns, StartPosts,
        StartReturns, Stop, StopChecks, StopRequests, StopReturns, ClientGoesOn, Destroy,
        DestroyChecks, DestroyShutsDown, DestroyJoins
  <2> QED
    BY <2>1, <2>2, UsedStays DEF Working, Pumping
<1>2. CASE Timers \/ UNCHANGED vars
  <2>1. UNCHANGED <<proxy, call, gate, lib, cmdQueue, beatInFlight>>
    BY <1>2, Zenon
    DEF Timers, vars, gateVars, callVars, libVars, healthVars, beatVars,
        Health!SyncTimer, Health!BeatTimer, Health!beatVars
  <2> QED
    BY <2>1, UsedStays
<1> QED
  BY <1>1, <1>2, UsedCall, UsedProxy, UsedLibrary, Zenon DEF Next

\* Under the same contract nobody who left took a place with him or left one
\* taken: a call that timed out is counted until the library answers it, one that
\* was turned back at the queue or answered late no longer is.  A leaked place
\* would be lost until the next start().  (m_admitted against waitForAdmission(),
\* call(), drainCommands() and callbackTrampoline().)
THEOREM ReservationsDoNotLeak ==
  ASSUME {"runs", "calls"} \subseteq Contract PROVE Spec => []NoReservationLeaks
<1>1. Init => Used
  BY DEF Init, Used, Working, Pumping
<1>2. GateInv /\ Used => NoReservationLeaks
  <2> SUFFICES ASSUME GateInv, Used, proxy \in Working
               PROVE  admitted = Cardinality({c \in Calls : BeforeQueue(c)}
                                             \cup Range(cmdQueue) \cup (lib \ {Sync}))
    BY DEF NoReservationLeaks
  <2> DEFINE holders == {c \in Calls : gate[c] = "holding"}
             beats == IF BeatReserved THEN {Beat} ELSE {}
             users == {c \in Calls : BeforeQueue(c)} \cup Range(cmdQueue) \cup (lib \ {Sync})
  <2>1. proxy \in BeatPlaces
    BY DEF Working, BeatPlaces
  <2>2. BeatReserved <=> Beat \in lib
    <3>1. Beat \in lib <=> beatInFlight
      BY DEF GateInv, Ledger, Once, Used
    <3> QED
      BY <2>1, <3>1, BeatIs
  <2>3. Range(cmdQueue) \subseteq Calls /\ lib \subseteq Calls \cup {Beat, Sync}
    <3>1. LedgerTypes
      BY DEF GateInv, Ledger
    <3> QED
      BY <3>1 DEF LedgerTypes, Range, Entries
  <2>4. \A c \in Calls :
          gate[c] = "holding" <=> BeforeQueue(c) \/ c \in lib \cup Range(cmdQueue)
    BY <2>1 DEF GateInv, Gated, Reserved, Used, BeforeQueue
  <2>5. users = holders \cup beats
    <3>1. Sync \notin Calls /\ Beat \notin Calls /\ Beat # Sync
      BY RuntimeAssumption DEF Beat, Sync
    <3> QED
      BY <2>2, <2>3, <2>4, <3>1
  <2>6. Cardinality(holders \cup beats)
          = Cardinality(holders) + (IF BeatReserved THEN 1 ELSE 0)
    BY HoldersAndBeat
  <2> HIDE DEF users, beats
  <2>7. admitted = Cardinality(holders) + (IF BeatReserved THEN 1 ELSE 0)
    BY
    DEF GateInv, GateProofs!IInv, GateProofs!Accounting, GateProofs!BeatHolds,
        GateProofs!Holders, Cardinality, GateProofs!Cardinality, IsFiniteSet,
        GateProofs!IsFiniteSet
  <2>8. admitted = Cardinality(users)
    BY <2>5, <2>6, <2>7
  <2> QED
    BY <2>8 DEF users
<1> QED
  BY <1>1, <1>2, InitGateInv, StepGateInv, StepUsed, PTL DEF Spec

-----------------------------------------------------------------------------
(* Types: what the parts above leave open is two latches and two flags *)

Latches ==
  /\ runRequested \in BOOLEAN /\ runFinished \in BOOLEAN
  /\ startDone \in BOOLEAN /\ startOk \in BOOLEAN

LEMMA StepLatches == Latches /\ [Next]_vars => Latches'
<1> SUFFICES ASSUME Latches, [Next]_vars PROVE Latches'
  OBVIOUS
<1> USE DEF runVars, startVars, proxyVars
<1>1. CASE UNCHANGED startVars
  BY <1>1 DEF Latches
<1>2. ASSUME NEW t \in Clients, Start(t) PROVE Latches'
  <2>1. CASE StartSpawns(t) \/ StartPosts(t)
    BY <2>1, Zenon DEF Latches, StartSpawns, StartPosts
  <2>2. CASE StartChecks(t) \/ StartResets(t) \/ StartSizes(t) \/ StartReturns(t)
    <3>1. UNCHANGED startVars
      BY <2>2, Zenon DEF StartChecks, StartResets, StartSizes, StartReturns
    <3> QED
      BY <1>1, <3>1
  <2> QED
    BY <1>2, <2>1, <2>2 DEF Start
<1>3. ASSUME \/ \E t \in Clients : Stop(t) \/ Destroy(t)
             \/ \E c \in Calls : Caller(c) \/ Impatience(c)
             \/ Answers \/ Timers \/ UNCHANGED vars
      PROVE  UNCHANGED startVars
  <2>1. ASSUME NEW t \in Clients, Stop(t) \/ Destroy(t) PROVE UNCHANGED startVars
    BY <2>1, Zenon
    DEF Stop, StopChecks, StopRequests, StopReturns, ClientGoesOn, Destroy,
        DestroyChecks, DestroyShutsDown, DestroyJoins
  <2>2. ASSUME NEW c \in Calls, Caller(c) \/ Impatience(c) PROVE UNCHANGED startVars
    BY <2>2, Zenon
    DEF Caller, CallChecks, CallAtGate, CallEnqueues, CallAborts, CallReturns,
        Impatience, CallTimesOutInLine, CallTimesOut
  <2>3. CASE Answers
    BY <2>3, Zenon DEF Answers, AnswersCall, AnswersBeat, AnswersSync, Answered
  <2> QED
    BY <1>3, <2>1, <2>2, <2>3, Zenon DEF Timers, vars
<1>4. ASSUME \/ ProxyTakesRun \/ ProxyExits \/ ProxyFailsToComeUp \/ ProxyFailed
             \/ ProxyFinishes \/ ProxyReleasesStart \/ ProxyLeaves
      PROVE  Latches'
  <2>1. CASE \/ ProxyTakesRun \/ ProxyExits \/ ProxyFailsToComeUp
             \/ ProxyFailed \/ ProxyReleasesStart
    BY <2>1, Zenon
    DEF Latches, ProxyTakesRun, ProxyExits, ProxyFailsToComeUp, ProxyFailed,
        ProxyReleasesStart
  <2>2. CASE ProxyFinishes
    BY <2>2, Zenon DEF Latches, ProxyFinishes
  <2>3. CASE ProxyLeaves
    BY <2>3, Zenon DEF Latches, ProxyLeaves
  <2> QED
    BY <1>4, <2>1, <2>2, <2>3
<1>5. ASSUME \/ ProxyComesUp \/ ProxyDispatches \/ ProxyDrained
             \/ ProxyAdvances \/ ProxyBeats \/ ProxyPumped \/ ProxyBeginsDrain
             \/ ProxyFailsPending \/ ProxyFrees \/ ProxyResetsGate \/ ProxyStops
      PROVE  UNCHANGED startVars
  BY <1>5, Zenon
  DEF ProxyComesUp, ProxyDispatches, ProxyDrained, ProxyAdvances, ProxyBeats,
      ProxyPumped, ProxyBeginsDrain, ProxyFailsPending, ProxyFrees, ProxyResetsGate,
      ProxyStops
<1>6. CASE Proxy
  BY <1>1, <1>4, <1>5, <1>6, Zenon DEF Proxy
<1> QED
  BY <1>1, <1>2, <1>3, <1>6, Zenon DEF Next

TypeInv == GateInv /\ HealthInv /\ Counted /\ Latches

\* Every variable of the runtime keeps its type, for any number of calls and
\* clients: the epoch stays within its bound, the ceiling within the
\* configured one, and m_admitted never goes below zero. (proxy_runtime.h.)
THEOREM TypesAreKept ==
  ASSUME {"runs", "calls"} \subseteq Contract PROVE Spec => []TypeOK
<1>1. Init => TypeInv
  <2>1. Init => Counted /\ Latches
    BY FS_EmptySet DEF Init, Counted, Latches
  <2> QED
    BY <2>1, InitGateInv, InitHealthInv DEF TypeInv
<1>2. TypeInv /\ [Next]_vars => TypeInv'
  <2> SUFFICES ASSUME TypeInv, [Next]_vars PROVE TypeInv'
    OBVIOUS
  <2>1. RunShape /\ RunsInTurn /\ Ledger
    BY DEF TypeInv, GateInv
  <2> QED
    BY <2>1, StepGateInv, StepHealthInv, StepCounted, StepLatches DEF TypeInv
<1>3. TypeInv => TypeOK
  <2> SUFFICES ASSUME TypeInv PROVE TypeOK
    OBVIOUS
  <2>1. /\ admitted \in Nat /\ effective \in 0..MaxInFlight
        /\ queue \in Seq(Calls) /\ queuedNow \in Int
        /\ epoch \in 0..MaxEpoch
        /\ stopRequested \in BOOLEAN /\ shutdown \in BOOLEAN
        /\ gate \in [Calls -> {"outside", "waiting", "holding", "refused"}]
        /\ ticketEpoch \in [Calls -> 0..MaxEpoch]
    BY Zenon DEF TypeInv, GateInv, GateProofs!IInv, GateProofs!TypeOK
  <2>2. /\ startReleased \in BOOLEAN
        /\ syncOk \in BOOLEAN /\ syncDue \in BOOLEAN /\ beatDue \in BOOLEAN
        /\ beatInFlight \in BOOLEAN
    BY Zenon DEF TypeInv, HealthInv, HealthProofs!IInv, HealthProofs!FlagTypes
  <2>3. /\ state \in Health!States
        /\ syncPhase \in {"Idle", "Eth", "EthDone", "Op", "OpDone"}
        /\ syncStreak \in 0..DegradeAfter /\ beatStreak \in 0..DegradeAfter
    BY Zenon
    DEF TypeInv, HealthInv, HealthProofs!IInv, HealthProofs!DataTypes,
        HealthProofs!States, Health!States
  <2>4. /\ proxy \in Pumping \cup Ending \cup
                      {"none", "parked", "exited", "prologue", "null", "over"}
        /\ ctx \in BOOLEAN /\ runActive \in BOOLEAN
    BY DEF TypeInv, GateInv, RunShape, ProxyPlaces, Resting
  <2>5. /\ runRequested \in BOOLEAN /\ runFinished \in BOOLEAN
        /\ startDone \in BOOLEAN /\ startOk \in BOOLEAN
    BY Zenon DEF TypeInv, Latches
  <2>6. LedgerTypes /\ inFlight \in Int
    BY LibFinite DEF TypeInv, GateInv, Ledger, Counted
  <2>7. /\ cmdQueue \in Seq(Calls) /\ pending \in Seq(Calls \cup {Beat, Sync})
        /\ slot \in [Calls -> {"open", "ok", "error"}]
        /\ lib \subseteq Calls \cup {Beat, Sync}
    BY <2>6, Zenon DEF LedgerTypes, Entries
  <2>8. call \in [Calls -> {"idle", "entering", "inLine", "reserved", "aborting",
                            "waiting", "ok", "failed"}]
    BY <2>6 DEF LedgerTypes, CallPlaces, Asked
  <2>9. ctl \in [Clients -> Returned \cup
          {"free", "resetting", "sizing", "spawning", "posting", "startWait",
           "stopping", "stopWait", "destroying", "destroyStopping", "destroyWait",
           "shuttingDown", "joining", "destroyed", "aborted"}]
    BY DEF TypeInv, GateInv, OwnerAlone, ClientTypes, Places, StartPlaces, StopPlaces,
           DestroyPlaces
  <2> QED
    BY <2>1, <2>2, <2>3, <2>4, <2>5, <2>6, <2>7, <2>8, <2>9, Zenon DEF TypeOK
<1> QED
  BY <1>1, <1>2, <1>3, PTL DEF Spec
=============================================================================
