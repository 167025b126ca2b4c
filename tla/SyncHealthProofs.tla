-------------------------- MODULE SyncHealthProofs --------------------------
(***************************************************************************)
(* The sync cycle and the heartbeat keep the reported state right for      *)
(* every degradation threshold, with or without OP and heartbeats.         *)
(***************************************************************************)
EXTENDS SyncHealth, TLAPS

(* The inductive invariant: the flags' and the numbers' types, where each  *)
(* phase of a run leaves the state, and what a cycle has done so far.      *)

FlagTypes ==
  /\ startReleased \in BOOLEAN
  /\ syncOk \in BOOLEAN
  /\ syncDue \in BOOLEAN
  /\ beatInFlight \in BOOLEAN
  /\ beatDue \in BOOLEAN

DataTypes ==
  /\ state \in States
  /\ syncPhase \in {"Idle", "Eth", "EthDone", "Op", "OpDone"}
  /\ syncStreak \in 0..DegradeAfter
  /\ beatStreak \in 0..DegradeAfter
  /\ pump \in {"off", "starting", "prologue", "on", "leaving", "draining"}
  /\ weather \in {"mixed", "calm", "dark"}
  /\ synced \in SUBSET {"Eth", "Op"}

\* The state follows the pump, and no beat was sent before start() was
\* released: its streak cannot fail a run that has just come up.
Phases ==
  /\ pump = "off" => state \in {"Idle", "Failed", "Stopped"}
  /\ pump \in {"starting", "prologue"} => state = "Starting"
  /\ pump = "on" /\ ~startReleased => state = "Starting"
  /\ pump = "on" => state \in {"Starting", "Running", "Degraded"}
  /\ pump = "on" /\ startReleased => Serving
  /\ pump = "leaving" => state \in {"Starting", "Running", "Degraded"} /\ startReleased
  /\ pump = "draining" => state = "Draining"
  /\ pump = "prologue" => beatStreak = 0 /\ ~beatInFlight
  /\ pump = "on" /\ ~startReleased => beatStreak = 0 /\ ~beatInFlight

\* What this cycle has synced when it reaches each phase.
CycleSoFar ==
  /\ syncPhase \in {"Idle", "Eth"} => synced = {}
  /\ syncPhase = "EthDone" /\ syncOk => synced = {"Eth"}
  /\ syncPhase = "Op" => HasOp /\ synced = {"Eth"}
  /\ syncPhase = "OpDone" => HasOp
  /\ syncPhase = "OpDone" /\ syncOk => synced = {"Eth", "Op"}

IInv == FlagTypes /\ DataTypes /\ Phases /\ CycleSoFar /\ HealthReported

-----------------------------------------------------------------------------
\* A streak stays within its bound, and grows to it only from just below.
LEMMA BumpType ==
  ASSUME NEW n \in 0..DegradeAfter
  PROVE  /\ Bump(n) \in 0..DegradeAfter
         /\ n >= DegradeAfter => Bump(n) >= DegradeAfter
  BY HealthAssumption DEF Bump

LEMMA InitIInv == Init => IInv
<1> SUFFICES ASSUME Init PROVE IInv
  OBVIOUS
<1>1. FlagTypes
  BY Zenon DEF Init, FlagTypes
<1>2. DataTypes
  BY HealthAssumption DEF Init, DataTypes, States
<1>3. Phases /\ CycleSoFar /\ HealthReported
  BY Zenon DEF Init, Phases, CycleSoFar, HealthReported, Serving
<1> QED
  BY <1>1, <1>2, <1>3 DEF IInv

LEMMA FlagTypesStep ==
  FlagTypes /\ (\A ok \in Outcomes : ok \in BOOLEAN) /\ [Next]_vars => FlagTypes'
<1> SUFFICES ASSUME FlagTypes, \A ok \in Outcomes : ok \in BOOLEAN, [Next]_vars
             PROVE  FlagTypes'
  OBVIOUS
<1> USE DEF FlagTypes
<1>1. CASE RunRefused \/ RunBegins \/ RunTaken
  BY <1>1, Zenon
  DEF RunRefused, RunBegins, RunTaken, SetState, ResetBeat, beatVars, syncVars,
      timerVars
<1>2. CASE RunUp
  BY <1>2, Zenon DEF RunUp, ResetSync, beatVars
<1>3. CASE RunFails
  BY <1>3, Zenon DEF RunFails, SetState, beatVars, syncVars, timerVars
<1>4. CASE RunLeft
  BY <1>4, Zenon DEF RunLeft, AbandonStart, beatVars, timerVars
<1>5. CASE RunDrains
  BY <1>5, Zenon DEF RunDrains, SetState, beatVars, syncVars, timerVars
<1>6. CASE RunEnds
  BY <1>6, Zenon DEF RunEnds, SetState, beatVars, syncVars, timerVars
<1>7. CASE Advance
  <2>1. CASE IssueEth
    BY <2>1, Zenon DEF IssueEth, beatVars
  <2>2. CASE IssueOp
    BY <2>2, Zenon DEF IssueOp, beatVars, timerVars
  <2>3. CASE FinishGood
    BY <2>3, Zenon DEF FinishGood, beatVars, timerVars
  <2>4. CASE FinishBad
    BY <2>4, Zenon DEF FinishBad, beatVars, timerVars
  <2> QED
    BY <1>7, <2>1, <2>2, <2>3, <2>4, Zenon DEF Advance
<1>8. CASE Beat
  <2>1. CASE IssueBeat
    BY <2>1, Zenon DEF IssueBeat, syncVars
  <2>2. CASE SkipBeat
    BY <2>2, Zenon DEF SkipBeat, syncVars, beatVars
  <2> QED
    BY <1>8, <2>1, <2>2, Zenon DEF Beat
<1>9. CASE Timers
  <2>1. CASE SyncTimer
    BY <2>1, Zenon DEF SyncTimer, beatVars, syncVars
  <2>2. CASE BeatTimer
    BY <2>2, Zenon DEF BeatTimer, beatVars, syncVars
  <2> QED
    BY <1>9, <2>1, <2>2, Zenon DEF Timers
<1>10. CASE SyncAnswer
  <2>1. PICK ok \in Outcomes : NoteSync(ok)
    BY <1>10, Zenon DEF SyncAnswer
  <2> QED
    BY <2>1, Zenon DEF NoteSync, beatVars, timerVars
<1>11. CASE BeatAnswer
  <2>1. PICK ok \in Outcomes : NoteHeartbeat(ok)
    BY <1>11, Zenon DEF BeatAnswer
  <2> QED
    BY <2>1, Zenon DEF NoteHeartbeat, syncVars, timerVars
<1>12. CASE WeatherSettles \/ UNCHANGED vars
  BY <1>12, Zenon
  DEF WeatherSettles, vars, healthVars, beatVars, syncVars, timerVars
<1> QED
  BY <1>1, <1>2, <1>3, <1>4, <1>5, <1>6, <1>7, <1>8, <1>9, <1>10, <1>11,
     <1>12, Zenon DEF Next

\* The library's answer is a success or a failure.
LEMMA OutcomesType == \A ok \in Outcomes : ok \in BOOLEAN
  BY DEF Outcomes

LEMMA StepIInv == IInv /\ [Next]_vars => IInv'
<1> SUFFICES ASSUME IInv, [Next]_vars
             PROVE  DataTypes' /\ Phases' /\ CycleSoFar' /\ HealthReported'
  BY FlagTypesStep, OutcomesType DEF IInv
<1> USE HealthAssumption, BumpType
<1> USE DEF IInv, FlagTypes, DataTypes, Phases, CycleSoFar, HealthReported,
            Serving, States, Failing
<1>1. CASE RunRefused \/ RunBegins
  <2>1. CASE RunRefused
    BY <2>1 DEF RunRefused, SetState, beatVars, syncVars, timerVars
  <2>2. CASE RunBegins
    BY <2>2 DEF RunBegins, SetState, beatVars, syncVars, timerVars
  <2> QED
    BY <1>1, <2>1, <2>2
<1>13. CASE RunTaken
  <2>1. /\ pump' = "prologue" /\ beatStreak' = 0 /\ ~beatInFlight'
        /\ UNCHANGED <<state, syncPhase, syncOk, syncStreak, startReleased, weather, synced>>
    BY <1>13, Zenon DEF RunTaken, ResetBeat, syncVars
  <2>2. pump = "starting"
    BY <1>13 DEF RunTaken
  <2> QED
    BY <2>1, <2>2
<1>2. CASE RunUp
  BY <1>2 DEF RunUp, ResetSync, beatVars
<1>3. CASE RunFails
  BY <1>3 DEF RunFails, SetState, beatVars, syncVars, timerVars
<1>4. CASE RunLeft
  BY <1>4 DEF RunLeft, AbandonStart, beatVars, timerVars
<1>5. CASE RunDrains
  BY <1>5 DEF RunDrains, SetState, beatVars, syncVars, timerVars
<1>6. CASE RunEnds
  BY <1>6 DEF RunEnds, SetState, beatVars, syncVars, timerVars
<1>7. CASE Advance
  <2>0. pump = "on" /\ UNCHANGED <<pump, weather>>
    BY <1>7, Zenon DEF Advance
  <2>1. CASE IssueEth /\ UNCHANGED synced
    <3>1. UNCHANGED <<state, startReleased, beatInFlight, beatStreak>>
      BY <2>1, Zenon DEF IssueEth, beatVars
    <3> QED
      BY <2>0, <2>1, <3>1 DEF IssueEth
  <2>2. CASE IssueOp /\ UNCHANGED synced
    BY <2>0, <2>2 DEF IssueOp, beatVars, timerVars
  <2>3. CASE FinishGood /\ synced' = {}
    BY <2>0, <2>3 DEF FinishGood, beatVars, timerVars
  <2>4. CASE FinishBad /\ synced' = {}
    BY <2>0, <2>4 DEF FinishBad, beatVars, timerVars
  <2> QED
    BY <1>7, <2>1, <2>2, <2>3, <2>4, Zenon DEF Advance
<1>8. CASE Beat
  <2>1. startReleased /\ startReleased' = startReleased /\ syncOk' = syncOk
    BY <1>8, Zenon DEF Beat, IssueBeat, SkipBeat, BeatWanted, syncVars
  <2>2. UNCHANGED <<state, syncPhase, syncStreak, beatStreak, synced, pump, weather>>
    BY <1>8, Zenon DEF Beat, IssueBeat, SkipBeat, syncVars, beatVars
  <2>3. pump = "on"
    BY <1>8, Zenon DEF Beat
  <2> QED
    BY <2>1, <2>2, <2>3
<1>9. CASE Timers
  <2>1. UNCHANGED <<state, syncPhase, syncOk, syncStreak, startReleased, synced,
                    beatInFlight, beatStreak, pump, weather>>
    BY <1>9, Zenon DEF Timers, SyncTimer, BeatTimer, syncVars, beatVars
  <2> QED
    BY <2>1
<1>10. CASE SyncAnswer
  <2>1. PICK ok \in Outcomes :
          /\ NoteSync(ok)
          /\ synced' = IF ok THEN synced \cup {syncPhase} ELSE synced
    BY <1>10, Zenon DEF SyncAnswer
  <2> QED
    BY <1>10, <2>1, OutcomesType DEF SyncAnswer, NoteSync, beatVars, timerVars
<1>11. CASE BeatAnswer
  <2>1. PICK ok \in Outcomes : NoteHeartbeat(ok)
    BY <1>11, Zenon DEF BeatAnswer
  <2>2. ok \in BOOLEAN
    BY OutcomesType
  <2>3. /\ pump \in {"on", "draining"} /\ beatInFlight
        /\ UNCHANGED <<syncPhase, syncOk, syncStreak, startReleased, synced, pump, weather>>
    BY <1>11, <2>1, Zenon DEF BeatAnswer, NoteHeartbeat, syncVars
  <2>4. CASE ok
    <3>1. /\ beatStreak' = 0
          /\ state' = IF state = "Degraded" /\ syncStreak < DegradeAfter
                      THEN "Running" ELSE state
      BY <2>1, <2>4 DEF NoteHeartbeat
    <3> QED
      BY <2>3, <3>1
  <2>5. CASE ~ok
    <3>1. beatStreak' = Bump(beatStreak)
      BY <2>1, <2>5, Zenon DEF NoteHeartbeat
    <3>2. state' = IF state = "Running" /\ beatStreak' >= DegradeAfter
                  THEN "Degraded" ELSE state
      BY <2>1, <2>5 DEF NoteHeartbeat
    <3> QED
      BY <2>3, <3>1, <3>2
  <2> QED
    BY <2>2, <2>4, <2>5
<1>12. CASE WeatherSettles \/ UNCHANGED vars
  <2>1. UNCHANGED <<state, syncPhase, syncOk, syncStreak, startReleased, synced,
                    beatInFlight, beatStreak, pump>>
    BY <1>12, Zenon
    DEF WeatherSettles, vars, healthVars, beatVars, syncVars
  <2>2. weather' \in {"mixed", "calm", "dark"}
    BY <1>12 DEF WeatherSettles, vars
  <2> QED
    BY <2>1, <2>2
<1> QED
  BY <1>1, <1>2, <1>3, <1>4, <1>5, <1>6, <1>7, <1>8, <1>9, <1>10, <1>11,
     <1>12, <1>13, Zenon DEF Next

LEMMA Inductive == Spec => []IInv
<1> QED
  BY InitIInv, StepIInv, PTL DEF Spec

-----------------------------------------------------------------------------
\* Every variable of the sync cycle and the heartbeat keeps its type.
THEOREM TypeCorrect == Spec => []TypeOK
<1>1. IInv => TypeOK
  BY DEF IInv, FlagTypes, DataTypes, TypeOK
<1> QED
  BY <1>1, Inductive, PTL

\* While calls are served, Degraded is reported exactly when a health signal
\* has failed kDegradeAfter times in a row.
THEOREM HealthIsReported == Spec => []HealthReported
<1>1. IInv => HealthReported
  BY DEF IInv
<1> QED
  BY <1>1, Inductive, PTL

\* Calls are served only by a run that has synced and has not begun to drain.
THEOREM ServedWhenUp == Spec => []ServedOnlyWhenUp
<1>1. IInv => ServedOnlyWhenUp
  BY DEF IInv, DataTypes, Phases, FlagTypes, Serving, ServedOnlyWhenUp
<1> QED
  BY <1>1, Inductive, PTL

\* A good cycle, the first of which releases start(), has synced L1 and, when
\* configured, OP.
THEOREM GoodCyclesAreComplete == Spec => GoodCycleIsComplete
<1> DEFINE A == FinishGood /\ pump = "on" =>
                  synced = (IF HasOp THEN {"Eth", "Op"} ELSE {"Eth"})
<1>1. IInv => A
  BY HealthAssumption DEF IInv, FlagTypes, CycleSoFar, FinishGood, CycleOver
<1> QED
  BY <1>1, Inductive, PTL DEF GoodCycleIsComplete

\* Whatever completes while a run drains, the next state is Stopped.
THEOREM ShutdownIsTheEnd == Spec => ShutdownIsFinal
<1> DEFINE A == state = "Draining" /\ state' # state => state' = "Stopped"
<1>1. IInv /\ [Next]_vars => [A]_vars
  <2> SUFFICES ASSUME IInv, Next, state = "Draining", state' # state
               PROVE  state' = "Stopped"
    OBVIOUS
  <2>1. pump = "draining"
    BY DEF IInv, Phases, DataTypes
  <2>2. ~(SyncAnswer \/ WeatherSettles \/ Timers)
    BY DEF SyncAnswer, WeatherSettles, Timers, NoteSync, SyncTimer, BeatTimer, healthVars
  <2>3. ~BeatAnswer
    BY DEF BeatAnswer, NoteHeartbeat
  <2>4. RunEnds
    BY <2>1, <2>2, <2>3
    DEF Next, RunRefused, RunBegins, RunTaken, RunUp, RunFails, RunLeft, RunDrains, Advance, Beat
  <2> QED
    BY <2>4 DEF RunEnds, SetState
<1> QED
  BY <1>1, Inductive, PTL DEF Spec, ShutdownIsFinal
=============================================================================
