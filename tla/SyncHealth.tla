----------------------------- MODULE SyncHealth -----------------------------
(***************************************************************************)
(* The light-client sync cycle, the heartbeat, and the state they drive:   *)
(* advanceSync(), issueSync(), noteSync(), finishSyncCycle(),              *)
(* releaseStart(), issueKeepAlive(), noteHeartbeat() and the parts of      *)
(* runOnce() and teardown() that reset or end them.  All of it runs on the *)
(* proxy thread; completions arrive only from inside the library, so each  *)
(* action below is one uninterrupted stretch of that thread.               *)
(*                                                                         *)
(* Time is two flags: syncDue, "now is past m_nextSync", and beatDue, "now *)
(* is past nextKeepAlive".  Streaks are compared with kDegradeAfter and    *)
(* otherwise only reported, so they stop counting there.                   *)
(*                                                                         *)
(* As in Admission, the code comes first and the last part closes it: a    *)
(* run is started, may fail to come up, is pumped, drained and ended, and  *)
(* the library answers each request at most once.                          *)
(***************************************************************************)
EXTENDS Naturals

CONSTANTS
  HasOp,         \* opExecutionApiUrls is not empty
  KeepAlive,     \* cfg.keepAlive is not "off"
  DegradeAfter   \* kDegradeAfter

ASSUME HealthAssumption ==
  /\ HasOp \in BOOLEAN
  /\ KeepAlive \in BOOLEAN
  /\ DegradeAfter \in Nat \ {0}

VARIABLES
  (* the code's *)
  state,          \* m_state
  startReleased,  \* m_startReleased: this run's start() has its answer
  syncPhase,      \* m_syncPhase
  syncOk,         \* m_syncOk: outcome of the step that completed last
  syncStreak,     \* m_syncStreak: failed cycles in a row
  syncDue,        \* now >= m_nextSync
  beatInFlight,   \* m_heartbeatInFlight
  beatStreak,     \* m_heartbeatStreak: failed beats in a row
  beatDue,        \* now >= nextKeepAlive
  (* the rest of the run *)
  pump,           \* "off", "starting", "prologue", "on", "leaving", "draining"
  weather,        \* history: "mixed", then for good "calm" or "dark"
  synced          \* history: the steps of this cycle that succeeded

beatVars   == <<beatInFlight, beatStreak>>
syncVars   == <<syncPhase, syncOk, syncStreak, startReleased>>
timerVars  == <<syncDue, beatDue>>
healthVars == <<state, beatVars, syncVars, timerVars>>
vars       == <<healthVars, pump, weather, synced>>

States == {"Idle", "Starting", "Running", "Degraded", "Draining", "Stopped", "Failed"}

Serving == state \in {"Running", "Degraded"}

\* Mutant of Bump: off by one, a streak never becomes long enough.
BumpShort(streak) == IF streak < DegradeAfter - 1 THEN streak + 1 ELSE streak

Bump(streak) == IF streak < DegradeAfter THEN streak + 1 ELSE streak

-----------------------------------------------------------------------------
(* What a run resets before and after the library came up *)

ResetBeat ==
  /\ beatStreak' = 0
  /\ beatInFlight' = FALSE
  /\ UNCHANGED <<syncVars, timerVars>>

ResetSync ==
  /\ syncPhase' = "Idle"
  /\ syncStreak' = 0
  /\ startReleased' = FALSE
  /\ syncDue' = TRUE
  /\ beatDue' = TRUE
  /\ UNCHANGED <<state, beatVars, syncOk>>

-----------------------------------------------------------------------------
(* advanceSync(): one step of the cycle per turn of the pump *)

IssueEth ==
  /\ syncPhase = "Idle" /\ syncDue
  /\ syncPhase' = "Eth"
  /\ syncDue' = FALSE
  /\ UNCHANGED <<state, beatVars, beatDue, syncOk, syncStreak, startReleased>>

\* The OP sync reads L1 headers, so it follows a good L1 sync.
IssueOp ==
  /\ syncPhase = "EthDone" /\ syncOk /\ HasOp
  /\ syncPhase' = "Op"
  /\ UNCHANGED <<state, beatVars, timerVars, syncOk, syncStreak, startReleased>>

\* Mutant of CycleOver: the cycle ends with L1 even when OP is configured.
CycleOverAfterEth == syncPhase \in {"EthDone", "OpDone"}

CycleOver ==
  \/ syncPhase = "EthDone" /\ ~(syncOk /\ HasOp)
  \/ syncPhase = "OpDone"

\* Mutant of FinishGood: it ignores a failing heartbeat.
FinishGoodAlways ==
  /\ CycleOver /\ syncOk
  /\ syncPhase' = "Idle"
  /\ syncStreak' = 0
  /\ startReleased' = TRUE
  /\ state' = IF ~startReleased \/ state = "Degraded" THEN "Running" ELSE state
  /\ UNCHANGED <<beatVars, timerVars, syncOk>>

\* finishSyncCycle(true): the first one of a run releases start(), and sets
\* the state first; a later one climbs out of Degraded, unless the heartbeat
\* is failing too.
FinishGood ==
  /\ CycleOver /\ syncOk
  /\ syncPhase' = "Idle"
  /\ syncStreak' = 0
  /\ startReleased' = TRUE
  /\ state' = IF \/ ~startReleased
                 \/ state = "Degraded" /\ beatStreak < DegradeAfter
              THEN "Running"
              ELSE state
  /\ UNCHANGED <<beatVars, timerVars, syncOk>>

\* Mutants of FinishBad: it degrades a run that never served; only a good
\* cycle returns to Idle.
FinishBadFromAnyState ==
  /\ CycleOver /\ ~syncOk
  /\ syncPhase' = "Idle"
  /\ syncStreak' = Bump(syncStreak)
  /\ state' = IF syncStreak' >= DegradeAfter THEN "Degraded" ELSE state
  /\ UNCHANGED <<beatVars, timerVars, syncOk, startReleased>>

FinishBadStaysOver ==
  /\ CycleOver /\ ~syncOk
  /\ syncStreak' = Bump(syncStreak)
  /\ state' = IF syncStreak' >= DegradeAfter /\ state = "Running"
              THEN "Degraded"
              ELSE state
  /\ UNCHANGED <<beatVars, timerVars, syncPhase, syncOk, startReleased>>

\* finishSyncCycle(false)
FinishBad ==
  /\ CycleOver /\ ~syncOk
  /\ syncPhase' = "Idle"
  /\ syncStreak' = Bump(syncStreak)
  /\ state' = IF syncStreak' >= DegradeAfter /\ state = "Running"
              THEN "Degraded"
              ELSE state
  /\ UNCHANGED <<beatVars, timerVars, syncOk, startReleased>>

\* Nothing to advance this turn.
SyncWaits ==
  /\ \/ syncPhase = "Idle" /\ ~syncDue
     \/ syncPhase \in {"Eth", "Op"}
  /\ UNCHANGED healthVars

\* noteSync(): record only, the pump acts on it.
NoteSync(ok) ==
  /\ syncPhase \in {"Eth", "Op"}
  /\ syncOk' = ok
  /\ syncPhase' = IF syncPhase = "Op" THEN "OpDone" ELSE "EthDone"
  /\ UNCHANGED <<state, beatVars, timerVars, syncStreak, startReleased>>

-----------------------------------------------------------------------------
(* The heartbeat *)

BeatWanted == startReleased /\ KeepAlive /\ ~beatInFlight /\ beatDue

\* issueKeepAlive() with its reservation granted, and refused: either way the
\* next beat is a whole interval later.
IssueBeat ==
  /\ BeatWanted
  /\ beatInFlight' = TRUE
  /\ beatDue' = FALSE
  /\ UNCHANGED <<state, syncVars, syncDue, beatStreak>>

SkipBeat ==
  /\ BeatWanted
  /\ beatDue' = FALSE
  /\ UNCHANGED <<state, syncVars, syncDue, beatVars>>

\* Mutants of NoteHeartbeat: one success takes back one failure, not all; a
\* success overwrites whatever state there is.
NoteHeartbeatTakesOne(ok) ==
  /\ beatInFlight
  /\ beatInFlight' = FALSE
  /\ beatStreak' = IF ok THEN beatStreak - 1 ELSE Bump(beatStreak)
  /\ state' = IF ok /\ state = "Degraded" /\ syncStreak < DegradeAfter
              THEN "Running"
              ELSE IF ~ok /\ state = "Running" /\ beatStreak' >= DegradeAfter
              THEN "Degraded"
              ELSE state
  /\ UNCHANGED <<syncVars, timerVars>>

NoteHeartbeatOverwrites(ok) ==
  /\ beatInFlight
  /\ beatInFlight' = FALSE
  /\ beatStreak' = IF ok THEN 0 ELSE Bump(beatStreak)
  /\ state' = IF ok THEN "Running"
              ELSE IF state = "Running" /\ beatStreak' >= DegradeAfter
              THEN "Degraded"
              ELSE state
  /\ UNCHANGED <<syncVars, timerVars>>

\* noteHeartbeat(): only Degraded is left for Running, never a later state,
\* and not while the sync is failing.
NoteHeartbeat(ok) ==
  /\ beatInFlight
  /\ beatInFlight' = FALSE
  /\ beatStreak' = IF ok THEN 0 ELSE Bump(beatStreak)
  /\ state' = IF ok /\ state = "Degraded" /\ syncStreak < DegradeAfter
              THEN "Running"
              ELSE IF ~ok /\ state = "Running" /\ beatStreak' >= DegradeAfter
              THEN "Degraded"
              ELSE state
  /\ UNCHANGED <<syncVars, timerVars>>

-----------------------------------------------------------------------------
(* Time and teardown *)

SyncTimer ==
  /\ syncPhase = "Idle" /\ ~syncDue
  /\ syncDue' = TRUE
  /\ UNCHANGED <<state, beatVars, syncVars, beatDue>>

BeatTimer ==
  /\ ~beatDue
  /\ beatDue' = TRUE
  /\ UNCHANGED <<state, beatVars, syncVars, syncDue>>

\* teardown(), first line: a start() still waiting is released, in vain.
AbandonStart ==
  /\ startReleased' = TRUE
  /\ UNCHANGED <<state, beatVars, syncPhase, syncOk, syncStreak, timerVars>>

SetState(s) ==
  /\ state' = s
  /\ UNCHANGED <<beatVars, syncVars, timerVars>>

-----------------------------------------------------------------------------
(* The run closed by its environment *)

Init ==
  /\ state = "Idle"
  /\ startReleased = FALSE
  /\ syncPhase = "Idle" /\ syncOk = FALSE /\ syncStreak = 0 /\ syncDue = FALSE
  /\ beatInFlight = FALSE /\ beatStreak = 0 /\ beatDue = FALSE
  /\ pump = "off"
  /\ weather = "mixed"
  /\ synced = {}

\* What the library may answer under the present weather.
Outcomes == IF weather = "mixed" THEN BOOLEAN ELSE {weather = "calm"}

\* start() finds no room for a single call, or announces a run; the proxy
\* thread picks it up; startVerifProxy returns a context, or NULL.
RunRefused ==
  /\ pump = "off"
  /\ SetState("Failed")
  /\ UNCHANGED <<pump, weather, synced>>

RunBegins ==
  /\ pump = "off"
  /\ SetState("Starting")
  /\ pump' = "starting"
  /\ UNCHANGED <<weather, synced>>

RunTaken ==
  /\ pump = "starting"
  /\ ResetBeat
  /\ pump' = "prologue"
  /\ UNCHANGED <<state, weather, synced>>

RunUp ==
  /\ pump = "prologue"
  /\ ResetSync
  /\ pump' = "on"
  /\ synced' = {}
  /\ UNCHANGED weather

RunFails ==
  /\ pump = "prologue"
  /\ SetState("Failed")
  /\ pump' = "off"
  /\ UNCHANGED <<weather, synced>>

Advance ==
  /\ pump = "on"
  /\ \/ (IssueEth \/ IssueOp) /\ UNCHANGED synced
     \/ (FinishGood \/ FinishBad) /\ synced' = {}
  /\ UNCHANGED <<pump, weather>>

Beat == pump = "on" /\ (IssueBeat \/ SkipBeat) /\ UNCHANGED <<pump, weather, synced>>
Timers == (SyncTimer \/ BeatTimer) /\ UNCHANGED <<pump, weather, synced>>

SyncAnswer ==
  /\ pump \in {"on", "draining"}
  /\ \E ok \in Outcomes :
       /\ NoteSync(ok)
       /\ synced' = IF ok THEN synced \cup {syncPhase} ELSE synced
  /\ UNCHANGED <<pump, weather>>

BeatAnswer ==
  /\ pump \in {"on", "draining"}
  /\ \E ok \in Outcomes : NoteHeartbeat(ok)
  /\ UNCHANGED <<pump, weather, synced>>

\* stop() was seen: release start(), then state Draining, then drain.
RunLeft ==
  /\ pump = "on"
  /\ AbandonStart
  /\ pump' = "leaving"
  /\ UNCHANGED <<weather, synced>>

RunDrains ==
  /\ pump = "leaving"
  /\ SetState("Draining")
  /\ pump' = "draining"
  /\ UNCHANGED <<weather, synced>>

RunEnds ==
  /\ pump = "draining"
  /\ SetState("Stopped")
  /\ pump' = "off"
  /\ UNCHANGED <<weather, synced>>

WeatherSettles ==
  /\ weather = "mixed"
  /\ weather' \in {"calm", "dark"}
  /\ UNCHANGED <<healthVars, pump, synced>>

Next ==
  \/ RunRefused \/ RunBegins \/ RunTaken \/ RunUp \/ RunFails
  \/ RunLeft \/ RunDrains \/ RunEnds
  \/ Advance \/ Beat \/ Timers \/ SyncAnswer \/ BeatAnswer
  \/ WeatherSettles

Spec == Init /\ [][Next]_vars

BeatSent == pump = "on" /\ IssueBeat /\ UNCHANGED <<pump, weather, synced>>

\* The pump keeps turning, a drain that was decided is begun, time passes, and
\* the library answers in the end.  Strong fairness of BeatSent is an
\* assumption on the load, not on the code: a due beat finds a free place at
\* the gate again and again.  Recovers fails without it.
FairSpec ==
  /\ Spec
  /\ WF_vars(RunDrains)
  /\ WF_vars(Advance) /\ SF_vars(BeatSent)
  /\ WF_vars(SyncTimer /\ UNCHANGED <<pump, weather, synced>>)
  /\ WF_vars(BeatTimer /\ UNCHANGED <<pump, weather, synced>>)
  /\ WF_vars(SyncAnswer) /\ WF_vars(BeatAnswer)

-----------------------------------------------------------------------------
\* Every variable keeps its type.
TypeOK ==
  /\ state \in States
  /\ startReleased \in BOOLEAN
  /\ syncPhase \in {"Idle", "Eth", "EthDone", "Op", "OpDone"}
  /\ syncOk \in BOOLEAN
  /\ syncStreak \in 0..DegradeAfter
  /\ syncDue \in BOOLEAN
  /\ beatInFlight \in BOOLEAN
  /\ beatStreak \in 0..DegradeAfter
  /\ beatDue \in BOOLEAN
  /\ pump \in {"off", "starting", "prologue", "on", "leaving", "draining"}
  /\ weather \in {"mixed", "calm", "dark"}
  /\ synced \in SUBSET {"Eth", "Op"}

Failing == syncStreak >= DegradeAfter \/ beatStreak >= DegradeAfter

\* While calls are served, status() says Degraded exactly when one of the two
\* health signals has failed kDegradeAfter times in a row.  Each signal writes
\* the state on its own, looking at the other's streak.
HealthReported ==
  Serving => (state = "Degraded" <=> Failing)

\* No call is let in before the light client has synced once, or after the run
\* has begun to drain: a state that serves belongs to a pumped, released run.
ServedOnlyWhenUp == Serving => pump \in {"on", "leaving"} /\ startReleased

\* A cycle counts as good, and releases start(), only if every sync it is made
\* of succeeded in this cycle: with OP configured, L1 and then OP.
GoodCycleIsComplete ==
  [][FinishGood /\ pump = "on" =>
       synced = (IF HasOp THEN {"Eth", "Op"} ELSE {"Eth"})]_vars

\* A late completion never undoes a shutdown: Draining is left for Stopped.
ShutdownIsFinal ==
  [][state = "Draining" /\ state' # state => state' = "Stopped"]_vars

\* Once everything succeeds, a run comes up, and a degraded one recovers: no
\* blip latches the proxy into Degraded or keeps it in Starting.
Recovers == weather = "calm" /\ pump = "on" ~> state = "Running" \/ pump # "on"

\* Once everything fails, a run does not go on reporting Running.
OutageReported == weather = "dark" /\ state = "Running" ~> state # "Running"
=============================================================================
