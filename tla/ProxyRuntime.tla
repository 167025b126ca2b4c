---------------------------- MODULE ProxyRuntime ----------------------------
(***************************************************************************)
(* ProxyRuntime as a whole: the threads that call start(), stop() and the  *)
(* destructor, the worker threads inside call(), the one proxy thread that *)
(* serves run after run, and the library it drives.  The admission gate    *)
(* and the sync cycle are the code actions of Admission and SyncHealth;    *)
(* this module says when each of them happens.                             *)
(*                                                                         *)
(* One action is one critical section, or one access to an atomic that     *)
(* another thread may observe.  Proxy-thread stretches nobody can observe  *)
(* in the middle are one action, and so is a completion callback: its      *)
(* writes only ever reach other threads as a slot that is done, a count    *)
(* that is lower, or a state, and none of them reads two of these at once. *)
(*                                                                         *)
(* A timeout is a step that may be taken whenever the wait has not ended.  *)
(* Memory the code leaves unsynchronised (m_cfg, m_upstreamJson) and the   *)
(* values calls carry are not modelled.                                    *)
(***************************************************************************)
EXTENDS Naturals, Integers, Sequences, SequencesExt, FiniteSets, ResourceBudget

CONSTANTS
  Calls,         \* call() invocations, each made once by a worker thread
  Clients,       \* threads that call start() and stop()
  Contract,      \* which parts of the contract below clients keep
  Destroys,      \* the owner may destroy the runtime
  MaxInFlight, SoftLimit, PerCall, OpenCounts, MaxEpoch,  \* of Admission
  HasOp, KeepAlive, DegradeAfter,                         \* of SyncHealth
  PendingSweepAt \* kPendingSweepAt

VARIABLES
  (* Admission's *)
  admitted, effective, queue, queuedNow, epoch, stopRequested, shutdown,
  gate, ticketEpoch,
  (* SyncHealth's *)
  state, startReleased, syncPhase, syncOk, syncStreak, syncDue,
  beatInFlight, beatStreak, beatDue,
  (* the runtime's own *)
  proxy,          \* where the proxy thread is, "none" before it is created
  ctx,            \* m_ctx # nullptr
  runActive,      \* m_runActive
  runRequested,   \* m_runRequested
  runFinished,    \* m_runFinished
  startDone,      \* m_startDone
  startOk,        \* m_startOk
  inFlight,       \* m_inFlight
  cmdQueue,       \* m_queue: calls the pump has not dispatched
  pending,        \* m_pending: the slots failAllPending() would release
  slot,           \* CallSlot: "open", "ok" or "error"
  call,           \* where each call() is
  ctl,            \* where each client is
  (* the library's *)
  lib             \* requests that have not been answered: calls, Beat, Sync

gateVars   == <<admitted, effective, queue, queuedNow, epoch, gate, ticketEpoch>>
beatVars   == <<beatInFlight, beatStreak>>
timerVars  == <<syncDue, beatDue>>
syncVars   == <<syncPhase, syncOk, syncStreak, startReleased>>
healthVars == <<state, beatVars, syncVars, timerVars>>
startVars  == <<runRequested, runFinished, startDone, startOk>>
callVars   == <<cmdQueue, pending, slot, call>>
libVars    == <<lib, inFlight>>
runVars    == <<ctx, runActive, startVars>>
flagVars   == <<stopRequested, shutdown>>
vars == <<gateVars, flagVars, healthVars, proxy, runVars, callVars, ctl, libVars>>

Beat == "beat"
Sync == "sync"

Gate == INSTANCE Admission WITH Callers <- Calls, run <- "on", beating <- FALSE

Health == INSTANCE SyncHealth WITH pump <- "on", weather <- "mixed", synced <- {}

\* Mutant of Closing: only stop() ends a run, as before m_shutdown was checked.
ClosingByStopOnly == stopRequested

Closing == stopRequested \/ shutdown

ASSUME RuntimeAssumption ==
  /\ Contract \subseteq {"runs", "calls"}
  /\ Destroys \in BOOLEAN
  /\ IsFiniteSet(Calls) /\ Calls \cap {Beat, Sync} = {}
  /\ MaxInFlight \in Nat \ {0} /\ PerCall \in Nat \ {0} /\ MaxEpoch \in Nat
  /\ SoftLimit \in Nat \cup {Unknown} /\ OpenCounts \subseteq Nat \cup {Unknown}
  /\ HasOp \in BOOLEAN /\ KeepAlive \in BOOLEAN /\ DegradeAfter \in Nat \ {0}
  /\ PendingSweepAt \in Nat \ {0}

-----------------------------------------------------------------------------
Init ==
  /\ admitted = 0 /\ effective = MaxInFlight
  /\ queue = <<>> /\ queuedNow = 0
  /\ epoch = 0
  /\ stopRequested = FALSE /\ shutdown = FALSE
  /\ gate = [c \in Calls |-> "outside"]
  /\ ticketEpoch = [c \in Calls |-> 0]
  /\ state = "Idle" /\ startReleased = FALSE
  /\ syncPhase = "Idle" /\ syncOk = FALSE /\ syncStreak = 0 /\ syncDue = FALSE
  /\ beatInFlight = FALSE /\ beatStreak = 0 /\ beatDue = FALSE
  /\ proxy = "none" /\ ctx = FALSE
  /\ runActive = FALSE /\ runRequested = FALSE /\ runFinished = TRUE
  /\ startDone = FALSE /\ startOk = FALSE
  /\ inFlight = 0 /\ lib = {}
  /\ cmdQueue = <<>> /\ pending = <<>>
  /\ slot = [c \in Calls |-> "open"]
  /\ call = [c \in Calls |-> "idle"]
  /\ ctl = [t \in Clients |-> "free"]

Go(t, pc) == ctl' = [ctl EXCEPT ![t] = pc]

\* Nobody enters an object whose destructor has been called.
InUse ==
  \A t \in Clients :
    ctl[t] \notin {"destroying", "destroyStopping", "destroyWait", "shuttingDown",
                   "joining", "destroyed", "aborted"}

Serving == state \in {"Running", "Degraded"}

\* The contract a client of start() may keep, in two parts: "runs", no other
\* client is inside start() or stop(), and no run is in progress or asked for
\* unless its m_runActive is there to be refused for; "calls", no call of an
\* earlier run is between its checks and its answer.  The code enforces neither.
Quiet == proxy \in {"none", "parked"} /\ ~runRequested

CallAtRest(c) == call[c] \in {"idle", "waiting", "ok", "failed"}

MayStart ==
  /\ "runs" \in Contract => (Quiet \/ runActive) /\ \A t \in Clients : ctl[t] = "free"
  /\ "calls" \in Contract => \A c \in Calls : CallAtRest(c)

-----------------------------------------------------------------------------
(* start() *)

StartChecks(t) ==
  /\ ctl[t] = "free" /\ InUse
  /\ MayStart
  /\ epoch + Cardinality({u \in Clients : ctl[u] = "resetting"}) < MaxEpoch
  /\ Go(t, IF runActive THEN "alreadyStarted" ELSE "resetting")
  /\ UNCHANGED <<gateVars, flagVars, healthVars, proxy, runVars, callVars, libVars>>

StartResets(t) ==
  /\ ctl[t] = "resetting"
  /\ Gate!StartResets
  /\ Go(t, "sizing")
  /\ UNCHANGED <<shutdown, healthVars, proxy, runVars, callVars, libVars>>

StartSizes(t) ==
  /\ ctl[t] = "sizing"
  /\ inFlight' = 0
  /\ \E open \in OpenCounts :
       LET capacity == Capacity(SoftLimit, open, PerCall)
       IN  /\ Gate!SetCeiling(EffectiveCeiling(MaxInFlight, capacity))
           /\ \/ /\ capacity = 0
                 /\ Health!SetState("Failed")
                 /\ Go(t, "startFailed")
              \/ /\ capacity # 0
                 /\ Go(t, "spawning")
                 /\ UNCHANGED healthVars
  /\ UNCHANGED <<flagVars, proxy, runVars, callVars, lib>>

\* The thread is created by the first run and parks before anything else.
StartSpawns(t) ==
  /\ ctl[t] = "spawning"
  /\ proxy' = IF proxy = "none" THEN "parked" ELSE proxy
  /\ Health!SetState("Starting")
  /\ Go(t, "posting")
  /\ UNCHANGED <<gateVars, flagVars, runVars, callVars, libVars>>

\* Mutant of StartPosts: the latch of the previous run is still tripped.
StartPostsOnOldLatch(t) ==
  /\ ctl[t] = "posting"
  /\ runFinished' = FALSE
  /\ runRequested' = TRUE
  /\ Go(t, "startWait")
  /\ UNCHANGED <<gateVars, flagVars, healthVars, proxy, ctx, runActive, startDone,
                 startOk, callVars, libVars>>

StartPosts(t) ==
  /\ ctl[t] = "posting"
  /\ startDone' = FALSE /\ startOk' = FALSE
  /\ runFinished' = FALSE
  /\ runRequested' = TRUE
  /\ Go(t, "startWait")
  /\ UNCHANGED <<gateVars, flagVars, healthVars, proxy, ctx, runActive, callVars,
                 libVars>>

StartReturns(t) ==
  /\ ctl[t] = "startWait"
  /\ Go(t, IF ~startDone THEN "startTimedOut"
           ELSE IF startOk THEN "started" ELSE "startFailed")
  /\ UNCHANGED <<gateVars, flagVars, healthVars, proxy, runVars, callVars, libVars>>

Start(t) ==
  \/ StartChecks(t) \/ StartResets(t) \/ StartSizes(t) \/ StartSpawns(t)
  \/ StartPosts(t) \/ StartReturns(t)

-----------------------------------------------------------------------------
(* stop() *)

\* Mutant of StopChecks: a run still being brought up does not count.
StopChecksActiveOnly(t) ==
  /\ (ctl[t] = "free" /\ InUse) \/ ctl[t] = "destroying"
  /\ Go(t, IF ctl[t] = "free"
           THEN IF runActive THEN "stopping" ELSE "notRunning"
           ELSE IF runActive THEN "destroyStopping" ELSE "shuttingDown")
  /\ UNCHANGED <<gateVars, flagVars, healthVars, proxy, runVars, callVars, libVars>>

\* The destructor calls stop() too.
StopChecks(t) ==
  /\ (ctl[t] = "free" /\ InUse) \/ ctl[t] = "destroying"
  /\ LET idle == proxy = "none" \/ (runFinished /\ ~runActive)
     IN  Go(t, IF ctl[t] = "free"
               THEN IF idle THEN "notRunning" ELSE "stopping"
               ELSE IF idle THEN "shuttingDown" ELSE "destroyStopping")
  /\ UNCHANGED <<gateVars, flagVars, healthVars, proxy, runVars, callVars, libVars>>

StopRequests(t) ==
  /\ ctl[t] \in {"stopping", "destroyStopping"}
  /\ stopRequested' = TRUE
  /\ Go(t, IF ctl[t] = "stopping" THEN "stopWait" ELSE "destroyWait")
  /\ UNCHANGED <<gateVars, shutdown, healthVars, proxy, runVars, callVars, libVars>>

StopReturns(t) ==
  /\ ctl[t] \in {"stopWait", "destroyWait"}
  /\ Go(t, IF ctl[t] = "destroyWait" THEN "shuttingDown"
           ELSE IF runFinished THEN "stopped" ELSE "stopTimedOut")
  /\ UNCHANGED <<gateVars, flagVars, healthVars, proxy, runVars, callVars, libVars>>

\* A start() or stop() hands its result to the client, who may go on.
Returned == {"alreadyStarted", "started", "startFailed", "startTimedOut",
             "notRunning", "stopped", "stopTimedOut"}

ClientGoesOn(t) ==
  /\ ctl[t] \in Returned
  /\ Go(t, "free")
  /\ UNCHANGED <<gateVars, flagVars, healthVars, proxy, runVars, callVars, libVars>>

Stop(t) ==
  StopChecks(t) \/ StopRequests(t) \/ StopReturns(t) \/ ClientGoesOn(t)

-----------------------------------------------------------------------------
(* ~ProxyRuntime(): the owner has no other thread inside the object *)

DestroyChecks(t) ==
  /\ Destroys
  /\ \A u \in Clients : ctl[u] = "free"
  /\ \A c \in Calls : call[c] \in {"idle", "ok", "failed"}
  /\ Go(t, IF runActive THEN "destroying" ELSE "shuttingDown")
  /\ UNCHANGED <<gateVars, flagVars, healthVars, proxy, runVars, callVars, libVars>>

\* Mutant of DestroyShutsDown: joins only if a run is active.
DestroyDetaches(t) ==
  /\ ctl[t] = "shuttingDown"
  /\ shutdown' = TRUE
  /\ Go(t, IF runActive THEN "joining" ELSE "destroyed")
  /\ UNCHANGED <<gateVars, stopRequested, healthVars, proxy, runVars, callVars,
                 libVars>>

DestroyShutsDown(t) ==
  /\ ctl[t] = "shuttingDown"
  /\ shutdown' = TRUE
  /\ Go(t, IF proxy = "none" THEN "destroyed" ELSE "joining")
  /\ UNCHANGED <<gateVars, stopRequested, healthVars, proxy, runVars, callVars,
                 libVars>>

DestroyJoins(t) ==
  /\ ctl[t] = "joining"
  /\ Go(t, IF proxy = "exited" THEN "destroyed" ELSE "aborted")
  /\ UNCHANGED <<gateVars, flagVars, healthVars, proxy, runVars, callVars, libVars>>

Destroy(t) == DestroyChecks(t) \/ DestroyShutsDown(t) \/ DestroyJoins(t)

-----------------------------------------------------------------------------
(* m_pending, a list of weak references *)

\* A slot is held by its caller, by its command, or by the library.
Held(r) ==
  \/ r \in lib \cup Range(cmdQueue)
  \/ r \in Calls /\ call[r] = "waiting"

\* The heartbeats and syncs of a run are one name each; only the latest of
\* them can be unanswered.
Expired(i) ==
  ~Held(pending[i]) \/ \E j \in i + 1..Len(pending) : pending[j] = pending[i]

Expiring == {i \in DOMAIN pending : Expired(i)}

\* What is left of pending without the entries at these places.
Without(places) ==
  LET kept == DOMAIN pending \ places
      Nth(n) == CHOOSE i \in kept : Cardinality({j \in kept : j < i}) = n - 1
  IN  [n \in 1..Cardinality(kept) |-> pending[Nth(n)]]

ExpiringFront == {i \in DOMAIN pending : 1..i \subseteq Expiring}

\* Mutant of Pruned: only the walk from the front.
PrunedAtFront == Without(ExpiringFront)

\* Mutant of Pruned: the sweep makes room whether or not a slot is still held.
PrunedToTheLast ==
  IF Cardinality(DOMAIN pending \ ExpiringFront) < PendingSweepAt
  THEN Without(ExpiringFront) ELSE <<>>

\* prunePendingLocked(): expired entries leave at the front, and all of them
\* once the list has grown long behind one that is still held.
Pruned ==
  IF Cardinality(DOMAIN pending \ ExpiringFront) < PendingSweepAt
  THEN Without(ExpiringFront) ELSE Without(Expiring)

Remember(r) == pending' = Append(Pruned, r)

-----------------------------------------------------------------------------
(* call() *)

CallAt(c, pc) == call' = [call EXCEPT ![c] = pc]

SlotVars == <<cmdQueue, pending, slot>>
proxyVars == <<healthVars, proxy, runVars, libVars>>

CallChecks(c) ==
  /\ call[c] = "idle" /\ InUse
  /\ CallAt(c, IF Serving THEN "entering" ELSE "failed")
  /\ UNCHANGED <<gateVars, flagVars, proxyVars, SlotVars, ctl>>

\* waitForAdmission(): the call goes where the gate sends it.
CallAtGate(c) ==
  /\ call[c] \in {"entering", "inLine"}
  /\ \/ (Gate!EnterRefused(c) \/ Gate!WakeRefused(c)) /\ CallAt(c, "failed")
     \/ (Gate!EnterAdmitted(c) \/ Gate!WakeAdmitted(c)) /\ CallAt(c, "reserved")
     \/ Gate!EnterQueued(c) /\ CallAt(c, "inLine")
  /\ UNCHANGED <<flagVars, proxyVars, SlotVars, ctl>>

CallTimesOutInLine(c) ==
  /\ call[c] = "inLine"
  /\ Gate!WakeTimedOut(c)
  /\ CallAt(c, "failed")
  /\ UNCHANGED <<flagVars, proxyVars, SlotVars, ctl>>

\* Mutant of CallEnqueues: the flag is not looked at again under m_mu.
CallEnqueuesBlindly(c) ==
  /\ call[c] = "reserved"
  /\ Remember(c)
  /\ cmdQueue' = Append(cmdQueue, c)
  /\ CallAt(c, "waiting")
  /\ UNCHANGED <<slot, gateVars, flagVars, proxyVars, ctl>>

\* Under m_mu, like stop()'s flag: a call is either seen by the last
\* failAllPending() of its run or sees the flag.
CallEnqueues(c) ==
  /\ call[c] = "reserved"
  /\ \/ /\ Closing
        /\ CallAt(c, "aborting")
        /\ UNCHANGED SlotVars
     \/ /\ ~Closing
        /\ Remember(c)
        /\ cmdQueue' = Append(cmdQueue, c)
        /\ CallAt(c, "waiting")
        /\ UNCHANGED slot
  /\ UNCHANGED <<gateVars, flagVars, proxyVars, ctl>>

CallAborts(c) ==
  /\ call[c] = "aborting"
  /\ Gate!ReleaseAdmission
  /\ gate' = [gate EXCEPT ![c] = "outside"]
  /\ CallAt(c, "failed")
  /\ UNCHANGED <<flagVars, proxyVars, SlotVars, ctl>>

CallReturns(c) ==
  /\ call[c] = "waiting"
  /\ slot[c] # "open"
  /\ CallAt(c, IF slot[c] = "ok" THEN "ok" ELSE "failed")
  /\ UNCHANGED <<gateVars, flagVars, proxyVars, SlotVars, ctl>>

\* Mutant of CallTimesOut: the caller takes its reservation with it.
CallTimesOutReleasing(c) ==
  /\ call[c] = "waiting"
  /\ slot[c] = "open"
  /\ CallAt(c, "failed")
  /\ Gate!ReleaseAdmission
  /\ gate' = [gate EXCEPT ![c] = "outside"]
  /\ UNCHANGED <<flagVars, proxyVars, SlotVars, ctl>>

\* The library keeps the request and the reservation stays in force.
CallTimesOut(c) ==
  /\ call[c] = "waiting"
  /\ slot[c] = "open"
  /\ CallAt(c, "failed")
  /\ UNCHANGED <<gateVars, flagVars, proxyVars, SlotVars, ctl>>

Caller(c) ==
  \/ CallChecks(c) \/ CallAtGate(c) \/ CallEnqueues(c) \/ CallAborts(c)
  \/ CallReturns(c)

Impatience(c) == CallTimesOutInLine(c) \/ CallTimesOut(c)

-----------------------------------------------------------------------------
(* The proxy thread between runs: threadMain() and the start of runOnce() *)

At(pc) == proxy = pc
Onto(pc) == proxy' = pc

\* Mutant of ProxyTakesRun: a restart inherits the heartbeat's counters.
ProxyTakesRunAsIs ==
  /\ At("parked")
  /\ runRequested /\ ~shutdown
  /\ runRequested' = FALSE
  /\ Onto("prologue")
  /\ UNCHANGED <<gateVars, flagVars, healthVars, ctx, runActive, runFinished,
                 startDone, startOk, callVars, ctl, libVars>>

ProxyTakesRun ==
  /\ At("parked")
  /\ runRequested /\ ~shutdown
  /\ runRequested' = FALSE
  /\ Health!ResetBeat
  /\ Onto("prologue")
  /\ UNCHANGED <<gateVars, flagVars, state, ctx, runActive, runFinished, startDone,
                 startOk, callVars, ctl, libVars>>

ProxyExits ==
  /\ At("parked")
  /\ shutdown
  /\ Onto("exited")
  /\ UNCHANGED <<gateVars, flagVars, healthVars, runVars, callVars, ctl, libVars>>

\* startVerifProxy returns, after as long as it likes.
ProxyComesUp ==
  /\ At("prologue")
  /\ ctx' = TRUE
  /\ runActive' = TRUE
  /\ Health!ResetSync
  /\ Onto("drain")
  /\ UNCHANGED <<gateVars, flagVars, startVars, callVars, ctl, libVars>>

ProxyFailsToComeUp ==
  /\ At("prologue")
  /\ startDone' = TRUE /\ startOk' = FALSE
  /\ Onto("null")
  /\ UNCHANGED <<gateVars, flagVars, healthVars, ctx, runActive, runRequested,
                 runFinished, callVars, ctl, libVars>>

ProxyFailed ==
  /\ At("null")
  /\ Health!SetState("Failed")
  /\ Onto("over")
  /\ UNCHANGED <<gateVars, flagVars, runVars, callVars, ctl, libVars>>

\* Mutant of ProxyFinishes: only a run that was torn down releases stop().
ProxyFinishesUnlessFailed ==
  /\ At("over")
  /\ runFinished' = (runFinished \/ state # "Failed")
  /\ Onto("parked")
  /\ UNCHANGED <<gateVars, flagVars, healthVars, ctx, runActive, runRequested,
                 startDone, startOk, callVars, ctl, libVars>>

\* The last step of a failed run and of teardown(): release stop(), and park.
ProxyFinishes ==
  /\ At("over")
  /\ runFinished' = TRUE
  /\ Onto("parked")
  /\ UNCHANGED <<gateVars, flagVars, healthVars, ctx, runActive, runRequested,
                 startDone, startOk, callVars, ctl, libVars>>

-----------------------------------------------------------------------------
(* The pump loop of runOnce() *)

\* drainCommands(): one queued call is handed to the library.
ProxyDispatches ==
  /\ At("drain")
  /\ cmdQueue # <<>>
  /\ cmdQueue' = Tail(cmdQueue)
  /\ lib' = lib \cup {Head(cmdQueue)}
  /\ inFlight' = inFlight + 1
  /\ UNCHANGED <<gateVars, flagVars, healthVars, proxy, runVars, pending, slot, call,
                 ctl>>

ProxyDrained ==
  /\ At("drain")
  /\ cmdQueue = <<>>
  /\ Onto("turn")
  /\ UNCHANGED <<gateVars, flagVars, healthVars, runVars, callVars, ctl, libVars>>

\* The stop check, and otherwise advanceSync().
ProxyAdvances ==
  /\ At("turn")
  /\ ~Closing
  /\ \/ /\ Health!IssueEth \/ Health!IssueOp
        /\ lib' = lib \cup {Sync}
        /\ inFlight' = inFlight + 1
        /\ Remember(Sync)
        /\ Onto("beat")
     \/ /\ Health!FinishGood
        /\ Onto(IF startReleased THEN "beat" ELSE "release")
        /\ UNCHANGED <<libVars, pending>>
     \/ /\ Health!FinishBad \/ Health!SyncWaits
        /\ Onto("beat")
        /\ UNCHANGED <<libVars, pending>>
  /\ UNCHANGED <<gateVars, flagVars, runVars, cmdQueue, slot, call, ctl>>

\* releaseStart(true), once the state is Running.
ProxyReleasesStart ==
  /\ At("release")
  /\ startDone' = TRUE /\ startOk' = TRUE
  /\ Onto("beat")
  /\ UNCHANGED <<gateVars, flagVars, healthVars, ctx, runActive, runRequested,
                 runFinished, callVars, ctl, libVars>>

ProxyBeats ==
  /\ At("beat")
  /\ \/ /\ Health!IssueBeat
        /\ Gate!TryAdmit
        /\ lib' = lib \cup {Beat}
        /\ inFlight' = inFlight + 1
        /\ Remember(Beat)
     \/ /\ Health!SkipBeat
        /\ Gate!TryAdmitRefused
        /\ UNCHANGED <<libVars, pending>>
     \/ /\ ~Health!BeatWanted
        /\ UNCHANGED <<admitted, effective, queue, queuedNow, epoch, ticketEpoch,
                       healthVars, libVars, pending>>
  /\ Onto("pump")
  /\ UNCHANGED <<gate, flagVars, runVars, cmdQueue, slot, call, ctl>>

\* processVerifProxyTasks returns, and whatever nap follows is over.  It says
\* RET_CANCELLED only for a stopped context, which this loop never pumps.
ProxyPumped ==
  /\ At("pump")
  /\ Onto("drain")
  /\ UNCHANGED <<gateVars, flagVars, healthVars, runVars, callVars, ctl, libVars>>

-----------------------------------------------------------------------------
(* callbackTrampoline(): the library answers from inside one of the calls *)
(* the proxy thread makes into it, at once or on a later turn.            *)

InLibrary == proxy \in {"drain", "turn", "beat", "pump", "draining"}

Answered ==
  /\ InLibrary
  /\ inFlight' = inFlight - 1
  /\ UNCHANGED <<flagVars, proxy, runVars, cmdQueue, pending, call, ctl>>

AnswersCall(c) ==
  /\ c \in lib /\ Answered
  /\ lib' = lib \ {c}
  /\ \E status \in {"ok", "error"} :
       slot' = [slot EXCEPT ![c] = IF @ = "open" THEN status ELSE @]
  /\ Gate!ReleaseAdmission
  /\ gate' = [gate EXCEPT ![c] = "outside"]
  /\ UNCHANGED healthVars

AnswersBeat ==
  /\ Beat \in lib /\ Answered
  /\ lib' = lib \ {Beat}
  /\ \E ok \in BOOLEAN : Health!NoteHeartbeat(ok)
  /\ Gate!ReleaseAdmission
  /\ UNCHANGED <<gate, slot>>

\* Mutant of AnswersSync: its early return skips the in-flight count.
AnswersSyncUncounted ==
  /\ Sync \in lib /\ InLibrary
  /\ lib' = lib \ {Sync}
  /\ \E ok \in BOOLEAN : Health!NoteSync(ok)
  /\ UNCHANGED <<gateVars, flagVars, proxy, runVars, callVars, ctl, inFlight>>

AnswersSync ==
  /\ Sync \in lib /\ Answered
  /\ lib' = lib \ {Sync}
  /\ \E ok \in BOOLEAN : Health!NoteSync(ok)
  /\ UNCHANGED <<gateVars, slot>>

Answers == (\E c \in Calls : AnswersCall(c)) \/ AnswersBeat \/ AnswersSync

-----------------------------------------------------------------------------
(* teardown() *)

\* Mutant of ProxyLeaves: teardown() leaves a waiting start() alone.
ProxyLeavesSilently ==
  /\ At("turn")
  /\ Closing
  /\ Onto("leaving")
  /\ Health!AbandonStart
  /\ UNCHANGED <<gateVars, flagVars, runVars, callVars, ctl, libVars>>

ProxyLeaves ==
  /\ At("turn")
  /\ Closing
  /\ Onto("leaving")
  /\ \/ startReleased /\ UNCHANGED <<startDone, startOk>>
     \/ ~startReleased /\ startDone' = TRUE /\ startOk' = FALSE
  /\ Health!AbandonStart
  /\ UNCHANGED <<gateVars, flagVars, ctx, runActive, runRequested, runFinished,
                 callVars, ctl, libVars>>

\* Mutant of ProxyBeginsDrain: the state stays what it was.
ProxyDrainsUnannounced ==
  /\ At("leaving")
  /\ Onto("draining")
  /\ UNCHANGED <<gateVars, flagVars, healthVars, runVars, callVars, ctl, libVars>>

ProxyBeginsDrain ==
  /\ At("leaving")
  /\ Health!SetState("Draining")
  /\ Onto("draining")
  /\ UNCHANGED <<gateVars, flagVars, runVars, callVars, ctl, libVars>>

\* Mutant of ProxyFailsPending: the queue is dropped, its callers are not told.
ProxyDropsQueue ==
  /\ At("draining")
  /\ pending' = <<>>
  /\ cmdQueue' = <<>>
  /\ Onto("freeing")
  /\ UNCHANGED <<gateVars, flagVars, healthVars, runVars, slot, call, ctl, libVars>>

\* failAllPending(), when nothing is in flight or the deadline has passed.
ProxyFailsPending ==
  /\ At("draining")
  /\ slot' = [c \in Calls |-> IF c \in Range(pending) /\ slot[c] = "open"
                             THEN "error" ELSE slot[c]]
  /\ pending' = <<>>
  /\ cmdQueue' = <<>>
  /\ Onto("freeing")
  /\ UNCHANGED <<gateVars, flagVars, healthVars, runVars, call, ctl, libVars>>

\* Unanswered requests die with the context; nobody will call back.
ProxyFrees ==
  /\ At("freeing")
  /\ ctx' = FALSE
  /\ lib' = {}
  /\ runActive' = FALSE
  /\ inFlight' = 0
  /\ Onto("freed")
  /\ UNCHANGED <<gateVars, flagVars, healthVars, startVars, callVars, ctl>>

\* Mutant of ProxyResetsGate: reservations of the freed context stay in force.
ProxyKeepsGate ==
  /\ At("freed")
  /\ gate' = [c \in Calls |-> IF gate[c] = "holding" THEN "outside" ELSE gate[c]]
  /\ Onto("emptied")
  /\ UNCHANGED <<admitted, effective, queue, queuedNow, epoch, ticketEpoch>>
  /\ UNCHANGED <<flagVars, healthVars, runVars, callVars, ctl, libVars>>

ProxyResetsGate ==
  /\ At("freed")
  /\ Gate!TeardownResets
  /\ gate' = [c \in Calls |-> IF gate[c] = "holding" THEN "outside" ELSE gate[c]]
  /\ Onto("emptied")
  /\ UNCHANGED <<flagVars, healthVars, runVars, callVars, ctl, libVars>>

ProxyStops ==
  /\ At("emptied")
  /\ Health!SetState("Stopped")
  /\ Onto("over")
  /\ UNCHANGED <<gateVars, flagVars, runVars, callVars, ctl, libVars>>

Proxy ==
  \/ ProxyTakesRun \/ ProxyExits
  \/ ProxyComesUp \/ ProxyFailsToComeUp \/ ProxyFailed \/ ProxyFinishes
  \/ ProxyDispatches \/ ProxyDrained \/ ProxyAdvances \/ ProxyReleasesStart
  \/ ProxyBeats \/ ProxyPumped
  \/ ProxyLeaves \/ ProxyBeginsDrain \/ ProxyFailsPending \/ ProxyFrees
  \/ ProxyResetsGate \/ ProxyStops

-----------------------------------------------------------------------------
Timers ==
  /\ Health!SyncTimer \/ (KeepAlive /\ Health!BeatTimer)
  /\ UNCHANGED <<gateVars, flagVars, proxy, runVars, callVars, ctl, libVars>>

Next ==
  \/ \E t \in Clients : Start(t) \/ Stop(t) \/ Destroy(t)
  \/ \E c \in Calls : Caller(c) \/ Impatience(c)
  \/ Proxy \/ Answers \/ Timers

Spec == Init /\ [][Next]_vars

\* What the threads do on their own.  The proxy thread never stops turning,
\* startVerifProxy returns in the end, callers and clients take their next
\* step; no timeout has to fire and the library need not answer anything.
ClientSteps(t) ==
  \/ StartResets(t) \/ StartSizes(t) \/ StartSpawns(t) \/ StartPosts(t)
  \/ StartReturns(t) /\ startDone
  \/ StopChecks(t) /\ ctl[t] = "destroying"
  \/ StopRequests(t)
  \/ StopReturns(t) /\ runFinished
  \/ DestroyShutsDown(t)
  \/ DestroyJoins(t) /\ proxy = "exited"

FairSpec ==
  /\ Spec
  /\ WF_vars(Proxy)
  /\ \A t \in Clients : WF_vars(ClientSteps(t))
  /\ \A c \in Calls : WF_vars(Caller(c) /\ call[c] # "idle")

-----------------------------------------------------------------------------
Pumping == {"drain", "turn", "release", "beat", "pump"}
Ending  == {"leaving", "draining", "freeing", "freed", "emptied"}

\* Every variable keeps its type.
TypeOK ==
  /\ admitted \in Nat /\ effective \in 0..MaxInFlight
  /\ queue \in Seq(Calls) /\ queuedNow \in Int
  /\ epoch \in 0..MaxEpoch
  /\ stopRequested \in BOOLEAN /\ shutdown \in BOOLEAN
  /\ gate \in [Calls -> {"outside", "waiting", "holding", "refused"}]
  /\ ticketEpoch \in [Calls -> 0..MaxEpoch]
  /\ state \in Health!States
  /\ startReleased \in BOOLEAN
  /\ syncPhase \in {"Idle", "Eth", "EthDone", "Op", "OpDone"}
  /\ syncOk \in BOOLEAN /\ syncDue \in BOOLEAN /\ beatDue \in BOOLEAN
  /\ syncStreak \in 0..DegradeAfter /\ beatStreak \in 0..DegradeAfter
  /\ beatInFlight \in BOOLEAN
  /\ proxy \in Pumping \cup Ending \cup
                {"none", "parked", "exited", "prologue", "null", "over"}
  /\ ctx \in BOOLEAN /\ runActive \in BOOLEAN
  /\ runRequested \in BOOLEAN /\ runFinished \in BOOLEAN
  /\ startDone \in BOOLEAN /\ startOk \in BOOLEAN
  /\ inFlight \in Int
  /\ cmdQueue \in Seq(Calls) /\ pending \in Seq(Calls \cup {Beat, Sync})
  /\ slot \in [Calls -> {"open", "ok", "error"}]
  /\ call \in [Calls -> {"idle", "entering", "inLine", "reserved", "aborting",
                        "waiting", "ok", "failed"}]
  /\ ctl \in [Clients -> Returned \cup
        {"free", "resetting", "sizing", "spawning", "posting", "startWait",
         "stopping", "stopWait", "destroying", "destroyStopping", "destroyWait",
         "shuttingDown", "joining", "destroyed", "aborted"}]
  /\ lib \subseteq Calls \cup {Beat, Sync}

\* m_inFlight, which ends the drain, counts what the library still owes, for
\* as long as there is a context that could answer.
InFlightCounted == ctx => inFlight = Cardinality(lib)

\* What a run has queued for the library and handed to it, the sync aside,
\* never exceeds the ceiling fixed when it started.
LoadBounded ==
  ctx => Cardinality((lib \cup Range(cmdQueue)) \ {Sync}) <= effective

\* A caller that waits without an answer is owed one by the library or the
\* queue, and by a run whose teardown will release it if neither delivers.
NoOrphan ==
  \A c \in Calls : call[c] = "waiting" /\ slot[c] = "open" =>
    /\ c \in lib \cup Range(cmdQueue)
    /\ c \in Range(pending)
    /\ proxy \in Pumping \cup {"leaving", "draining"}

\* However long one request stays unanswered, the list that teardown works
\* through holds no more than the unanswered requests, or than the sweep allows.
PendingBounded ==
  Len(pending) <= Greater(PendingSweepAt, Cardinality(Calls) + 2)

\* A state that accepts calls is backed by a context, whatever start(), stop()
\* and completions wrote it last.
ServingHasContext == Serving => ctx /\ runActive

\* A start() that waits without an answer is owed one: by a run still to be
\* taken up, or by one still in progress, whoever stops or starts what
\* meanwhile.
StartIsOwed ==
  (\E t \in Clients : ctl[t] = "startWait") /\ ~startDone =>
    runRequested \/ proxy \in Pumping \cup {"prologue"}

\* stop() comes back only to a runtime at rest: the context freed, nothing
\* left in the library and no run about to begin.
StopLeavesNoRun ==
  [][\A t \in Clients :
       ctl[t] # ctl'[t] /\ ctl'[t] \in {"stopped", "notRunning"} =>
         ~ctx /\ lib = {} /\ ~runRequested]_vars

\* start() reports success only for a run that serves calls, or one that has
\* been told to stop meanwhile.
StartedIsServing ==
  [][\A t \in Clients :
       ctl[t] = "startWait" /\ ctl'[t] = "started" => Serving \/ Closing]_vars

\* The destructor returns only when the proxy thread is gone for good, and the
\* context with it: nothing executes in an image about to be unmapped.
DestroyedIsAtRest ==
  \A t \in Clients :
    ctl[t] = "destroyed" => proxy \in {"none", "exited"} /\ ~ctx /\ lib = {}

\* No caller stays inside a runtime that is being stopped, in line, in the
\* queue or in the library, without any timeout and whether or not the library
\* ever answers.
StopReleasesCallers ==
  \A c \in Calls : []<>(Closing => call[c] \in {"idle", "ok", "failed"})

\* stop() comes back without its deadline.
StopEnds == \A t \in Clients : []<>(ctl[t] # "stopWait")

\* The destructor's join comes back without its deadline, also from a run that
\* stop() never reached because start() had given up on it.
JoinEnds == \A t \in Clients : []<>(ctl[t] # "joining")

-----------------------------------------------------------------------------
(* The contracts Admission and SyncHealth are closed by: every step of the *)
(* runtime is one of theirs.  What they promise, and what is proved of     *)
(* them, is thereby promised for the runtime.                              *)

GateRun ==
  IF \E t \in Clients : ctl[t] = "sizing" THEN "starting"
  ELSE IF \/ \E t \in Clients : ctl[t] \in {"spawning", "posting"}
          \/ runRequested
          \/ proxy \in Pumping \cup (Ending \ {"emptied"}) \cup {"prologue", "null"}
  THEN "on" ELSE "off"

BeatReserved == beatInFlight /\ proxy \in Pumping \cup (Ending \ {"emptied"})

AdmissionContract ==
  INSTANCE Admission WITH Callers <- Calls, run <- GateRun, beating <- BeatReserved

KeepsAdmissionContract == AdmissionContract!Spec

PumpPhase ==
  CASE proxy \in Pumping -> "on"
    [] proxy = "leaving" -> "leaving"
    [] proxy \in Ending \ {"leaving"} -> "draining"
    [] proxy \in {"prologue", "null"} -> "prologue"
    [] OTHER -> IF runRequested \/ \E t \in Clients : ctl[t] = "posting"
                THEN "starting" ELSE "off"

SyncedSoFar ==
  CASE syncPhase \in {"Idle", "Eth"} -> {}
    [] syncPhase = "EthDone" -> IF syncOk THEN {"Eth"} ELSE {}
    [] syncPhase = "Op" -> {"Eth"}
    [] syncPhase = "OpDone" -> IF syncOk THEN {"Eth", "Op"} ELSE {"Eth"}

HealthContract ==
  INSTANCE SyncHealth WITH pump <- PumpPhase, weather <- "mixed", synced <- SyncedSoFar

KeepsHealthContract == HealthContract!Spec

-----------------------------------------------------------------------------
(* What a client of start(), stop(), live() and running() can build on. *)

RunNow ==
  CASE state = "Running" -> "running"
    [] state = "Degraded" -> "degraded"
    [] ~Serving /\ runActive -> IF state = "Draining" THEN "draining" ELSE "syncing"
    [] ~Serving /\ ~runActive ->
         IF proxy \in {"freed", "emptied", "null", "over"} THEN "ending"
         ELSE IF proxy = "prologue" \/ (runRequested /\ proxy # "exited") THEN "prologue"
         ELSE "none"

Life == INSTANCE RunLife WITH run <- RunNow, stopping <- Closing /\ RunNow # "none"

\* A run goes from the posted command to the freed context through these
\* stages and no others, whatever calls, beats and syncs do meanwhile: it
\* serves only from the first good sync to the drain, drains only if told to,
\* and the next is posted only after it is over.
KeepsRunLife == Life!Spec

-----------------------------------------------------------------------------
(* What the runtime promises the callers of call(). *)

CallerAt ==
  [c \in Calls |->
     IF call[c] \in {"entering", "inLine", "reserved", "aborting"} THEN "asking"
     ELSE call[c]]

\* The library's share ends with failAllPending(): what is left of it then is
\* freed with the context and answers nobody.
WorkAt ==
  [c \in Calls |-> IF c \in Range(cmdQueue) THEN "queued"
                   ELSE IF c \in lib /\ proxy # "freeing" THEN "library" ELSE "none"]

Service == INSTANCE CallService WITH caller <- CallerAt, work <- WorkAt, verdict <- slot

\* The runtime implements that promise: a call reaches the library once, has
\* one verdict that its caller is given, and a run that ends answers whatever
\* it still holds.
ImplementsCallService == Service!Spec
=============================================================================
