------------------------- MODULE ProxyRuntimeProofs -------------------------
(***************************************************************************)
(* The lifecycle and the health of the runtime for any number of clients   *)
(* and calls and for every limit: first what holds whatever clients do,    *)
(* then what holds if they call start() only on a runtime at rest.         *)
(***************************************************************************)
EXTENDS ProxyRuntime, TLAPS

Resting == {"none", "parked", "exited"}

\* Where the proxy thread is while a context exists.
Up == Pumping \cup {"leaving", "draining", "freeing"}

ProxyPlaces == Pumping \cup Ending \cup Resting \cup {"prologue", "null", "over"}

-----------------------------------------------------------------------------
(* The context, the library and the state follow the proxy thread *)

RunShape ==
  /\ proxy \in ProxyPlaces
  /\ ctx <=> proxy \in Up
  /\ runActive <=> proxy \in Up
  /\ ctx \in BOOLEAN /\ runActive \in BOOLEAN
  /\ proxy \notin Up => lib = {}
  /\ Serving => proxy \in Pumping \cup {"leaving"}

shapeVars == <<proxy, ctx, runActive, lib, state>>

LEMMA InitRunShape == Init => RunShape
  BY DEF Init, RunShape, ProxyPlaces, Up, Resting, Pumping, Ending, Serving

\* Callers and clients touch the shape of a run in two steps of start() only.
LEMMA OutsidersKeepShape ==
  ASSUME \/ \E t \in Clients :
              \/ StartChecks(t) \/ StartResets(t) \/ StartPosts(t) \/ StartReturns(t)
              \/ Stop(t) \/ Destroy(t)
         \/ \E c \in Calls : Caller(c) \/ Impatience(c)
         \/ Timers
  PROVE  UNCHANGED shapeVars
<1> USE DEF shapeVars, runVars, healthVars, libVars, proxyVars, startVars
<1>1. ASSUME NEW t \in Clients,
             StartChecks(t) \/ StartResets(t) \/ StartPosts(t) \/ StartReturns(t)
      PROVE  UNCHANGED shapeVars
  BY <1>1, Zenon DEF StartChecks, StartResets, StartPosts, StartReturns
<1>2. ASSUME NEW t \in Clients, Stop(t)
      PROVE  UNCHANGED shapeVars
  BY <1>2, Zenon DEF Stop, StopChecks, StopRequests, StopReturns, ClientGoesOn
<1>3. ASSUME NEW t \in Clients, Destroy(t)
      PROVE  UNCHANGED shapeVars
  BY <1>3, Zenon DEF Destroy, DestroyChecks, DestroyShutsDown, DestroyJoins
<1>4. ASSUME NEW c \in Calls, Caller(c)
      PROVE  UNCHANGED shapeVars
  BY <1>4, Zenon
  DEF Caller, CallChecks, CallAtGate, CallEnqueues, CallAborts, CallReturns
<1>5. ASSUME NEW c \in Calls, Impatience(c)
      PROVE  UNCHANGED shapeVars
  BY <1>5, Zenon DEF Impatience, CallTimesOutInLine, CallTimesOut
<1>6. ASSUME Timers
      PROVE  UNCHANGED shapeVars
  BY <1>6, Zenon DEF Timers, Health!SyncTimer, Health!BeatTimer
<1> QED
  BY <1>1, <1>2, <1>3, <1>4, <1>5, <1>6, Zenon

LEMMA StepRunShape == RunShape /\ [Next]_vars => RunShape'
<1> SUFFICES ASSUME RunShape, [Next]_vars PROVE RunShape'
  OBVIOUS
<1> USE DEF RunShape, ProxyPlaces, Up, Resting, Pumping, Ending, Serving
<1>1. CASE UNCHANGED shapeVars
  BY <1>1 DEF shapeVars
<1>2. ASSUME NEW t \in Clients, StartSizes(t)
      PROVE  RunShape'
  <2>1. /\ UNCHANGED <<proxy, ctx, runActive, lib>>
        /\ UNCHANGED state \/ state' = "Failed"
    BY <1>2, Zenon DEF StartSizes, Health!SetState, healthVars, runVars
  <2> QED
    BY <2>1
<1>3. ASSUME NEW t \in Clients, StartSpawns(t)
      PROVE  RunShape'
  <2>1. /\ UNCHANGED <<ctx, runActive, lib>> /\ state' = "Starting"
        /\ proxy' = IF proxy = "none" THEN "parked" ELSE proxy
    BY <1>3, Zenon DEF StartSpawns, Health!SetState, runVars, libVars
  <2> QED
    BY <2>1
<1>4. CASE ProxyTakesRun \/ ProxyExits \/ ProxyFinishes
  <2>1. /\ UNCHANGED <<ctx, runActive, lib, state>>
        /\ \/ proxy = "parked" /\ proxy' \in {"prologue", "exited"}
           \/ proxy = "over" /\ proxy' = "parked"
    BY <1>4, Zenon
    DEF ProxyTakesRun, ProxyExits, ProxyFinishes, At, Onto, healthVars, runVars, libVars
  <2> QED
    BY <2>1
<1>5. CASE ProxyComesUp
  <2>1. /\ UNCHANGED <<lib, state>>
        /\ proxy = "prologue" /\ proxy' = "drain" /\ ctx' = TRUE /\ runActive' = TRUE
    BY <1>5, Zenon DEF ProxyComesUp, Health!ResetSync, At, Onto, libVars
  <2> QED
    BY <2>1
<1>6. CASE ProxyFailsToComeUp \/ ProxyFailed \/ ProxyStops
  <2>1. /\ UNCHANGED <<ctx, runActive, lib>>
        /\ \/ proxy = "prologue" /\ proxy' = "null" /\ UNCHANGED state
           \/ proxy = "null" /\ proxy' = "over" /\ state' = "Failed"
           \/ proxy = "emptied" /\ proxy' = "over" /\ state' = "Stopped"
    BY <1>6, Zenon
    DEF ProxyFailsToComeUp, ProxyFailed, ProxyStops, Health!SetState, At, Onto,
        healthVars, runVars, libVars
  <2> QED
    BY <2>1
<1>7. CASE ProxyDispatches \/ ProxyDrained \/ ProxyReleasesStart \/ ProxyBeats
             \/ ProxyPumped
  <2>1. /\ UNCHANGED <<ctx, runActive, state>>
        /\ proxy \in Pumping /\ proxy' \in Pumping
    <3>1. CASE ProxyDispatches \/ ProxyDrained \/ ProxyReleasesStart \/ ProxyPumped
      BY <3>1, Zenon
      DEF ProxyDispatches, ProxyDrained, ProxyReleasesStart, ProxyPumped, At, Onto,
          healthVars, runVars, startVars
    <3>2. CASE ProxyBeats
      BY <3>2, Zenon
      DEF ProxyBeats, Health!IssueBeat, Health!SkipBeat, At, Onto, healthVars, runVars
    <3> QED
      BY <1>7, <3>1, <3>2
  <2> QED
    BY <2>1
<1>8. CASE ProxyAdvances
  <2>1. /\ UNCHANGED <<ctx, runActive>>
        /\ proxy = "turn" /\ proxy' \in {"beat", "release"}
    BY <1>8, Zenon DEF ProxyAdvances, At, Onto, runVars
  <2> QED
    BY <2>1
<1>9. CASE Answers
  <2>1. /\ UNCHANGED <<proxy, ctx, runActive>> /\ InLibrary
        /\ Serving' => Serving
    <3>1. ASSUME NEW c \in Calls, AnswersCall(c)
          PROVE  /\ UNCHANGED <<proxy, ctx, runActive>> /\ InLibrary
                 /\ Serving' => Serving
      BY <3>1, Zenon DEF AnswersCall, Answered, runVars, healthVars
    <3>2. CASE AnswersSync
      BY <3>2, Zenon DEF AnswersSync, Answered, runVars, Health!NoteSync
    <3>3. CASE AnswersBeat
      <4>1. PICK ok \in BOOLEAN : Health!NoteHeartbeat(ok)
        BY <3>3, Zenon DEF AnswersBeat
      <4> QED
        BY <3>3, <4>1, Zenon DEF AnswersBeat, Answered, runVars, Health!NoteHeartbeat
    <3> QED
      BY <1>9, <3>1, <3>2, <3>3, Zenon DEF Answers
  <2> QED
    BY <2>1 DEF InLibrary
<1>10. CASE ProxyLeaves
  <2>1. /\ UNCHANGED <<ctx, runActive, lib, state>>
        /\ proxy = "turn" /\ proxy' = "leaving"
    BY <1>10, Zenon DEF ProxyLeaves, Health!AbandonStart, At, Onto, libVars
  <2> QED
    BY <2>1
<1>11. CASE ProxyBeginsDrain
  <2>1. /\ UNCHANGED <<ctx, runActive, lib>> /\ state' = "Draining"
        /\ proxy = "leaving" /\ proxy' = "draining"
    BY <1>11, Zenon DEF ProxyBeginsDrain, Health!SetState, At, Onto, runVars, libVars
  <2> QED
    BY <2>1
<1>12. CASE ProxyFailsPending \/ ProxyResetsGate
  <2>1. /\ UNCHANGED <<ctx, runActive, lib, state>>
        /\ \/ proxy = "draining" /\ proxy' = "freeing"
           \/ proxy = "freed" /\ proxy' = "emptied"
    BY <1>12, Zenon
    DEF ProxyFailsPending, ProxyResetsGate, At, Onto, healthVars, runVars, libVars
  <2> QED
    BY <2>1
<1>13. CASE ProxyFrees
  <2>1. /\ proxy = "freeing" /\ proxy' = "freed" /\ UNCHANGED state
        /\ ctx' = FALSE /\ runActive' = FALSE /\ lib' = {}
    BY <1>13, Zenon DEF ProxyFrees, At, Onto, healthVars
  <2> QED
    BY <2>1
<1>14. CASE UNCHANGED vars
  BY <1>14, <1>1, Zenon DEF vars, shapeVars, runVars, libVars, healthVars
<1> QED
  BY <1>1, <1>2, <1>3, <1>4, <1>5, <1>6, <1>7, <1>8, <1>9, <1>10, <1>11, <1>12,
     <1>13, <1>14, OutsidersKeepShape, Zenon
  DEF Next, Start, Proxy

\* A state that accepts calls is backed by a context, however many clients
\* call start() and stop() against each other, and whatever the library
\* answers. (The writers of m_state, proxy_runtime.cpp 245-1000.)
THEOREM ServingIsBacked == Spec => []ServingHasContext
<1>1. RunShape => ServingHasContext
  BY DEF RunShape, ServingHasContext, Up
<1> QED
  BY <1>1, InitRunShape, StepRunShape, PTL DEF Spec

-----------------------------------------------------------------------------
(* Clients: one moves at a time, and a destroying one is alone *)

StartPlaces == {"resetting", "sizing", "spawning", "posting"}

StopPlaces == {"stopping", "stopWait"}

DestroyPlaces ==
  {"destroying", "destroyStopping", "destroyWait", "shuttingDown", "joining",
   "destroyed", "aborted"}

Places ==
  Returned \cup StartPlaces \cup StopPlaces \cup DestroyPlaces \cup {"free", "startWait"}

ClientTypes == ctl \in [Clients -> Places]

\* What a move of one client means for every client.
LEMMA Moves ==
  ASSUME ClientTypes, NEW t \in Clients, NEW pc \in Places, Go(t, pc)
  PROVE  ClientTypes' /\ ctl'[t] = pc /\ \A u \in Clients \ {t} : ctl'[u] = ctl[u]
  BY DEF ClientTypes, Go

\* The destructor finds nobody inside the object and lets nobody in.
OwnerAlone ==
  /\ ClientTypes
  /\ \A t \in Clients : ctl[t] \in DestroyPlaces =>
       \A u \in Clients \ {t} : ctl[u] = "free"
  /\ \A t \in Clients : ctl[t] = "destroyed" => proxy \in {"none", "exited"}

LEMMA InitOwnerAlone == Init => OwnerAlone
  BY DEF Init, OwnerAlone, ClientTypes, Places, DestroyPlaces

\* Only the proxy thread and StartSpawns move the proxy, and only clients move
\* clients.
LEMMA OthersKeepClients ==
  ASSUME (\E c \in Calls : Caller(c) \/ Impatience(c)) \/ Answers \/ Timers
  PROVE  UNCHANGED <<ctl, proxy, runRequested, runFinished, startDone, startOk>>
<1> USE DEF runVars, startVars, proxyVars
<1>1. ASSUME NEW c \in Calls, Caller(c) \/ Impatience(c)
      PROVE  UNCHANGED <<ctl, proxy, runRequested, runFinished, startDone, startOk>>
  BY <1>1, Zenon
  DEF Caller, CallChecks, CallAtGate, CallEnqueues, CallAborts, CallReturns, Impatience,
      CallTimesOutInLine, CallTimesOut
<1>2. ASSUME Answers \/ Timers
      PROVE  UNCHANGED <<ctl, proxy, runRequested, runFinished, startDone, startOk>>
  BY <1>2, Zenon
  DEF Answers, AnswersCall, AnswersBeat, AnswersSync, Answered, Timers
<1> QED
  BY <1>1, <1>2, Zenon

LEMMA ProxyKeepsClients ==
  ASSUME Proxy
  PROVE  UNCHANGED ctl /\ proxy \notin {"none", "exited"}
<1>1. UNCHANGED ctl
  BY Zenon
  DEF Proxy, ProxyTakesRun, ProxyExits, ProxyComesUp, ProxyFailsToComeUp, ProxyFailed,
      ProxyFinishes, ProxyDispatches, ProxyDrained, ProxyAdvances, ProxyReleasesStart,
      ProxyBeats, ProxyPumped, ProxyLeaves, ProxyBeginsDrain, ProxyFailsPending,
      ProxyFrees, ProxyResetsGate, ProxyStops
<1>2. \E pc \in (Pumping \cup Ending \cup {"parked", "prologue", "null", "over"}) : At(pc)
  BY
  DEF Proxy, ProxyTakesRun, ProxyExits, ProxyComesUp, ProxyFailsToComeUp, ProxyFailed,
      ProxyFinishes, ProxyDispatches, ProxyDrained, ProxyAdvances, ProxyReleasesStart,
      ProxyBeats, ProxyPumped, ProxyLeaves, ProxyBeginsDrain, ProxyFailsPending,
      ProxyFrees, ProxyResetsGate, ProxyStops, Pumping, Ending
<1> QED
  BY <1>1, <1>2 DEF At, Pumping, Ending

LEMMA StepOwnerAlone == OwnerAlone /\ [Next]_vars => OwnerAlone'
<1> SUFFICES ASSUME OwnerAlone, [Next]_vars PROVE OwnerAlone'
  OBVIOUS
<1> USE DEF OwnerAlone
<1>1. CASE UNCHANGED <<ctl, proxy>>
  BY <1>1 DEF ClientTypes
<1>2. CASE Proxy
  BY <1>2, ProxyKeepsClients DEF ClientTypes
<1>3. ASSUME NEW t \in Clients, Start(t)
      PROVE  OwnerAlone'
  <2>1. PICK pc \in StartPlaces \cup Returned \cup {"startWait"} : Go(t, pc)
    BY <1>3, Zenon
    DEF Start, StartChecks, StartResets, StartSizes, StartSpawns, StartPosts,
        StartReturns, StartPlaces, Returned
  <2>2. \A u \in Clients : ctl[u] \notin DestroyPlaces
    BY <1>3
    DEF Start, StartChecks, StartResets, StartSizes, StartSpawns, StartPosts,
        StartReturns, InUse, DestroyPlaces
  <2>3. /\ ClientTypes' /\ ctl'[t] = pc
        /\ \A u \in Clients \ {t} : ctl'[u] = ctl[u]
    BY <2>1, Moves DEF Places
  <2> QED
    BY <2>2, <2>3 DEF DestroyPlaces, StartPlaces, Returned
<1>4. ASSUME NEW t \in Clients, Stop(t)
      PROVE  OwnerAlone'
  <2>1. PICK pc \in Places : Go(t, pc)
    BY <1>4, Zenon
    DEF Stop, StopChecks, StopRequests, StopReturns, ClientGoesOn, Places, StopPlaces,
        DestroyPlaces, Returned
  <2>2. /\ ClientTypes' /\ ctl'[t] = pc
        /\ \A u \in Clients \ {t} : ctl'[u] = ctl[u]
    BY <2>1, Moves
  <2>3. /\ pc # "destroyed"
        /\ \/ ctl[t] \in DestroyPlaces
           \/ pc \notin DestroyPlaces /\ pc = "free"
           \/ pc \notin DestroyPlaces /\ \A u \in Clients : ctl[u] \notin DestroyPlaces
    BY <1>4, <2>2
    DEF Stop, StopChecks, StopRequests, StopReturns, ClientGoesOn, Go, InUse,
        DestroyPlaces, Returned, ClientTypes
  <2>4. UNCHANGED proxy
    BY <1>4, Zenon
    DEF Stop, StopChecks, StopRequests, StopReturns, ClientGoesOn
  <2> QED
    BY <2>2, <2>3, <2>4 DEF DestroyPlaces
<1>5. ASSUME NEW t \in Clients, Destroy(t)
      PROVE  OwnerAlone'
  <2>1. PICK pc \in DestroyPlaces : Go(t, pc)
    BY <1>5, Zenon DEF Destroy, DestroyChecks, DestroyShutsDown, DestroyJoins, DestroyPlaces
  <2>2. /\ ClientTypes' /\ ctl'[t] = pc
        /\ \A u \in Clients \ {t} : ctl'[u] = ctl[u]
    BY <2>1, Moves DEF Places
  <2>3. /\ pc = "destroyed" => proxy \in {"none", "exited"}
        /\ ctl[t] \in DestroyPlaces \/ \A u \in Clients : ctl[u] = "free"
    BY <1>5, <2>2
    DEF Destroy, DestroyChecks, DestroyShutsDown, DestroyJoins, Go, DestroyPlaces,
        ClientTypes
  <2>4. UNCHANGED proxy
    BY <1>5, Zenon DEF Destroy, DestroyChecks, DestroyShutsDown, DestroyJoins
  <2> QED
    BY <2>2, <2>3, <2>4 DEF DestroyPlaces
<1>6. CASE UNCHANGED vars
  BY <1>6, <1>1, Zenon DEF vars
<1> QED
  BY <1>1, <1>2, <1>3, <1>4, <1>5, <1>6, OthersKeepClients, Zenon DEF Next

\* The destructor returns only when the proxy thread is gone for good, with its
\* context and whatever the library still owed. (~ProxyRuntime, 140-157.)
THEOREM DestructionIsFinal == Spec => []DestroyedIsAtRest
<1>1. RunShape /\ OwnerAlone => DestroyedIsAtRest
  BY DEF RunShape, OwnerAlone, DestroyedIsAtRest, Up, Pumping
<1> QED
  BY <1>1, InitRunShape, StepRunShape, InitOwnerAlone, StepOwnerAlone, PTL DEF Spec

-----------------------------------------------------------------------------
(* A start() that waits is owed an answer *)

\* Once the first good cycle is announced start() has its answer, unless the
\* next one has been posted on top of it.
Owed ==
  /\ StartIsOwed
  /\ proxy \in Pumping \ {"release"} /\ startReleased /\ ~startDone => runRequested

LEMMA InitOwed == Init => Owed
  BY DEF Init, Owed, StartIsOwed, Pumping

owedVars == <<proxy, startReleased, startDone, runRequested>>

\* Apart from StartPosts, no move of a client makes it wait for start().
LEMMA NoNewWaiter ==
  ASSUME ClientTypes, NEW t \in Clients, NEW pc \in Places, Go(t, pc), pc # "startWait",
         \E u \in Clients : ctl'[u] = "startWait"
  PROVE  \E u \in Clients : ctl[u] = "startWait"
  BY Moves

LEMMA StepOwed == ClientTypes /\ Owed /\ [Next]_vars => Owed'
<1> SUFFICES ASSUME ClientTypes, Owed, [Next]_vars PROVE Owed'
  OBVIOUS
<1> USE DEF Owed, StartIsOwed
<1>1. CASE UNCHANGED <<ctl, owedVars>>
  BY <1>1, Zenon DEF owedVars
<1>2. ASSUME NEW t \in Clients,
             \/ StartChecks(t) \/ StartResets(t) \/ StartSizes(t) \/ StartReturns(t)
             \/ Stop(t) \/ Destroy(t)
      PROVE  Owed'
  <2>1. \E pc \in Places \ {"startWait"} : Go(t, pc)
    BY <1>2, Zenon
    DEF StartChecks, StartResets, StartSizes, StartReturns, Stop, StopChecks,
        StopRequests, StopReturns, ClientGoesOn, Destroy, DestroyChecks,
        DestroyShutsDown, DestroyJoins, Places, StartPlaces, StopPlaces, DestroyPlaces,
        Returned
  <2>2. UNCHANGED owedVars
    <3>1. CASE StartChecks(t) \/ StartResets(t) \/ StartSizes(t) \/ StartReturns(t)
      BY <3>1, Zenon
      DEF StartChecks, StartResets, StartSizes, StartReturns, Health!SetState, owedVars,
          healthVars, syncVars, runVars, startVars, Health!syncVars
    <3>2. CASE Stop(t)
      BY <3>2, Zenon
      DEF Stop, StopChecks, StopRequests, StopReturns, ClientGoesOn, owedVars,
          healthVars, syncVars, runVars, startVars
    <3>3. CASE Destroy(t)
      BY <3>3, Zenon
      DEF Destroy, DestroyChecks, DestroyShutsDown, DestroyJoins, owedVars, healthVars,
          syncVars, runVars, startVars
    <3> QED
      BY <1>2, <3>1, <3>2, <3>3, Zenon
  <2> QED
    BY <2>1, <2>2, NoNewWaiter, Zenon DEF owedVars
<1>3. ASSUME NEW t \in Clients, StartSpawns(t)
      PROVE  Owed'
  <2>1. Go(t, "posting") /\ proxy' = (IF proxy = "none" THEN "parked" ELSE proxy)
        /\ UNCHANGED <<startReleased, startDone, runRequested>>
    BY <1>3, Zenon
    DEF StartSpawns, Health!SetState, Health!syncVars, runVars, startVars
  <2>2. (\E u \in Clients : ctl'[u] = "startWait")
          => \E u \in Clients : ctl[u] = "startWait"
    BY <2>1, NoNewWaiter DEF Places, StartPlaces
  <2> QED
    BY <2>1, <2>2 DEF Pumping
<1>4. ASSUME NEW t \in Clients, StartPosts(t)
      PROVE  Owed'
  BY <1>4, Zenon DEF StartPosts
<1>5. CASE ProxyTakesRun
  BY <1>5 DEF ProxyTakesRun, Onto, Pumping
<1>6. CASE ProxyExits \/ ProxyFailed \/ ProxyFinishes \/ ProxyBeginsDrain
             \/ ProxyFailsPending \/ ProxyFrees \/ ProxyResetsGate \/ ProxyStops
  <2>1. /\ UNCHANGED <<ctl, startDone, runRequested>>
        /\ proxy \in Ending \cup {"parked", "null", "over"}
        /\ proxy' \in Ending \cup {"parked", "over", "exited"}
    BY <1>6, Zenon
    DEF ProxyExits, ProxyFailed, ProxyFinishes, ProxyBeginsDrain, ProxyFailsPending,
        ProxyFrees, ProxyResetsGate, ProxyStops, At, Onto, Ending, runVars, startVars
  <2> QED
    BY <2>1 DEF Pumping, Ending
<1>7. CASE ProxyComesUp
  <2>1. /\ UNCHANGED <<ctl, startDone, runRequested>>
        /\ startReleased' = FALSE /\ proxy' = "drain"
    BY <1>7, Zenon DEF ProxyComesUp, Health!ResetSync, Onto, startVars
  <2> QED
    BY <2>1 DEF Pumping
<1>8. CASE ProxyFailsToComeUp \/ ProxyReleasesStart
  BY <1>8, Zenon DEF ProxyFailsToComeUp, ProxyReleasesStart
<1>9. CASE ProxyDispatches \/ ProxyDrained \/ ProxyBeats \/ ProxyPumped
  <2>1. /\ UNCHANGED <<ctl, startReleased, startDone, runRequested>>
        /\ proxy \in Pumping \ {"release"} /\ proxy' \in Pumping \ {"release"}
    <3>1. CASE ProxyDispatches \/ ProxyDrained \/ ProxyPumped
      BY <3>1
      DEF ProxyDispatches, ProxyDrained, ProxyPumped, At, Onto, Pumping, healthVars,
          syncVars, runVars, startVars
    <3>2. CASE ProxyBeats
      <4>1. /\ proxy = "beat" /\ proxy' = "pump"
            /\ UNCHANGED <<ctl, startReleased, startDone, runRequested>>
        BY <3>2, Zenon
        DEF ProxyBeats, At, Onto, runVars, startVars, healthVars, syncVars,
            Health!IssueBeat, Health!SkipBeat, Health!syncVars
      <4> QED
        BY <4>1 DEF Pumping
    <3> QED
      BY <1>9, <3>1, <3>2
  <2> QED
    BY <2>1
<1>10. CASE ProxyAdvances
  <2>1. /\ UNCHANGED <<ctl, startDone, runRequested>> /\ proxy = "turn"
        /\ \/ proxy' = "release"
           \/ proxy' = "beat" /\ (startReleased' => startReleased)
    <3>1. UNCHANGED <<ctl, startDone, runRequested>> /\ proxy = "turn"
      BY <1>10, Zenon DEF ProxyAdvances, At, runVars, startVars
    <3>2. CASE Health!FinishGood /\ Onto(IF startReleased THEN "beat" ELSE "release")
      BY <3>1, <3>2, Zenon DEF Onto
    <3>3. CASE /\ Onto("beat")
               /\ \/ Health!IssueEth \/ Health!IssueOp \/ Health!FinishBad
                  \/ Health!SyncWaits
      BY <3>1, <3>3
      DEF Onto, Health!IssueEth, Health!IssueOp, Health!FinishBad, Health!SyncWaits,
          Health!healthVars, Health!syncVars
    <3> QED
      BY <1>10, <3>2, <3>3, Zenon DEF ProxyAdvances
  <2> QED
    BY <2>1 DEF Pumping
<1>11. CASE ProxyLeaves
  <2>1. /\ UNCHANGED <<ctl, runRequested>> /\ proxy = "turn" /\ proxy' = "leaving"
        /\ \/ startDone' = TRUE
           \/ startReleased /\ UNCHANGED startDone
    BY <1>11, Zenon DEF ProxyLeaves, At, Onto
  <2> QED
    BY <2>1 DEF Pumping
<1>12. CASE Answers \/ Timers \/ \E c \in Calls : Caller(c) \/ Impatience(c)
  <2>1. UNCHANGED startReleased
    <3>1. ASSUME NEW c \in Calls, Caller(c) \/ Impatience(c)
          PROVE  UNCHANGED startReleased
      BY <3>1, Zenon
      DEF Caller, CallChecks, CallAtGate, CallEnqueues, CallAborts, CallReturns,
          Impatience, CallTimesOutInLine, CallTimesOut, proxyVars, healthVars, syncVars
    <3>2. CASE Timers
      BY <3>2, Zenon DEF Timers, Health!SyncTimer, Health!BeatTimer, Health!syncVars
    <3>3. ASSUME NEW c \in Calls, AnswersCall(c)
          PROVE  UNCHANGED startReleased
      BY <3>3, Zenon DEF AnswersCall, healthVars, syncVars
    <3>4. CASE AnswersBeat \/ AnswersSync
      BY <3>4, Zenon
      DEF AnswersBeat, AnswersSync, Health!NoteHeartbeat, Health!NoteSync,
          Health!syncVars
    <3> QED
      BY <1>12, <3>1, <3>2, <3>3, <3>4, Zenon DEF Answers
  <2> QED
    BY <1>1, <1>12, <2>1, OthersKeepClients, Zenon DEF owedVars
<1>13. CASE UNCHANGED vars
  BY <1>13, <1>1, Zenon
  DEF vars, owedVars, runVars, startVars, healthVars, syncVars
<1> QED
  BY <1>1, <1>2, <1>3, <1>4, <1>5, <1>6, <1>7, <1>8, <1>9, <1>10, <1>11, <1>12,
     <1>13, Zenon DEF Next, Start, Proxy

\* A start() that waits without an answer is owed one, by a run still to be
\* taken up or by one in progress, whoever stops or starts what meanwhile.
\* (releaseStart(), and the first line of teardown().)
THEOREM WaitingStartIsOwed == Spec => []StartIsOwed
<1>1. OwnerAlone => ClientTypes
  BY DEF OwnerAlone
<1>2. Owed => StartIsOwed
  BY DEF Owed
<1> QED
  BY <1>1, <1>2, InitOwnerAlone, StepOwnerAlone, InitOwed, StepOwed, PTL DEF Spec

-----------------------------------------------------------------------------
(* Clients that start only a runtime at rest *)

\* start() has the runtime for itself until it has posted its command; the two
\* latches say where the run is; and success is reported while it serves.
RunsInTurn ==
  /\ \A t \in Clients : ctl[t] \in StartPlaces =>
       /\ proxy \in Resting /\ ~runRequested
       /\ ctl[t] = "posting" => proxy # "none"
       /\ \A u \in Clients \ {t} : ctl[u] \notin StartPlaces \cup {"startWait"}
  /\ runRequested => proxy \in Resting \ {"none"} /\ ~runFinished
  /\ runFinished => proxy \in Resting
  /\ proxy = "release" => Serving
  /\ startOk /\ (\E t \in Clients : ctl[t] = "startWait") =>
       Closing \/ (proxy \in Pumping /\ Serving)

LEMMA InitRunsInTurn == Init => RunsInTurn
  BY DEF Init, RunsInTurn, StartPlaces, Resting

turnVars ==
  <<ctl, proxy, runRequested, runFinished, startOk, stopRequested, shutdown>>

\* The state is left to the proxy thread and to two steps of start(); what
\* answers come in never end serving.
LEMMA OthersKeepTurn ==
  ASSUME (\E c \in Calls : Caller(c) \/ Impatience(c)) \/ Answers \/ Timers
  PROVE  UNCHANGED turnVars /\ (Serving => Serving')
<1>1. UNCHANGED <<stopRequested, shutdown>>
  <2>1. ASSUME NEW c \in Calls, Caller(c) \/ Impatience(c)
        PROVE  UNCHANGED <<stopRequested, shutdown>>
    BY <2>1, Zenon
    DEF Caller, CallChecks, CallAtGate, CallEnqueues, CallAborts, CallReturns,
        Impatience, CallTimesOutInLine, CallTimesOut, flagVars
  <2>2. ASSUME Answers \/ Timers
        PROVE  UNCHANGED <<stopRequested, shutdown>>
    BY <2>2, Zenon
    DEF Answers, AnswersCall, AnswersBeat, AnswersSync, Answered, Timers, flagVars
  <2> QED
    BY <2>1, <2>2, Zenon
<1>2. Serving => Serving'
  <2>1. CASE (\E c \in Calls : Caller(c) \/ Impatience(c)) \/ Timers
    BY <2>1, OutsidersKeepShape, Zenon DEF shapeVars, Serving
  <2>2. ASSUME NEW c \in Calls, AnswersCall(c)
        PROVE  Serving => Serving'
    BY <2>2, Zenon DEF AnswersCall, healthVars, Serving
  <2>3. CASE AnswersSync
    BY <2>3, Zenon DEF AnswersSync, Health!NoteSync, Serving
  <2>4. CASE AnswersBeat
    BY <2>4 DEF AnswersBeat, Health!NoteHeartbeat, Serving
  <2> QED
    BY <2>1, <2>2, <2>3, <2>4, Zenon DEF Answers
<1> QED
  BY <1>1, <1>2, OthersKeepClients, Zenon DEF turnVars

LEMMA StepRunsInTurnOfProxy ==
  ASSUME RunsInTurn, Proxy PROVE RunsInTurn'
<1> USE DEF RunsInTurn, Resting, Pumping, Ending
<1>1. UNCHANGED <<ctl, stopRequested, shutdown>> /\ Closing' = Closing
  <2>1. UNCHANGED <<stopRequested, shutdown>>
    BY Zenon
    DEF Proxy, ProxyTakesRun, ProxyExits, ProxyComesUp, ProxyFailsToComeUp, ProxyFailed,
        ProxyFinishes, ProxyDispatches, ProxyDrained, ProxyAdvances, ProxyReleasesStart,
        ProxyBeats, ProxyPumped, ProxyLeaves, ProxyBeginsDrain, ProxyFailsPending,
        ProxyFrees, ProxyResetsGate, ProxyStops, flagVars
  <2> QED
    BY <2>1, ProxyKeepsClients, Zenon DEF Closing
<1>2. CASE ProxyTakesRun
  <2>1. /\ proxy = "parked" /\ proxy' = "prologue"
        /\ runRequested /\ runRequested' = FALSE /\ UNCHANGED <<runFinished, startOk>>
    BY <1>2, Zenon DEF ProxyTakesRun, At, Onto
  <2>2. startOk' /\ (\E t \in Clients : ctl'[t] = "startWait") => Closing'
    BY <1>1, <2>1
  <2> QED
    BY <1>1, <2>1, <2>2
<1>3. CASE ProxyExits
  <2>1. /\ proxy = "parked" /\ proxy' = "exited"
        /\ UNCHANGED <<runRequested, runFinished, startOk>>
    BY <1>3, Zenon DEF ProxyExits, At, Onto, runVars, startVars
  <2> QED
    BY <1>1, <2>1
<1>4. CASE ProxyFinishes
  <2>1. /\ proxy = "over" /\ proxy' = "parked" /\ runFinished' = TRUE
        /\ UNCHANGED <<runRequested, startOk>>
    BY <1>4, Zenon DEF ProxyFinishes, At, Onto
  <2> QED
    BY <1>1, <2>1
<1>5. CASE ProxyFailsToComeUp
  <2>1. /\ proxy = "prologue" /\ proxy' = "null" /\ startOk' = FALSE
        /\ UNCHANGED <<runRequested, runFinished>>
    BY <1>5, Zenon DEF ProxyFailsToComeUp, At, Onto
  <2> QED
    BY <1>1, <2>1
<1>6. CASE \/ ProxyComesUp \/ ProxyFailed \/ ProxyBeginsDrain \/ ProxyFailsPending
           \/ ProxyFrees \/ ProxyResetsGate \/ ProxyStops
  <2>1. /\ UNCHANGED <<runRequested, runFinished, startOk>>
        /\ \/ proxy = "prologue" /\ proxy' = "drain"
           \/ /\ proxy \in Ending \cup {"null"}
              /\ proxy' \in (Ending \ {"leaving"}) \cup {"over"}
    BY <1>6, Zenon
    DEF ProxyComesUp, ProxyFailed, ProxyBeginsDrain, ProxyFailsPending, ProxyFrees,
        ProxyResetsGate, ProxyStops, At, Onto, Ending, runVars, startVars
  <2> QED
    BY <1>1, <2>1
<1>7. CASE ProxyLeaves
  <2>1. /\ proxy = "turn" /\ proxy' = "leaving" /\ Closing
        /\ UNCHANGED <<runRequested, runFinished>>
    BY <1>7, Zenon DEF ProxyLeaves, At, Onto
  <2> QED
    BY <1>1, <2>1
<1>8. CASE ProxyReleasesStart
  <2>1. /\ proxy = "release" /\ proxy' = "beat"
        /\ UNCHANGED <<state, runRequested, runFinished>>
    BY <1>8, Zenon DEF ProxyReleasesStart, At, Onto, healthVars
  <2> QED
    BY <1>1, <2>1 DEF Serving
<1>9. CASE ProxyDispatches \/ ProxyDrained \/ ProxyBeats \/ ProxyPumped
  <2>1. /\ UNCHANGED <<state, runRequested, runFinished, startOk>>
        /\ proxy \in Pumping /\ proxy' \in Pumping \ {"release"}
    <3>1. CASE ProxyDispatches \/ ProxyDrained \/ ProxyPumped
      BY <3>1, Zenon
      DEF ProxyDispatches, ProxyDrained, ProxyPumped, At, Onto, Pumping, healthVars,
          runVars, startVars
    <3>2. CASE ProxyBeats
      BY <3>2, Zenon
      DEF ProxyBeats, Health!IssueBeat, Health!SkipBeat, At, Onto, Pumping, healthVars,
          runVars, startVars
    <3> QED
      BY <1>9, <3>1, <3>2
  <2> QED
    BY <1>1, <2>1 DEF Serving
<1>10. CASE ProxyAdvances
  <2>1. /\ UNCHANGED <<runRequested, runFinished, startOk>> /\ proxy = "turn"
    BY <1>10, Zenon DEF ProxyAdvances, At, runVars, startVars
  <2>2. /\ proxy' \in {"beat", "release"} /\ (Serving => Serving')
        /\ proxy' = "release" => Serving'
    <3>1. CASE Health!FinishGood /\ Onto(IF startReleased THEN "beat" ELSE "release")
      BY <3>1 DEF Onto, Health!FinishGood, Serving
    <3>2. CASE /\ Onto("beat")
               /\ \/ Health!IssueEth \/ Health!IssueOp \/ Health!FinishBad
                  \/ Health!SyncWaits
      BY <3>2
      DEF Onto, Health!IssueEth, Health!IssueOp, Health!FinishBad, Health!SyncWaits,
          Health!healthVars, Serving
    <3> QED
      BY <1>10, <3>1, <3>2, Zenon DEF ProxyAdvances
  <2> QED
    BY <1>1, <2>1, <2>2
<1> QED
  BY <1>2, <1>3, <1>4, <1>5, <1>6, <1>7, <1>8, <1>9, <1>10, Zenon DEF Proxy

LEMMA StepRunsInTurnOfStart ==
  ASSUME "runs" \in Contract, ClientTypes, RunsInTurn, NEW t \in Clients, Start(t)
  PROVE  RunsInTurn'
<1> USE DEF RunsInTurn, Closing
<1>0. \A pc \in Places : Go(t, pc) =>
        ctl'[t] = pc /\ \A u \in Clients \ {t} : ctl'[u] = ctl[u]
  BY Moves
<1>1. CASE StartChecks(t)
  <2>1. /\ UNCHANGED <<proxy, runRequested, runFinished, startOk, stopRequested,
                       shutdown, state>>
        /\ MayStart
        /\ Go(t, IF runActive THEN "alreadyStarted" ELSE "resetting")
    BY <1>1, Zenon
    DEF StartChecks, runVars, startVars, flagVars, healthVars
  <2>2. /\ \A u \in Clients : ctl[u] = "free"
        /\ runActive \/ (proxy \in {"none", "parked"} /\ ~runRequested)
    BY <2>1, Zenon DEF MayStart, Quiet
  <2>3. /\ ctl'[t] = IF runActive THEN "alreadyStarted" ELSE "resetting"
        /\ \A u \in Clients \ {t} : ctl'[u] = "free"
    BY <1>0, <2>1, <2>2 DEF Places, StartPlaces, Returned
  <2>4. CASE runActive
    <3>1. \A u \in Clients : ctl'[u] \notin StartPlaces \cup {"startWait"}
      BY <2>3, <2>4 DEF StartPlaces
    <3>2. /\ runRequested' => proxy' \in Resting \ {"none"} /\ ~runFinished'
          /\ runFinished' => proxy' \in Resting
          /\ proxy' = "release" => Serving'
      BY <2>1, Zenon DEF Serving
    <3> QED
      BY <3>1, <3>2, Zenon
  <2>5. CASE ~runActive
    BY <2>1, <2>2, <2>3, <2>5 DEF StartPlaces, Resting
  <2> QED
    BY <2>4, <2>5
<1>2. CASE StartResets(t) \/ StartSizes(t) \/ StartSpawns(t)
  <2>1. /\ UNCHANGED <<runRequested, runFinished, startOk>>
        /\ ctl[t] \in {"resetting", "sizing", "spawning"}
        /\ \E pc \in {"sizing", "startFailed", "spawning", "posting"} : Go(t, pc)
        /\ \/ UNCHANGED proxy /\ ~Go(t, "posting")
           \/ proxy' = IF proxy = "none" THEN "parked" ELSE proxy
    <3>1. CASE StartResets(t)
      BY <1>0, <3>1
      DEF StartResets, runVars, startVars, Places, StartPlaces
    <3>2. CASE StartSizes(t)
      BY <1>0, <3>2
      DEF StartSizes, runVars, startVars, Places, StartPlaces, Returned
    <3>3. CASE StartSpawns(t)
      BY <3>3, Zenon DEF StartSpawns, runVars, startVars
    <3> QED
      BY <1>2, <3>1, <3>2, <3>3
  <2>2. /\ ctl'[t] \in {"sizing", "startFailed", "spawning", "posting"}
        /\ \A u \in Clients \ {t} : ctl'[u] = ctl[u]
        /\ ctl'[t] = "posting" => Go(t, "posting")
    BY <1>0, <2>1 DEF Places, StartPlaces, Returned
  <2>3. /\ proxy \in Resting /\ ~runRequested
        /\ \A u \in Clients \ {t} : ctl[u] \notin StartPlaces \cup {"startWait"}
    BY <2>1 DEF StartPlaces
  <2>4. proxy' \in Resting /\ (ctl'[t] = "posting" => proxy' # "none")
    BY <2>1, <2>2, <2>3 DEF Resting
  <2>5. \A u \in Clients : ctl'[u] # "startWait"
    BY <2>2, <2>3
  <2> QED
    BY <2>1, <2>2, <2>3, <2>4, <2>5 DEF Resting, StartPlaces
<1>3. CASE StartPosts(t)
  <2>1. /\ UNCHANGED proxy /\ ctl[t] = "posting" /\ Go(t, "startWait")
        /\ startOk' = FALSE /\ runFinished' = FALSE
    BY <1>3, Zenon DEF StartPosts
  <2>2. /\ ctl'[t] = "startWait" /\ \A u \in Clients \ {t} : ctl'[u] = ctl[u]
    BY <1>0, <2>1 DEF Places
  <2> QED
    BY <2>1, <2>2 DEF StartPlaces, Resting
<1>4. CASE StartReturns(t)
  <2>1. /\ UNCHANGED <<proxy, runRequested, runFinished, startOk, stopRequested,
                       shutdown, state>>
        /\ \E pc \in Returned : Go(t, pc)
    BY <1>4, Zenon
    DEF StartReturns, runVars, startVars, flagVars, healthVars, Returned
  <2>2. /\ ctl'[t] \in Returned /\ \A u \in Clients \ {t} : ctl'[u] = ctl[u]
    BY <1>0, <2>1 DEF Places
  <2> QED
    BY <2>1, <2>2 DEF StartPlaces, Returned, Serving
<1> QED
  BY <1>1, <1>2, <1>3, <1>4, Zenon DEF Start

LEMMA StepRunsInTurn ==
  ASSUME "runs" \in Contract, ClientTypes, RunsInTurn, [Next]_vars
  PROVE  RunsInTurn'
<1>1. CASE UNCHANGED turnVars /\ (Serving => Serving')
  BY <1>1 DEF RunsInTurn, turnVars, Closing
<1>2. ASSUME NEW t \in Clients, Stop(t) \/ Destroy(t)
      PROVE  RunsInTurn'
  <2>1. UNCHANGED <<proxy, runRequested, runFinished, startOk, state>>
    BY <1>2, Zenon
    DEF Stop, StopChecks, StopRequests, StopReturns, ClientGoesOn, Destroy,
        DestroyChecks, DestroyShutsDown, DestroyJoins, runVars, startVars, healthVars
  <2>2. Closing => Closing'
    BY <1>2, Zenon
    DEF Stop, StopChecks, StopRequests, StopReturns, ClientGoesOn, Destroy,
        DestroyChecks, DestroyShutsDown, DestroyJoins, flagVars, Closing
  <2>3. PICK pc \in {"free"} \cup Returned \cup StopPlaces \cup DestroyPlaces : Go(t, pc)
    BY <1>2, Zenon
    DEF Stop, StopChecks, StopRequests, StopReturns, ClientGoesOn, Destroy,
        DestroyChecks, DestroyShutsDown, DestroyJoins, StopPlaces, DestroyPlaces,
        Returned
  <2>4. ctl'[t] = pc /\ \A u \in Clients \ {t} : ctl'[u] = ctl[u]
    BY <2>3, Moves DEF Places
  <2>5. ctl'[t] \notin StartPlaces \cup {"startWait"}
    BY <2>4 DEF StartPlaces, StopPlaces, DestroyPlaces, Returned
  <2> QED
    BY <2>1, <2>2, <2>4, <2>5 DEF RunsInTurn, Serving
<1>3. CASE UNCHANGED vars
  BY <1>1, <1>3, Zenon
  DEF vars, turnVars, runVars, startVars, flagVars, healthVars, Serving
<1> QED
  BY <1>1, <1>2, <1>3, OthersKeepTurn, StepRunsInTurnOfProxy, StepRunsInTurnOfStart,
     Zenon DEF Next

\* Clients that start only a runtime at rest can rely on what stop() says: it
\* comes back with the context freed, nothing left in the library and no run
\* about to begin.  (stop(), proxy_runtime.cpp 318-349.)
THEOREM StopIsComplete ==
  ASSUME "runs" \in Contract PROVE Spec => StopLeavesNoRun
<1>1. RunShape /\ ClientTypes /\ RunsInTurn /\ [Next]_vars =>
        [\A t \in Clients :
           ctl[t] # ctl'[t] /\ ctl'[t] \in {"stopped", "notRunning"} =>
             ~ctx /\ lib = {} /\ ~runRequested]_vars
  <2> SUFFICES ASSUME RunShape, ClientTypes, RunsInTurn, Next, NEW t \in Clients,
                      ctl[t] # ctl'[t], ctl'[t] \in {"stopped", "notRunning"}
               PROVE  ~ctx /\ lib = {} /\ ~runRequested
    BY Zenon
  <2>1. \A u \in Clients, pc \in Places : Go(u, pc) => u = t /\ pc = ctl'[t]
    BY Moves
  <2>2. ~ \E u \in Clients : Start(u)
    <3>1. ASSUME NEW u \in Clients, Start(u)
          PROVE  \E pc \in Places \ {"stopped", "notRunning"} : Go(u, pc)
      BY <3>1, Zenon
      DEF Start, StartChecks, StartResets, StartSizes, StartSpawns, StartPosts,
          StartReturns, Places, StartPlaces, Returned
    <3> QED
      BY <2>1, <3>1
  <2>3. ~ \E u \in Clients : Destroy(u)
    <3>1. ASSUME NEW u \in Clients, Destroy(u)
          PROVE  \E pc \in Places \ {"stopped", "notRunning"} : Go(u, pc)
      BY <3>1, Zenon
      DEF Destroy, DestroyChecks, DestroyShutsDown, DestroyJoins, Places, DestroyPlaces
    <3> QED
      BY <2>1, <3>1
  <2>4. PICK u \in Clients : Stop(u)
    BY <2>2, <2>3, OthersKeepClients, ProxyKeepsClients, Zenon DEF Next
  <2>5. \/ proxy = "none"
        \/ runFinished
    <3>1. ~StopRequests(u) /\ ~ClientGoesOn(u)
      BY <2>1
      DEF StopRequests, ClientGoesOn, Places, StopPlaces, DestroyPlaces
    <3>2. CASE StopChecks(u)
      BY <2>1, <3>2
      DEF StopChecks, Places, Returned, StopPlaces, DestroyPlaces
    <3>3. CASE StopReturns(u)
      BY <2>1, <3>3
      DEF StopReturns, Places, Returned, DestroyPlaces
    <3> QED
      BY <2>4, <3>1, <3>2, <3>3, Zenon DEF Stop
  <2>6. proxy \in Resting /\ ~runRequested
    BY <2>5 DEF RunsInTurn, Resting
  <2> QED
    BY <2>6 DEF RunShape, Resting, Up, Pumping
<1>2. ClientTypes /\ RunsInTurn /\ [Next]_vars => RunsInTurn'
  BY StepRunsInTurn
<1>3. OwnerAlone => ClientTypes
  BY DEF OwnerAlone
<1> QED
  BY <1>1, <1>2, <1>3, InitRunShape, StepRunShape, InitOwnerAlone, StepOwnerAlone,
     InitRunsInTurn, PTL DEF Spec, StopLeavesNoRun

\* Under the same contract start() reports success only for a run that serves
\* calls, or that has been told to stop meanwhile. (finishSyncCycle() sets the
\* state before it releases start(), 931-945.)
THEOREM SuccessMeansServing ==
  ASSUME "runs" \in Contract PROVE Spec => StartedIsServing
<1>1. ClientTypes /\ RunsInTurn /\ [Next]_vars =>
        [\A t \in Clients :
           ctl[t] = "startWait" /\ ctl'[t] = "started" => Serving \/ Closing]_vars
  <2> SUFFICES ASSUME ClientTypes, RunsInTurn, Next, NEW t \in Clients,
                      ctl[t] = "startWait", ctl'[t] = "started"
               PROVE  Serving \/ Closing
    BY Zenon
  <2>1. \A u \in Clients, pc \in Places : Go(u, pc) => u = t /\ pc = "started"
    BY Moves
  <2>2. PICK u \in Clients : Start(u) \/ Stop(u) \/ Destroy(u)
    BY OthersKeepClients, ProxyKeepsClients, Zenon DEF Next
  <2>3. \E pc \in Places : Go(u, pc)
    BY <2>2, Zenon
    DEF Start, StartChecks, StartResets, StartSizes, StartSpawns, StartPosts,
        StartReturns, Stop, StopChecks, StopRequests, StopReturns, ClientGoesOn, Destroy,
        DestroyChecks, DestroyShutsDown, DestroyJoins, Places, StartPlaces, StopPlaces,
        DestroyPlaces, Returned
  <2>4. u = t
    BY <2>1, <2>3
  <2>5. StartReturns(t)
    <3>1. ctl[t] = "startWait" /\ "startWait" \notin Returned
      BY DEF Returned
    <3> QED
      BY <2>2, <2>4, <3>1
      DEF Start, StartChecks, StartResets, StartSizes, StartSpawns, StartPosts, Stop,
          StopChecks, StopRequests, StopReturns, ClientGoesOn, Destroy, DestroyChecks,
          DestroyShutsDown, DestroyJoins
  <2>6. startOk
    BY <2>1, <2>5 DEF StartReturns, Places, Returned
  <2> QED
    BY <2>6, Zenon DEF RunsInTurn
<1>2. ClientTypes /\ RunsInTurn /\ [Next]_vars => RunsInTurn'
  BY StepRunsInTurn
<1>3. OwnerAlone => ClientTypes
  BY DEF OwnerAlone
<1> QED
  BY <1>1, <1>2, <1>3, InitOwnerAlone, StepOwnerAlone, InitRunsInTurn, PTL
  DEF Spec, StartedIsServing

-----------------------------------------------------------------------------
(* Clients that start only a runtime at rest: every step of the runtime is *)
(* then a step of SyncHealth, so what is proved there of the sync cycle,   *)
(* the heartbeat and the state holds of the runtime as a whole.            *)

Posting == \E t \in Clients : ctl[t] = "posting"

\* Where a run is, as SyncHealth sees it.
LEMMA PhaseIs ==
  /\ proxy \in Pumping => PumpPhase = "on"
  /\ proxy = "leaving" => PumpPhase = "leaving"
  /\ proxy \in Ending \ {"leaving"} => PumpPhase = "draining"
  /\ proxy \in {"prologue", "null"} => PumpPhase = "prologue"
  /\ proxy \in Resting \cup {"over"} /\ (runRequested \/ Posting) => PumpPhase = "starting"
  /\ proxy \in Resting \cup {"over"} /\ ~runRequested /\ ~Posting => PumpPhase = "off"
  BY DEF PumpPhase, Pumping, Ending, Resting, Posting

LEMMA PhaseIsNext ==
  /\ proxy' \in Pumping => PumpPhase' = "on"
  /\ proxy' = "leaving" => PumpPhase' = "leaving"
  /\ proxy' \in Ending \ {"leaving"} => PumpPhase' = "draining"
  /\ proxy' \in {"prologue", "null"} => PumpPhase' = "prologue"
  /\ proxy' \in Resting \cup {"over"} /\ (runRequested' \/ Posting') =>
       PumpPhase' = "starting"
  /\ proxy' \in Resting \cup {"over"} /\ ~runRequested' /\ ~Posting' => PumpPhase' = "off"
  BY DEF PumpPhase, Pumping, Ending, Resting, Posting

LEMMA PhaseStays ==
  ASSUME UNCHANGED <<proxy, runRequested>>, Posting' <=> Posting
  PROVE  UNCHANGED PumpPhase
  BY DEF PumpPhase, Posting

LEMMA HealthRests ==
  ASSUME UNCHANGED healthVars, UNCHANGED PumpPhase
  PROVE  UNCHANGED HealthContract!vars
  BY DEF healthVars, beatVars, syncVars, timerVars, SyncedSoFar, HealthContract!vars,
         HealthContract!healthVars, HealthContract!beatVars, HealthContract!syncVars,
         HealthContract!timerVars

LEMMA HealthInit == Init => HealthContract!Init
  BY DEF Init, HealthContract!Init, PumpPhase, SyncedSoFar, Pumping, Ending

\* What the outside does to a run's health: nothing.
LEMMA HealthOfOthers ==
  ASSUME ClientTypes,
         \/ \E c \in Calls : Caller(c) \/ Impatience(c)
         \/ \E t \in Clients : Stop(t) \/ Destroy(t)
  PROVE  UNCHANGED HealthContract!vars
<1>1. ASSUME NEW c \in Calls, Caller(c) \/ Impatience(c)
      PROVE  UNCHANGED HealthContract!vars
  <2>1. UNCHANGED healthVars
    BY <1>1, Zenon
    DEF Caller, CallChecks, CallAtGate, CallEnqueues, CallAborts, CallReturns, Impatience,
        CallTimesOutInLine, CallTimesOut, proxyVars
  <2>2. UNCHANGED <<ctl, proxy, runRequested>>
    BY <1>1, OthersKeepClients
  <2> QED
    BY <2>1, <2>2, PhaseStays, HealthRests DEF Posting
<1>2. ASSUME NEW t \in Clients, Stop(t) \/ Destroy(t)
      PROVE  UNCHANGED HealthContract!vars
  <2>1. UNCHANGED <<healthVars, proxy, runRequested>>
    BY <1>2, Zenon
    DEF Stop, StopChecks, StopRequests, StopReturns, ClientGoesOn, Destroy, DestroyChecks,
        DestroyShutsDown, DestroyJoins, runVars, startVars
  <2>2. ctl[t] # "posting" /\ \E pc \in Places \ {"posting"} : Go(t, pc)
    BY <1>2
    DEF Stop, StopChecks, StopRequests, StopReturns, ClientGoesOn, Destroy, DestroyChecks,
        DestroyShutsDown, DestroyJoins, Places, Returned, StartPlaces, StopPlaces,
        DestroyPlaces
  <2>3. ctl'[t] # "posting" /\ \A u \in Clients \ {t} : ctl'[u] = ctl[u]
    BY <2>2, Moves
  <2>4. Posting' <=> Posting
    BY <2>2, <2>3 DEF Posting
  <2> QED
    BY <2>1, <2>4, PhaseStays, HealthRests
<1> QED
  BY <1>1, <1>2

LEMMA HealthOfStart ==
  ASSUME ClientTypes, RunsInTurn, NEW t \in Clients, Start(t)
  PROVE  [HealthContract!Next]_(HealthContract!vars)
<1>1. ctl[t] \in StartPlaces =>
        /\ proxy \in Resting /\ ~runRequested
        /\ \A u \in Clients \ {t} : ctl[u] # "posting"
  BY DEF RunsInTurn, StartPlaces
<1>2. CASE StartChecks(t) \/ StartResets(t) \/ StartReturns(t)
           \/ (StartSizes(t) /\ UNCHANGED healthVars)
  <2>1. UNCHANGED <<healthVars, proxy, runRequested>>
    BY <1>2, Zenon
    DEF StartChecks, StartResets, StartReturns, StartSizes, runVars, startVars
  <2>2. ctl[t] # "posting" /\ \E pc \in Places : Go(t, pc) /\ (pc = "posting" => FALSE)
    BY <1>2
    DEF StartChecks, StartResets, StartReturns, StartSizes, Places, Returned, StartPlaces
  <2>3. ctl'[t] # "posting" /\ \A u \in Clients \ {t} : ctl'[u] = ctl[u]
    BY <2>2, Moves
  <2>4. Posting' <=> Posting
    BY <2>2, <2>3 DEF Posting
  <2> QED
    BY <2>1, <2>4, PhaseStays, HealthRests
<1>3. CASE StartSizes(t) /\ Health!SetState("Failed") /\ Go(t, "startFailed")
  <2>1. ctl[t] = "sizing" /\ UNCHANGED <<proxy, runRequested>>
    BY <1>3, Zenon DEF StartSizes, runVars, startVars
  <2>2. ctl'[t] = "startFailed" /\ \A u \in Clients \ {t} : ctl'[u] = ctl[u]
    BY <1>3, Moves DEF Places, Returned
  <2>3. ~Posting /\ ~Posting'
    BY <1>1, <2>1, <2>2 DEF Posting, StartPlaces
  <2>4. PumpPhase = "off" /\ PumpPhase' = "off"
    BY <1>1, <2>1, <2>3, PhaseIs, PhaseIsNext DEF StartPlaces
  <2>5. UNCHANGED SyncedSoFar
    BY <1>3 DEF Health!SetState, Health!syncVars, SyncedSoFar
  <2>6. HealthContract!RunRefused
    BY <1>3, <2>4, <2>5
    DEF HealthContract!RunRefused, HealthContract!SetState, Health!SetState,
        HealthContract!beatVars, HealthContract!syncVars, HealthContract!timerVars,
        Health!beatVars, Health!syncVars, Health!timerVars
  <2> QED
    BY <2>6, Zenon DEF HealthContract!Next
<1>4. CASE StartSpawns(t)
  <2>1. /\ ctl[t] = "spawning" /\ UNCHANGED runRequested
        /\ proxy' = IF proxy = "none" THEN "parked" ELSE proxy
        /\ Health!SetState("Starting") /\ Go(t, "posting")
    BY <1>4, Zenon DEF StartSpawns, runVars, startVars
  <2>2. ctl'[t] = "posting"
    BY <2>1, Moves DEF Places, StartPlaces
  <2>3. ~Posting /\ Posting'
    BY <1>1, <2>1, <2>2 DEF Posting, StartPlaces
  <2>4. PumpPhase = "off" /\ PumpPhase' = "starting"
    BY <1>1, <2>1, <2>3, PhaseIs, PhaseIsNext DEF StartPlaces, Resting
  <2>5. UNCHANGED SyncedSoFar
    BY <2>1 DEF Health!SetState, Health!syncVars, SyncedSoFar
  <2>6. HealthContract!RunBegins
    BY <2>1, <2>4, <2>5
    DEF HealthContract!RunBegins, HealthContract!SetState, Health!SetState,
        HealthContract!beatVars, HealthContract!syncVars, HealthContract!timerVars,
        Health!beatVars, Health!syncVars, Health!timerVars
  <2> QED
    BY <2>6, Zenon DEF HealthContract!Next
<1>5. CASE StartPosts(t)
  <2>1. ctl[t] = "posting" /\ runRequested' /\ UNCHANGED <<healthVars, proxy>>
    BY <1>5, Zenon DEF StartPosts
  <2>2. PumpPhase = "starting" /\ PumpPhase' = "starting"
    BY <1>1, <2>1, PhaseIs, PhaseIsNext DEF StartPlaces, Posting
  <2> QED
    BY <2>1, <2>2, HealthRests
<1>6. StartSizes(t) =>
        \/ UNCHANGED healthVars
        \/ Health!SetState("Failed") /\ Go(t, "startFailed")
  BY Zenon DEF StartSizes
<1> QED
  BY <1>2, <1>3, <1>4, <1>5, <1>6, Zenon DEF Start

\* A run that the proxy thread has taken up has no other start() behind it.
LEMMA TakenUp ==
  ASSUME RunsInTurn, proxy \notin Resting
  PROVE  ~runRequested /\ ~Posting
  BY DEF RunsInTurn, Posting, StartPlaces

LEMMA HealthOfAdvance ==
  ASSUME ProxyAdvances
  PROVE  [HealthContract!Next]_(HealthContract!vars)
<1> USE DEF Health!syncVars, Health!beatVars, Health!timerVars, HealthContract!syncVars,
            HealthContract!beatVars, HealthContract!timerVars
<1>1. PumpPhase = "on" /\ PumpPhase' = "on"
  <2>1. proxy = "turn" /\ (proxy' = "beat" \/ proxy' = "release")
    BY Zenon DEF ProxyAdvances, At, Onto
  <2> QED
    BY <2>1, PhaseIs, PhaseIsNext DEF Pumping
<1>2. CASE Health!IssueEth
  <2>1. UNCHANGED SyncedSoFar
    BY <1>2 DEF Health!IssueEth, SyncedSoFar
  <2>2. HealthContract!IssueEth
    BY <1>2 DEF Health!IssueEth, HealthContract!IssueEth
  <2> QED
    BY <1>1, <2>1, <2>2 DEF HealthContract!Advance, HealthContract!Next
<1>3. CASE Health!IssueOp
  <2>1. UNCHANGED SyncedSoFar
    BY <1>3 DEF Health!IssueOp, SyncedSoFar
  <2>2. HealthContract!IssueOp
    BY <1>3 DEF Health!IssueOp, HealthContract!IssueOp
  <2> QED
    BY <1>1, <2>1, <2>2 DEF HealthContract!Advance, HealthContract!Next
<1>4. CASE Health!FinishGood \/ Health!FinishBad
  <2>1. SyncedSoFar' = {}
    BY <1>4 DEF Health!FinishGood, Health!FinishBad, SyncedSoFar
  <2>2. CASE Health!FinishGood
    <3>1. HealthContract!FinishGood
      BY <2>2
      DEF Health!FinishGood, HealthContract!FinishGood, Health!CycleOver,
          HealthContract!CycleOver
    <3> QED
      BY <1>1, <2>1, <3>1 DEF HealthContract!Advance, HealthContract!Next
  <2>3. CASE Health!FinishBad
    <3>1. HealthContract!FinishBad
      BY <2>3
      DEF Health!FinishBad, HealthContract!FinishBad, Health!CycleOver,
          HealthContract!CycleOver, Health!Bump, HealthContract!Bump
    <3> QED
      BY <1>1, <2>1, <3>1 DEF HealthContract!Advance, HealthContract!Next
  <2> QED
    BY <1>4, <2>2, <2>3
<1>5. CASE Health!SyncWaits
  <2>1. UNCHANGED healthVars
    BY <1>5
    DEF Health!SyncWaits, Health!healthVars, healthVars, beatVars, syncVars, timerVars
  <2> QED
    BY <1>1, <2>1, HealthRests
<1> QED
  BY <1>2, <1>3, <1>4, <1>5, Zenon DEF ProxyAdvances

LEMMA HealthOfBeat ==
  ASSUME ProxyBeats
  PROVE  [HealthContract!Next]_(HealthContract!vars)
<1> USE DEF Health!syncVars, Health!beatVars, Health!timerVars, HealthContract!syncVars,
            HealthContract!beatVars, HealthContract!timerVars
<1>1. PumpPhase = "on" /\ PumpPhase' = "on"
  <2>1. proxy = "beat" /\ proxy' = "pump"
    BY Zenon DEF ProxyBeats, At, Onto
  <2> QED
    BY <2>1, PhaseIs, PhaseIsNext DEF Pumping
<1>2. CASE Health!IssueBeat \/ Health!SkipBeat
  <2>3. UNCHANGED syncPhase /\ UNCHANGED syncOk
    <3>1. CASE Health!IssueBeat
      BY <3>1, Zenon DEF Health!IssueBeat
    <3>2. CASE Health!SkipBeat
      BY <3>2, Zenon DEF Health!SkipBeat
    <3> QED
      BY <1>2, <3>1, <3>2
  <2>1. UNCHANGED SyncedSoFar
    BY <2>3 DEF SyncedSoFar
  <2>2. HealthContract!IssueBeat \/ HealthContract!SkipBeat
    BY <1>2
    DEF Health!IssueBeat, HealthContract!IssueBeat, Health!SkipBeat,
        HealthContract!SkipBeat, Health!BeatWanted, HealthContract!BeatWanted
  <2> QED
    BY <1>1, <2>1, <2>2 DEF HealthContract!Beat, HealthContract!Next
<1>3. CASE UNCHANGED healthVars
  BY <1>1, <1>3, HealthRests
<1> QED
  BY <1>2, <1>3, Zenon DEF ProxyBeats

LEMMA HealthOfAnswers ==
  ASSUME ClientTypes, Answers
  PROVE  [HealthContract!Next]_(HealthContract!vars)
<1> USE DEF Health!syncVars, Health!beatVars, Health!timerVars, HealthContract!syncVars,
            HealthContract!beatVars, HealthContract!timerVars
<1>1. UNCHANGED <<ctl, proxy, runRequested>>
  BY OthersKeepClients
<1>2. UNCHANGED PumpPhase
  BY <1>1, PhaseStays DEF Posting
<1>3. PumpPhase \in {"on", "draining"}
  <2>1. proxy \in {"drain", "turn", "beat", "pump", "draining"}
    BY Zenon
    DEF Answers, AnswersCall, AnswersBeat, AnswersSync, Answered, InLibrary
  <2> QED
    BY <2>1, PhaseIs DEF Pumping, Ending
<1>4. ASSUME NEW c \in Calls, AnswersCall(c)
      PROVE  UNCHANGED HealthContract!vars
  <2>1. UNCHANGED healthVars
    BY <1>4, Zenon DEF AnswersCall
  <2> QED
    BY <1>2, <2>1, HealthRests
<1>5. CASE AnswersBeat
  <2>1. PICK ok \in BOOLEAN : Health!NoteHeartbeat(ok)
    BY <1>5, Zenon DEF AnswersBeat
  <2>2. UNCHANGED SyncedSoFar
    BY <2>1 DEF Health!NoteHeartbeat, SyncedSoFar
  <2>3. HealthContract!NoteHeartbeat(ok)
    BY <2>1
    DEF Health!NoteHeartbeat, HealthContract!NoteHeartbeat, Health!Bump,
        HealthContract!Bump
  <2>4. HealthContract!BeatAnswer
    BY <1>2, <1>3, <2>2, <2>3 DEF HealthContract!BeatAnswer, HealthContract!Outcomes
  <2> QED
    BY <2>4, Zenon DEF HealthContract!Next
<1>6. CASE AnswersSync
  <2>1. PICK ok \in BOOLEAN : Health!NoteSync(ok)
    BY <1>6, Zenon DEF AnswersSync
  <2>2. SyncedSoFar' = IF ok THEN SyncedSoFar \cup {syncPhase} ELSE SyncedSoFar
    BY <2>1 DEF Health!NoteSync, SyncedSoFar
  <2>3. HealthContract!NoteSync(ok)
    BY <2>1 DEF Health!NoteSync, HealthContract!NoteSync
  <2>4. HealthContract!SyncAnswer
    BY <1>2, <1>3, <2>2, <2>3 DEF HealthContract!SyncAnswer, HealthContract!Outcomes
  <2> QED
    BY <2>4, Zenon DEF HealthContract!Next
<1> QED
  BY <1>4, <1>5, <1>6, Zenon DEF Answers

LEMMA HealthOfTimers ==
  ASSUME Timers
  PROVE  [HealthContract!Next]_(HealthContract!vars)
<1> USE DEF Health!syncVars, Health!beatVars, Health!timerVars, HealthContract!syncVars,
            HealthContract!beatVars, HealthContract!timerVars
<1>1. UNCHANGED <<ctl, proxy, runRequested>>
  BY OthersKeepClients
<1>2. UNCHANGED PumpPhase
  BY <1>1, PhaseStays DEF Posting
<1>3. Health!SyncTimer \/ Health!BeatTimer
  BY Zenon DEF Timers
<1>6. UNCHANGED syncPhase /\ UNCHANGED syncOk
  <2>1. CASE Health!SyncTimer
    BY <2>1, Zenon DEF Health!SyncTimer
  <2>2. CASE Health!BeatTimer
    BY <2>2, Zenon DEF Health!BeatTimer
  <2> QED
    BY <1>3, <2>1, <2>2
<1>4. UNCHANGED SyncedSoFar
  BY <1>6 DEF SyncedSoFar
<1>5. HealthContract!SyncTimer \/ HealthContract!BeatTimer
  BY <1>3
  DEF Health!SyncTimer, Health!BeatTimer, HealthContract!SyncTimer,
      HealthContract!BeatTimer
<1> QED
  BY <1>2, <1>4, <1>5 DEF HealthContract!Timers, HealthContract!Next

LEMMA HealthOfProxy ==
  ASSUME RunsInTurn, Proxy
  PROVE  [HealthContract!Next]_(HealthContract!vars)
<1> USE DEF Health!syncVars, Health!beatVars, Health!timerVars, HealthContract!syncVars,
            HealthContract!beatVars, HealthContract!timerVars, HealthContract!Next
<1>0. UNCHANGED ctl /\ (Posting' <=> Posting)
  BY ProxyKeepsClients DEF Posting
<1>t. proxy \notin Resting => ~runRequested /\ ~Posting
  BY TakenUp
<1>1. CASE ProxyTakesRun
  <2>1. /\ proxy = "parked" /\ proxy' = "prologue" /\ runRequested
        /\ Health!ResetBeat /\ UNCHANGED state
    BY <1>1, Zenon DEF ProxyTakesRun, At, Onto
  <2>2. PumpPhase = "starting" /\ PumpPhase' = "prologue"
    BY <2>1, PhaseIs, PhaseIsNext DEF Resting
  <2>3. UNCHANGED SyncedSoFar
    BY <2>1 DEF Health!ResetBeat, SyncedSoFar
  <2>4. HealthContract!RunTaken
    BY <2>1, <2>2, <2>3
    DEF Health!ResetBeat, HealthContract!ResetBeat, HealthContract!RunTaken
  <2> QED
    BY <2>4, Zenon
<1>2. CASE ProxyComesUp
  <2>1. proxy = "prologue" /\ proxy' = "drain" /\ Health!ResetSync
    BY <1>2, Zenon DEF ProxyComesUp, At, Onto
  <2>2. PumpPhase = "prologue" /\ PumpPhase' = "on"
    BY <2>1, PhaseIs, PhaseIsNext DEF Pumping
  <2>3. SyncedSoFar' = {}
    BY <2>1 DEF Health!ResetSync, SyncedSoFar
  <2>4. HealthContract!RunUp
    BY <2>1, <2>2, <2>3
    DEF Health!ResetSync, HealthContract!ResetSync, HealthContract!RunUp
  <2> QED
    BY <2>4, Zenon
<1>3. ASSUME NEW s, Health!SetState(s), UNCHANGED SyncedSoFar => HealthContract!Next
      PROVE  HealthContract!Next
  BY <1>3 DEF Health!SetState, SyncedSoFar
<1>4. CASE ProxyFailed
  <2>1. proxy = "null" /\ proxy' = "over" /\ Health!SetState("Failed") /\ UNCHANGED runRequested
    BY <1>4, Zenon DEF ProxyFailed, At, Onto, runVars, startVars
  <2>2. PumpPhase = "prologue" /\ PumpPhase' = "off"
    BY <1>0, <1>t, <2>1, PhaseIs, PhaseIsNext DEF Resting
  <2>3. UNCHANGED SyncedSoFar => HealthContract!RunFails
    BY <2>1, <2>2
    DEF Health!SetState, HealthContract!SetState, HealthContract!RunFails
  <2> QED
    BY <1>3, <2>1, <2>3, Zenon
<1>5. CASE ProxyBeginsDrain
  <2>1. proxy = "leaving" /\ proxy' = "draining" /\ Health!SetState("Draining")
    BY <1>5, Zenon DEF ProxyBeginsDrain, At, Onto
  <2>2. PumpPhase = "leaving" /\ PumpPhase' = "draining"
    BY <2>1, PhaseIs, PhaseIsNext DEF Ending
  <2>3. UNCHANGED SyncedSoFar => HealthContract!RunDrains
    BY <2>1, <2>2
    DEF Health!SetState, HealthContract!SetState, HealthContract!RunDrains
  <2> QED
    BY <1>3, <2>1, <2>3, Zenon
<1>6. CASE ProxyStops
  <2>1. /\ proxy = "emptied" /\ proxy' = "over" /\ Health!SetState("Stopped")
        /\ UNCHANGED runRequested
    BY <1>6, Zenon DEF ProxyStops, At, Onto, runVars, startVars
  <2>2. PumpPhase = "draining" /\ PumpPhase' = "off"
    BY <1>0, <1>t, <2>1, PhaseIs, PhaseIsNext DEF Ending, Resting
  <2>3. UNCHANGED SyncedSoFar => HealthContract!RunEnds
    BY <2>1, <2>2
    DEF Health!SetState, HealthContract!SetState, HealthContract!RunEnds
  <2> QED
    BY <1>3, <2>1, <2>3, Zenon
<1>7. CASE ProxyLeaves
  <2>1. proxy = "turn" /\ proxy' = "leaving" /\ Health!AbandonStart
    BY <1>7, Zenon DEF ProxyLeaves, At, Onto
  <2>2. PumpPhase = "on" /\ PumpPhase' = "leaving"
    BY <2>1, PhaseIs, PhaseIsNext DEF Pumping
  <2>3. UNCHANGED SyncedSoFar
    BY <2>1 DEF Health!AbandonStart, SyncedSoFar
  <2>4. HealthContract!RunLeft
    BY <2>1, <2>2, <2>3
    DEF Health!AbandonStart, HealthContract!AbandonStart, HealthContract!RunLeft
  <2> QED
    BY <2>4, Zenon
<1>8. CASE \/ ProxyExits \/ ProxyFailsToComeUp \/ ProxyFinishes
           \/ ProxyDispatches \/ ProxyDrained \/ ProxyReleasesStart \/ ProxyPumped
           \/ ProxyFailsPending \/ ProxyFrees \/ ProxyResetsGate
  <2>1. UNCHANGED <<healthVars, runRequested>>
    BY <1>8, Zenon
    DEF ProxyExits, ProxyFailsToComeUp, ProxyFinishes, ProxyDispatches, ProxyDrained,
        ProxyReleasesStart, ProxyPumped, ProxyFailsPending, ProxyFrees, ProxyResetsGate,
        runVars, startVars
  <2>2. \/ proxy \in Pumping /\ proxy' \in Pumping
        \/ proxy \in Ending \ {"leaving"} /\ proxy' \in Ending \ {"leaving"}
        \/ proxy = "prologue" /\ proxy' = "null"
        \/ proxy \in Resting \cup {"over"} /\ proxy' \in Resting \cup {"over"}
    BY <1>8
    DEF ProxyExits, ProxyFailsToComeUp, ProxyFinishes, ProxyDispatches, ProxyDrained,
        ProxyReleasesStart, ProxyPumped, ProxyFailsPending, ProxyFrees, ProxyResetsGate,
        At, Onto, Pumping, Ending, Resting
  <2>3. UNCHANGED PumpPhase
    BY <1>0, <2>1, <2>2, PhaseIs, PhaseIsNext
  <2> QED
    BY <2>1, <2>3, HealthRests
<1> QED
  BY <1>1, <1>2, <1>4, <1>5, <1>6, <1>7, <1>8, HealthOfAdvance, HealthOfBeat, Zenon
  DEF Proxy

LEMMA HealthStep ==
  ASSUME ClientTypes, RunsInTurn, [Next]_vars
  PROVE  [HealthContract!Next]_(HealthContract!vars)
<1>1. CASE UNCHANGED vars
  <2>1. UNCHANGED <<healthVars, proxy, runRequested, ctl>>
    BY <1>1, Zenon DEF vars, runVars, startVars
  <2> QED
    BY <2>1, PhaseStays, HealthRests DEF Posting
<1> QED
  BY <1>1, HealthOfOthers, HealthOfStart, HealthOfProxy, HealthOfAnswers,
     HealthOfTimers, Zenon
  DEF Next

\* If clients start only a runtime at rest, every step of the runtime keeps the
\* contract SyncHealth is proved under. (runOnce(), teardown().)
THEOREM HealthContractKept ==
  ASSUME "runs" \in Contract PROVE Spec => KeepsHealthContract
<1>1. OwnerAlone => ClientTypes
  BY DEF OwnerAlone
<1>2. ClientTypes /\ RunsInTurn /\ [Next]_vars => RunsInTurn'
  BY StepRunsInTurn
<1>3. ClientTypes /\ RunsInTurn /\ [Next]_vars =>
        [HealthContract!Next]_(HealthContract!vars)
  BY HealthStep
<1> QED
  BY <1>1, <1>2, <1>3, HealthInit, InitOwnerAlone, StepOwnerAlone, InitRunsInTurn, PTL
  DEF Spec, KeepsHealthContract, HealthContract!Spec

-----------------------------------------------------------------------------
(* What that contract brings the runtime *)

\* The proofs about SyncHealth, read for the runtime: the same module as
\* HealthContract, with its lemmas.
HealthProofs ==
  INSTANCE SyncHealthProofs
    WITH pump <- PumpPhase, weather <- "mixed", synced <- SyncedSoFar

LEMMA HealthAssumed == HealthProofs!HealthAssumption
  BY RuntimeAssumption DEF HealthProofs!HealthAssumption

LEMMA SameHealthInit == HealthContract!Init <=> HealthProofs!Init
  BY DEF HealthContract!Init, HealthProofs!Init

LEMMA SameHealthStep ==
  [HealthContract!Next]_(HealthContract!vars) <=> [HealthProofs!Next]_(HealthProofs!vars)
<1> USE
  DEF HealthContract!beatVars, HealthProofs!beatVars,
      HealthContract!syncVars, HealthProofs!syncVars,
      HealthContract!timerVars, HealthProofs!timerVars,
      HealthContract!healthVars, HealthProofs!healthVars,
      HealthContract!vars, HealthProofs!vars,
      HealthContract!SetState, HealthProofs!SetState,
      HealthContract!ResetBeat, HealthProofs!ResetBeat,
      HealthContract!ResetSync, HealthProofs!ResetSync,
      HealthContract!AbandonStart, HealthProofs!AbandonStart,
      HealthContract!Bump, HealthProofs!Bump,
      HealthContract!Outcomes, HealthProofs!Outcomes
<1>1. /\ HealthContract!RunRefused <=> HealthProofs!RunRefused
      /\ HealthContract!RunBegins <=> HealthProofs!RunBegins
      /\ HealthContract!RunTaken <=> HealthProofs!RunTaken
      /\ HealthContract!RunUp <=> HealthProofs!RunUp
      /\ HealthContract!RunFails <=> HealthProofs!RunFails
      /\ HealthContract!RunLeft <=> HealthProofs!RunLeft
      /\ HealthContract!RunDrains <=> HealthProofs!RunDrains
      /\ HealthContract!RunEnds <=> HealthProofs!RunEnds
  BY Zenon
  DEF HealthContract!RunRefused, HealthProofs!RunRefused,
      HealthContract!RunBegins, HealthProofs!RunBegins,
      HealthContract!RunTaken, HealthProofs!RunTaken,
      HealthContract!RunUp, HealthProofs!RunUp,
      HealthContract!RunFails, HealthProofs!RunFails,
      HealthContract!RunLeft, HealthProofs!RunLeft,
      HealthContract!RunDrains, HealthProofs!RunDrains,
      HealthContract!RunEnds, HealthProofs!RunEnds
<1>2. HealthContract!Advance <=> HealthProofs!Advance
  BY Zenon
  DEF HealthContract!Advance, HealthProofs!Advance,
      HealthContract!IssueEth, HealthProofs!IssueEth,
      HealthContract!IssueOp, HealthProofs!IssueOp,
      HealthContract!CycleOver, HealthProofs!CycleOver,
      HealthContract!FinishGood, HealthProofs!FinishGood,
      HealthContract!FinishBad, HealthProofs!FinishBad
<1>3. /\ HealthContract!Beat <=> HealthProofs!Beat
      /\ HealthContract!Timers <=> HealthProofs!Timers
  BY Zenon
  DEF HealthContract!Beat, HealthProofs!Beat,
      HealthContract!BeatWanted, HealthProofs!BeatWanted,
      HealthContract!IssueBeat, HealthProofs!IssueBeat,
      HealthContract!SkipBeat, HealthProofs!SkipBeat,
      HealthContract!Timers, HealthProofs!Timers,
      HealthContract!SyncTimer, HealthProofs!SyncTimer,
      HealthContract!BeatTimer, HealthProofs!BeatTimer
<1>4. HealthContract!SyncAnswer <=> HealthProofs!SyncAnswer
  BY Zenon
  DEF HealthContract!SyncAnswer, HealthProofs!SyncAnswer,
      HealthContract!NoteSync, HealthProofs!NoteSync
<1>5. HealthContract!BeatAnswer <=> HealthProofs!BeatAnswer
  BY Zenon
  DEF HealthContract!BeatAnswer, HealthProofs!BeatAnswer,
      HealthContract!NoteHeartbeat, HealthProofs!NoteHeartbeat
<1>6. HealthContract!WeatherSettles <=> HealthProofs!WeatherSettles
  BY Zenon DEF HealthContract!WeatherSettles, HealthProofs!WeatherSettles
<1> QED
  BY <1>1, <1>2, <1>3, <1>4, <1>5, <1>6, Zenon
  DEF HealthContract!Next, HealthProofs!Next

HealthInv == OwnerAlone /\ RunsInTurn /\ HealthProofs!IInv

LEMMA InitHealthInv == Init => HealthInv
  BY InitOwnerAlone, InitRunsInTurn, HealthInit, SameHealthInit, HealthAssumed,
     HealthProofs!InitIInv
  DEF HealthInv

LEMMA StepHealthInv ==
  ASSUME "runs" \in Contract, HealthInv, [Next]_vars
  PROVE  HealthInv'
<1>1. OwnerAlone /\ ClientTypes /\ RunsInTurn
  BY DEF HealthInv, OwnerAlone
<1>2. OwnerAlone' /\ RunsInTurn'
  BY <1>1, StepOwnerAlone, StepRunsInTurn
<1>3. HealthProofs!IInv'
  BY <1>1, HealthStep, SameHealthStep, HealthAssumed, HealthProofs!StepIInv DEF HealthInv
<1> QED
  BY <1>2, <1>3 DEF HealthInv

\* While it serves, the runtime says Degraded exactly when one of its two health
\* signals has failed kDegradeAfter times in a row.
StatusTellsHealth ==
  Serving =>
    (state = "Degraded" <=> syncStreak >= DegradeAfter \/ beatStreak >= DegradeAfter)

\* Under the same contract the state the runtime reports is right in every run,
\* whatever stop(), restarts and answers come between. (finishSyncCycle() and
\* noteHeartbeat(), each looking at the other's streak.)
THEOREM DegradedIsReported ==
  ASSUME "runs" \in Contract PROVE Spec => []StatusTellsHealth
<1>1. HealthInv => StatusTellsHealth
  BY Zenon
  DEF HealthInv, HealthProofs!IInv, HealthProofs!HealthReported, HealthProofs!Serving,
      HealthProofs!Failing, StatusTellsHealth, Serving
<1>2. HealthInv /\ [Next]_vars => HealthInv'
  BY StepHealthInv
<1> QED
  BY <1>1, <1>2, InitHealthInv, PTL DEF Spec

-----------------------------------------------------------------------------
(* What a client of start() and stop() can build on: every step is one of  *)
(* RunLife.  The state follows the proxy thread, as SyncHealth's phases say *)

RunFollows ==
  /\ proxy \in Pumping \cup {"leaving"} =>
       /\ RunNow = CASE state = "Running" -> "running"
                     [] state = "Degraded" -> "degraded"
                     [] OTHER -> "syncing"
       /\ state \in {"Starting", "Running", "Degraded"}
  /\ proxy \in {"draining", "freeing"} => RunNow = "draining"
  /\ proxy \in {"freed", "emptied", "null", "over"} => RunNow = "ending"
  /\ proxy = "prologue" => RunNow = "prologue"
  /\ proxy \in Resting =>
       RunNow = IF runRequested /\ proxy # "exited" THEN "prologue" ELSE "none"

LEMMA RunNowFollows == RunShape /\ HealthInv => RunFollows
<1> SUFFICES ASSUME RunShape, HealthInv PROVE RunFollows
  OBVIOUS
<1>1. HealthProofs!Phases
  BY DEF HealthInv, HealthProofs!IInv
<1>2. Serving => proxy \in Pumping \cup {"leaving"}
  BY DEF RunShape
<1>3. proxy \in Pumping \cup {"leaving"} =>
        runActive /\ state \in {"Starting", "Running", "Degraded"}
  BY <1>1, PhaseIs DEF RunShape, Up, HealthProofs!Phases
<1>4. proxy \in {"draining", "freeing"} => runActive /\ state = "Draining"
  BY <1>1, PhaseIs DEF RunShape, Up, Ending, HealthProofs!Phases
<1>5. proxy \in Resting \cup {"freed", "emptied", "null", "over", "prologue"} =>
        ~runActive
  BY DEF RunShape, Up, Resting, Pumping
<1> QED
  BY <1>2, <1>3, <1>4, <1>5 DEF RunFollows, RunNow, Serving, Pumping, Resting

\* A run that is over has tripped its latch, and one that leaves was told to;
\* while start() is under way nobody is about to tell a run to stop, and once it
\* has reset the gate nobody has.
Cleared ==
  /\ proxy = "leaving" => Closing
  /\ proxy \in Resting /\ ~runRequested => runFinished
  /\ shutdown => \E t \in Clients : ctl[t] \in DestroyPlaces
  /\ \A t \in Clients : ctl[t] \in StartPlaces =>
       /\ \A u \in Clients : ctl[u] # "stopping"
       /\ ctl[t] # "resetting" => ~stopRequested

LEMMA InitCleared == Init => Cleared
  BY DEF Init, Cleared, StartPlaces

LEMMA StepCleared ==
  ASSUME "runs" \in Contract, RunShape, OwnerAlone, RunsInTurn, Cleared, [Next]_vars
  PROVE  Cleared'
<1> USE DEF Cleared
<1>0. ClientTypes /\ \A t \in Clients, pc \in Places : Go(t, pc) =>
        ctl'[t] = pc /\ \A u \in Clients \ {t} : ctl'[u] = ctl[u]
  BY Moves DEF OwnerAlone
<1>1. CASE UNCHANGED turnVars
  BY <1>1 DEF turnVars, Closing
<1>2. CASE Proxy
  <2>1. UNCHANGED <<ctl, stopRequested, shutdown>>
    <3>1. UNCHANGED <<stopRequested, shutdown>>
      BY <1>2, Zenon
      DEF Proxy, ProxyTakesRun, ProxyExits, ProxyComesUp, ProxyFailsToComeUp, ProxyFailed,
          ProxyFinishes, ProxyDispatches, ProxyDrained, ProxyAdvances, ProxyReleasesStart,
          ProxyBeats, ProxyPumped, ProxyLeaves, ProxyBeginsDrain, ProxyFailsPending,
          ProxyFrees, ProxyResetsGate, ProxyStops, flagVars
    <3> QED
      BY <1>2, <3>1, ProxyKeepsClients
  <2>2. proxy' \in Resting /\ ~runRequested' => runFinished'
    <3>1. CASE ProxyFinishes
      BY <3>1 DEF ProxyFinishes
    <3>2. CASE ProxyExits
      BY <3>2, Zenon DEF ProxyExits, At, Resting, runVars, startVars
    <3>3. ASSUME ~ProxyFinishes, ~ProxyExits
          PROVE  proxy' \notin Resting
      BY <1>2, <3>3
      DEF Proxy, ProxyTakesRun, ProxyComesUp, ProxyFailsToComeUp, ProxyFailed,
          ProxyDispatches, ProxyDrained, ProxyAdvances, ProxyReleasesStart,
          ProxyBeats, ProxyPumped, ProxyLeaves, ProxyBeginsDrain, ProxyFailsPending,
          ProxyFrees, ProxyResetsGate, ProxyStops, At, Onto, Resting
    <3> QED
      BY <3>1, <3>2, <3>3
  <2>3. proxy' = "leaving" => Closing'
    <3>1. CASE ProxyLeaves
      BY <2>1, <3>1 DEF ProxyLeaves, Closing
    <3>2. CASE ~ProxyLeaves
      BY <1>2, <3>2
      DEF Proxy, ProxyTakesRun, ProxyExits, ProxyComesUp, ProxyFailsToComeUp, ProxyFailed,
          ProxyFinishes, ProxyDispatches, ProxyDrained, ProxyAdvances, ProxyReleasesStart,
          ProxyBeats, ProxyPumped, ProxyBeginsDrain, ProxyFailsPending, ProxyFrees,
          ProxyResetsGate, ProxyStops, At, Onto
    <3> QED
      BY <3>1, <3>2
  <2> QED
    BY <2>1, <2>2, <2>3
<1>3. ASSUME NEW t \in Clients, Start(t)
      PROVE  Cleared'
  <2>1. /\ UNCHANGED shutdown /\ (UNCHANGED stopRequested \/ ~stopRequested')
        /\ ~StartPosts(t) => UNCHANGED <<runRequested, runFinished>>
        /\ StartPosts(t) => runRequested'
        /\ proxy' = proxy \/ proxy' = IF proxy = "none" THEN "parked" ELSE proxy
        /\ ctl[t] \notin DestroyPlaces \cup {"free"} \/ InUse
    BY <1>3
    DEF Start, StartChecks, StartResets, StartSizes, StartSpawns, StartPosts,
        StartReturns, Gate!StartResets, DestroyPlaces, runVars, startVars, flagVars, StartPlaces
  <2>2. proxy' \in Resting /\ ~runRequested' => runFinished'
    BY <2>1 DEF Resting
  <2>3. ~shutdown'
    BY <1>3, <2>1
    DEF OwnerAlone, InUse, DestroyPlaces, StartPlaces
  <2>4. PICK pc \in StartPlaces \cup Returned \cup {"startWait"} :
          /\ Go(t, pc)
          /\ pc \in StartPlaces =>
               \/ StartChecks(t) /\ pc = "resetting" /\ \A u \in Clients : ctl[u] = "free"
               \/ /\ ctl[t] \in StartPlaces /\ pc # "resetting"
                  /\ ~stopRequested' \/ ctl[t] # "resetting"
    <3>1. CASE StartChecks(t)
      <4>1. /\ \A u \in Clients : ctl[u] = "free"
            /\ Go(t, "alreadyStarted") \/ Go(t, "resetting")
        BY <3>1, Zenon DEF StartChecks, MayStart
      <4>2. "alreadyStarted" \in Returned \ StartPlaces /\ "resetting" \in StartPlaces
        BY DEF StartPlaces, Returned
      <4> QED
        BY <3>1, <4>1, <4>2, Zenon
    <3>2. CASE StartResets(t)
      BY <3>2 DEF StartResets, Gate!StartResets, StartPlaces
    <3>3. CASE StartSizes(t) \/ StartSpawns(t)
      BY <3>3 DEF StartSizes, StartSpawns, StartPlaces, Returned
    <3>4. CASE StartPosts(t) \/ StartReturns(t)
      BY <3>4 DEF StartPosts, StartReturns, StartPlaces, Returned
    <3> QED
      BY <1>3, <3>1, <3>2, <3>3, <3>4 DEF Start
  <2>5. ctl'[t] = pc /\ \A u \in Clients \ {t} : ctl'[u] = ctl[u]
    BY <1>0, <2>4 DEF Places
  <2>6. proxy' = "leaving" => Closing'
    <3>1. StartResets(t) => proxy \in Resting
      BY DEF StartResets, RunsInTurn, StartPlaces
    <3>2. ~StartResets(t) => UNCHANGED stopRequested
      BY <1>3, Zenon
      DEF Start, StartChecks, StartSizes, StartSpawns, StartPosts, StartReturns, flagVars
    <3> QED
      BY <2>1, <3>1, <3>2 DEF Closing, Resting
  <2> QED
    BY <2>1, <2>2, <2>3, <2>4, <2>5, <2>6 DEF StartPlaces, Returned
<1>4. ASSUME NEW t \in Clients, Stop(t)
      PROVE  Cleared'
  <2>1. /\ UNCHANGED <<proxy, runRequested, runFinished, shutdown>>
        /\ UNCHANGED stopRequested \/ ctl[t] \in {"stopping", "destroyStopping"}
    BY <1>4, Zenon
    DEF Stop, StopChecks, StopRequests, StopReturns, ClientGoesOn, runVars, startVars,
        flagVars
  <2>2. PICK pc \in Places \ StartPlaces :
          /\ Go(t, pc)
          /\ pc = "stopping" => proxy # "none" /\ ~(runFinished /\ ~runActive)
          /\ ctl[t] \in DestroyPlaces => pc \in DestroyPlaces
    BY <1>4
    DEF Stop, StopChecks, StopRequests, StopReturns, ClientGoesOn, Places, StopPlaces,
        StartPlaces, DestroyPlaces, Returned
  <2>3. ctl'[t] = pc /\ \A u \in Clients \ {t} : ctl'[u] = ctl[u]
    BY <1>0, <2>2
  <2>4. ASSUME NEW u \in Clients, ctl[u] \in StartPlaces
        PROVE  /\ ctl[t] \notin {"stopping", "destroyStopping"}
               /\ pc # "stopping"
    <3>1. ctl[t] \notin DestroyPlaces
      BY <2>4 DEF OwnerAlone, DestroyPlaces, StartPlaces
    <3>2. proxy \in Resting /\ ~runRequested
      BY <2>4 DEF RunsInTurn
    <3>3. runFinished /\ ~runActive
      BY <3>2 DEF RunShape, Resting, Up, Pumping
    <3> QED
      BY <2>2, <2>4, <3>1, <3>3 DEF DestroyPlaces
  <2>5. Closing => Closing'
    BY <1>4, Zenon
    DEF Stop, StopChecks, StopRequests, StopReturns, ClientGoesOn, flagVars, Closing
  <2> QED
    BY <2>1, <2>2, <2>3, <2>4, <2>5
<1>5. ASSUME NEW t \in Clients, Destroy(t)
      PROVE  Cleared'
  <2>1. UNCHANGED <<proxy, runRequested, runFinished, stopRequested>>
    BY <1>5, Zenon
    DEF Destroy, DestroyChecks, DestroyShutsDown, DestroyJoins, runVars, startVars,
        flagVars
  <2>2. PICK pc \in DestroyPlaces : Go(t, pc)
    BY <1>5, Zenon DEF Destroy, DestroyChecks, DestroyShutsDown, DestroyJoins, DestroyPlaces
  <2>3. ctl'[t] = pc /\ \A u \in Clients \ {t} : ctl'[u] = ctl[u]
    BY <1>0, <2>2 DEF Places
  <2>4. Closing => Closing'
    BY <1>5, Zenon DEF Destroy, DestroyChecks, DestroyShutsDown, DestroyJoins, flagVars, Closing
  <2> QED
    BY <2>1, <2>2, <2>3, <2>4 DEF DestroyPlaces, StartPlaces
<1>6. CASE UNCHANGED vars
  BY <1>1, <1>6, Zenon DEF vars, turnVars, runVars, startVars, flagVars
<1> QED
  BY <1>1, <1>2, <1>3, <1>4, <1>5, <1>6, OthersKeepTurn, Zenon DEF Next

LifeInv == RunShape /\ HealthInv /\ Cleared


LEMMA LifeFollows == LifeInv => RunFollows
  BY RunNowFollows DEF LifeInv

LEMMA LifeRests ==
  ASSUME UNCHANGED RunNow, Closing' = Closing \/ RunNow = "none"
  PROVE  UNCHANGED Life!vars
  BY DEF Life!vars

LEMMA LifeGoes ==
  ASSUME Closing' = Closing, NEW from, RunNow \in from, "none" \notin from,
         NEW to, RunNow' = to
  PROVE  Life!Goes(from, to)
  BY DEF Life!Goes, Closing

LEMMA LifeOfStart ==
  ASSUME "runs" \in Contract, LifeInv, RunFollows, RunFollows', NEW t \in Clients, Start(t)
  PROVE  [Life!Next]_(Life!vars)
<1>1. ClientTypes /\ RunsInTurn /\ Cleared /\ OwnerAlone
  BY DEF LifeInv, HealthInv, OwnerAlone
<1>2. CASE StartChecks(t) \/ StartReturns(t)
  <2>1. UNCHANGED <<proxy, runRequested, runActive, state, stopRequested, shutdown>>
    BY <1>2, Zenon
    DEF StartChecks, StartReturns, runVars, startVars, flagVars, healthVars
  <2>2. UNCHANGED RunNow
    BY <2>1, Zenon DEF RunNow, Serving
  <2> QED
    BY <2>1, <2>2, LifeRests DEF Closing
<1>3. CASE StartResets(t) \/ StartSizes(t) \/ StartSpawns(t)
  <2>1. ctl[t] \in StartPlaces
    BY <1>3 DEF StartResets, StartSizes, StartSpawns, StartPlaces
  <2>2. proxy \in Resting /\ ~runRequested
    BY <1>1, <2>1 DEF RunsInTurn
  <2>3. UNCHANGED runRequested /\ proxy' = IF proxy = "none" THEN proxy' ELSE proxy
    BY <1>3
    DEF StartResets, StartSizes, StartSpawns, runVars, startVars
  <2>4. proxy' \in {proxy, "parked"}
    BY <1>3 DEF StartResets, StartSizes, StartSpawns
  <2>5. RunNow = "none" /\ RunNow' = "none"
    BY <2>2, <2>3, <2>4 DEF RunFollows, Resting
  <2> QED
    BY <2>5, LifeRests
<1>4. CASE StartPosts(t)
  <2>1. ctl[t] = "posting" /\ runRequested' /\ UNCHANGED <<proxy, stopRequested, shutdown>>
    BY <1>4, Zenon DEF StartPosts, flagVars
  <2>2. proxy \in Resting /\ ~runRequested
    BY <1>1, <2>1 DEF RunsInTurn, StartPlaces
  <2>3. RunNow = "none" /\ RunNow' \in {"prologue", "none"}
    BY <2>1, <2>2 DEF RunFollows
  <2>4. ~Closing /\ ~Closing'
    <3>1. ~stopRequested
      BY <1>1, <2>1 DEF Cleared, StartPlaces
    <3>2. ~shutdown
      BY <1>1, <2>1 DEF Cleared, OwnerAlone, DestroyPlaces
    <3> QED
      BY <2>1, <3>1, <3>2 DEF Closing
  <2> QED
    BY <2>3, <2>4 DEF Life!Next, Life!Posted, Life!vars
<1> QED
  BY <1>2, <1>3, <1>4, Zenon DEF Start

LEMMA LifeOfOthers ==
  ASSUME LifeInv, RunFollows, RunFollows',
         \/ \E c \in Calls : Caller(c) \/ Impatience(c)
         \/ Timers
         \/ \E t \in Clients : Stop(t) \/ Destroy(t)
  PROVE  [Life!Next]_(Life!vars)
<1>1. UNCHANGED <<proxy, runRequested, runActive, state>>
  <2>1. UNCHANGED shapeVars
    BY OutsidersKeepShape, Zenon
  <2>2. UNCHANGED runRequested
    <3>1. ASSUME NEW t \in Clients, Stop(t) \/ Destroy(t)
          PROVE  UNCHANGED runRequested
      BY <3>1, Zenon
      DEF Stop, StopChecks, StopRequests, StopReturns, ClientGoesOn, Destroy,
          DestroyChecks, DestroyShutsDown, DestroyJoins, runVars, startVars
    <3> QED
      BY <3>1, OthersKeepClients, Zenon
  <2> QED
    BY <2>1, <2>2 DEF shapeVars
<1>2. UNCHANGED RunNow
  BY <1>1, Zenon DEF RunNow, Serving
<1>3. UNCHANGED <<stopRequested, shutdown>> \/ Closing'
  <2>1. ASSUME NEW t \in Clients, Stop(t) \/ Destroy(t)
        PROVE  UNCHANGED <<stopRequested, shutdown>> \/ Closing'
    BY <2>1, Zenon
    DEF Stop, StopChecks, StopRequests, StopReturns, ClientGoesOn, Destroy,
        DestroyChecks, DestroyShutsDown, DestroyJoins, flagVars, Closing
  <2> QED
    BY <2>1, OthersKeepTurn, Zenon DEF turnVars
<1>4. CASE UNCHANGED <<stopRequested, shutdown>> \/ RunNow = "none"
  BY <1>2, <1>4, LifeRests DEF Closing
<1>5. CASE Closing' /\ RunNow # "none"
  BY <1>2, <1>5 DEF Life!Next, Life!Told
<1> QED
  BY <1>3, <1>4, <1>5

LEMMA LifeOfAnswers ==
  ASSUME LifeInv, RunFollows, RunFollows', Answers
  PROVE  [Life!Next]_(Life!vars)
<1>1. UNCHANGED <<proxy, runRequested>> /\ Closing' = Closing
  BY OthersKeepTurn, OthersKeepClients DEF turnVars, Closing
<1>2. UNCHANGED runActive
  BY Zenon DEF Answers, AnswersCall, AnswersBeat, AnswersSync, Answered, runVars
<1>3. UNCHANGED state \/ {state, state'} = {"Running", "Degraded"}
  <2>1. ASSUME NEW c \in Calls, AnswersCall(c)
        PROVE  UNCHANGED state
    BY <2>1, Zenon DEF AnswersCall, healthVars
  <2>2. CASE AnswersSync
    BY <2>2, Zenon DEF AnswersSync, Health!NoteSync
  <2>3. CASE AnswersBeat
    BY <2>3 DEF AnswersBeat, Health!NoteHeartbeat
  <2> QED
    BY <2>1, <2>2, <2>3, Zenon DEF Answers
<1>4. CASE UNCHANGED state
  <2>1. UNCHANGED RunNow
    BY <1>1, <1>2, <1>4, Zenon DEF RunNow, Serving
  <2> QED
    BY <1>1, <2>1, LifeRests
<1>5. CASE {state, state'} = {"Running", "Degraded"}
  <2>1. \/ state = "Running" /\ state' = "Degraded"
        \/ state = "Degraded" /\ state' = "Running"
    BY <1>5
  <2>2. \/ RunNow = "running" /\ RunNow' = "degraded"
        \/ RunNow = "degraded" /\ RunNow' = "running"
    BY <2>1, Zenon DEF RunNow, Serving
  <2>3. Life!Goes({"running"}, "degraded") \/ Life!Goes({"degraded"}, "running")
    BY <1>1, <2>2, LifeGoes
  <2> QED
    BY <2>3, Zenon DEF Life!Next, Life!Proceeds
<1> QED
  BY <1>3, <1>4, <1>5

LEMMA LifeOfProxy ==
  ASSUME LifeInv, RunFollows, RunFollows', Proxy
  PROVE  [Life!Next]_(Life!vars)
<1>1. Closing' = Closing
  <2>1. UNCHANGED <<stopRequested, shutdown>>
    <3>1. CASE \/ ProxyTakesRun \/ ProxyExits \/ ProxyComesUp \/ ProxyFailsToComeUp
               \/ ProxyFailed \/ ProxyFinishes \/ ProxyDispatches \/ ProxyDrained
      BY <3>1, Zenon
      DEF ProxyTakesRun, ProxyExits, ProxyComesUp, ProxyFailsToComeUp, ProxyFailed,
          ProxyFinishes, ProxyDispatches, ProxyDrained, flagVars
    <3>2. CASE \/ ProxyAdvances \/ ProxyReleasesStart \/ ProxyBeats \/ ProxyPumped
               \/ ProxyLeaves \/ ProxyBeginsDrain \/ ProxyFailsPending \/ ProxyFrees
               \/ ProxyResetsGate \/ ProxyStops
      BY <3>2, Zenon
      DEF ProxyAdvances, ProxyReleasesStart, ProxyBeats, ProxyPumped, ProxyLeaves,
          ProxyBeginsDrain, ProxyFailsPending, ProxyFrees, ProxyResetsGate, ProxyStops,
          flagVars
    <3> QED
      BY <3>1, <3>2, Zenon DEF Proxy
  <2> QED
    BY <2>1, Zenon DEF Closing
<1>2. CASE ProxyTakesRun \/ ProxyExits
  <2>1. /\ proxy = "parked"
        /\ \/ runRequested /\ proxy' = "prologue"
           \/ UNCHANGED runRequested /\ proxy' = "exited" /\ Closing
    BY <1>2, Zenon
    DEF ProxyTakesRun, ProxyExits, At, Onto, runVars, startVars, Closing
  <2>2. \/ RunNow = "prologue" /\ RunNow' = "prologue"
        \/ RunNow = "none" /\ RunNow' = "none"
        \/ RunNow = "prologue" /\ RunNow' = "none" /\ Closing
    BY <2>1 DEF RunFollows, Resting
  <2>3. Closing /\ RunNow = "prologue" /\ RunNow' = "none" => Life!Next
    <3>1. Closing /\ RunNow = "prologue" /\ RunNow' = "none" =>
            Life!Goes({"prologue"}, "none")
      BY <1>1, LifeGoes
    <3> QED
      BY <3>1 DEF Life!Next, Life!Dropped
  <2> QED
    BY <1>1, <2>2, <2>3, LifeRests
<1>3. CASE ProxyComesUp \/ ProxyFailsToComeUp
  <2>1. /\ proxy = "prologue" /\ UNCHANGED state
        /\ proxy' = "drain" \/ proxy' = "null"
    BY <1>3, Zenon
    DEF ProxyComesUp, ProxyFailsToComeUp, Health!ResetSync, At, Onto, healthVars
  <2>2. ~Serving
    BY <2>1 DEF LifeInv, RunShape, Pumping
  <2>3. RunNow = "prologue" /\ RunNow' \in {"syncing", "ending"}
    BY <2>1, <2>2 DEF RunFollows, Serving, Pumping
  <2>4. Life!Goes({"prologue"}, "syncing") \/ Life!Goes({"prologue"}, "ending")
    BY <1>1, <2>3, LifeGoes
  <2> QED
    BY <2>4, Zenon DEF Life!Next, Life!Proceeds
<1>4. CASE ProxyFailed \/ ProxyResetsGate \/ ProxyStops
  <2>1. proxy \in {"null", "freed", "emptied"} /\ proxy' \in {"over", "emptied"}
    BY <1>4 DEF ProxyFailed, ProxyResetsGate, ProxyStops, At, Onto
  <2> QED
    BY <1>1, <2>1, LifeRests DEF RunFollows
<1>5. CASE ProxyFinishes
  <2>1. proxy = "over" /\ proxy' = "parked" /\ UNCHANGED runRequested
    BY <1>5, Zenon DEF ProxyFinishes, At, Onto
  <2>2. ~runRequested
    BY <2>1, TakenUp DEF LifeInv, HealthInv, Resting
  <2>3. RunNow = "ending" /\ RunNow' = "none"
    BY <2>1, <2>2 DEF RunFollows, Resting
  <2>4. Life!Goes({"ending"}, "none")
    BY <1>1, <2>3, LifeGoes
  <2> QED
    BY <2>4, Zenon DEF Life!Next, Life!Proceeds
<1>6. CASE \/ ProxyDispatches \/ ProxyDrained \/ ProxyReleasesStart \/ ProxyBeats
           \/ ProxyPumped \/ ProxyLeaves
  <2>1. UNCHANGED state
    <3>1. CASE ProxyBeats
      BY <3>1, Zenon DEF ProxyBeats, Health!IssueBeat, Health!SkipBeat, healthVars
    <3>2. CASE ~ProxyBeats
      BY <1>6, <3>2, Zenon
      DEF ProxyDispatches, ProxyDrained, ProxyReleasesStart, ProxyPumped, ProxyLeaves,
          Health!AbandonStart, healthVars
    <3> QED
      BY <3>1, <3>2
  <2>2. proxy \in Pumping \cup {"leaving"} /\ proxy' \in Pumping \cup {"leaving"}
    BY <1>6
    DEF ProxyDispatches, ProxyDrained, ProxyReleasesStart, ProxyBeats, ProxyPumped,
        ProxyLeaves, At, Onto, Pumping
  <2>3. UNCHANGED RunNow
    BY <2>1, <2>2 DEF RunFollows
  <2> QED
    BY <1>1, <2>3, LifeRests
<1>7. CASE ProxyAdvances
  <2>1. /\ proxy \in Pumping /\ proxy' \in Pumping /\ ~Closing
        /\ \/ UNCHANGED state
           \/ state' = "Running"
           \/ state = "Running" /\ state' = "Degraded"
    BY <1>7
    DEF ProxyAdvances, Health!IssueEth, Health!IssueOp, Health!FinishGood,
        Health!FinishBad, Health!SyncWaits, Health!healthVars, At, Onto, Pumping
  <2>2. \/ UNCHANGED RunNow
        \/ RunNow \in {"syncing", "degraded"} /\ RunNow' = "running"
        \/ RunNow = "running" /\ RunNow' = "degraded"
    BY <2>1 DEF RunFollows
  <2>3. \/ UNCHANGED RunNow
        \/ Life!Goes({"syncing"}, "running") \/ Life!Goes({"degraded"}, "running")
        \/ Life!Goes({"running"}, "degraded")
    BY <1>1, <2>2, LifeGoes
  <2> QED
    BY <1>1, <2>1, <2>3, LifeRests, Zenon DEF Life!Next, Life!Proceeds
<1>8. CASE ProxyBeginsDrain
  <2>1. proxy = "leaving" /\ proxy' = "draining" /\ Closing
    BY <1>8 DEF ProxyBeginsDrain, At, Onto, LifeInv, Cleared
  <2>2. RunNow \in {"syncing", "running", "degraded"} /\ RunNow' = "draining"
    BY <2>1 DEF RunFollows
  <2>3. Life!Goes({"syncing", "running", "degraded"}, "draining")
    BY <1>1, <2>2, LifeGoes
  <2> QED
    BY <2>1, <2>2, <2>3 DEF Life!Next, Life!Proceeds
<1>9. CASE ProxyFailsPending
  <2>1. proxy = "draining" /\ proxy' = "freeing"
    BY <1>9, Zenon DEF ProxyFailsPending, At, Onto
  <2> QED
    BY <1>1, <2>1, LifeRests DEF RunFollows
<1>10. CASE ProxyFrees
  <2>1. proxy = "freeing" /\ proxy' = "freed"
    BY <1>10, Zenon DEF ProxyFrees, At, Onto
  <2>2. Life!Goes({"draining"}, "ending")
    BY <1>1, <2>1, LifeGoes DEF RunFollows
  <2> QED
    BY <2>2, Zenon DEF Life!Next, Life!Proceeds
<1> QED
  BY <1>2, <1>3, <1>4, <1>5, <1>6, <1>7, <1>8, <1>9, <1>10, Zenon DEF Proxy

LEMMA LifeStep ==
  ASSUME "runs" \in Contract, LifeInv, RunFollows, RunFollows', [Next]_vars
  PROVE  [Life!Next]_(Life!vars)
<1>1. CASE UNCHANGED vars
  <2>1. UNCHANGED <<proxy, runRequested, runActive, state, stopRequested, shutdown>>
    BY <1>1, Zenon DEF vars, runVars, startVars, flagVars, healthVars
  <2>2. UNCHANGED RunNow
    BY <2>1, Zenon DEF RunNow, Serving
  <2> QED
    BY <2>1, <2>2, LifeRests DEF Closing
<1> QED
  BY <1>1, LifeOfStart, LifeOfOthers, LifeOfAnswers, LifeOfProxy, Zenon DEF Next

\* If clients start only a runtime at rest, or one that refuses them, they can
\* build on RunLife: its stages in its order, one run after the other, whatever
\* calls, beats, syncs and timeouts do.  (start(), stop(), runOnce().)
THEOREM RunLifeKept ==
  ASSUME "runs" \in Contract PROVE Spec => KeepsRunLife
<1>1. Init => LifeInv /\ Life!Init
  <2>1. Init => LifeInv
    BY InitRunShape, InitHealthInv, InitCleared DEF LifeInv
  <2>2. Init => Life!Init
    BY DEF Init, Life!Init, RunNow, Serving, Closing
  <2> QED
    BY <2>1, <2>2
<1>2. LifeInv /\ [Next]_vars => LifeInv'
  BY StepRunShape, StepHealthInv, StepCleared DEF LifeInv, HealthInv
<1>3. LifeInv /\ RunFollows /\ RunFollows' /\ [Next]_vars => [Life!Next]_(Life!vars)
  BY LifeStep
<1> QED
  BY <1>1, <1>2, <1>3, LifeFollows, PTL DEF Spec, KeepsRunLife, Life!Spec
=============================================================================
