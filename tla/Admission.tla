------------------------------ MODULE Admission ------------------------------
(***************************************************************************)
(* The admission gate of ProxyRuntime: waitForAdmission(), tryAdmit(),     *)
(* releaseAdmission(), removeAdmissionTicketLocked() and what start() and  *)
(* teardown() do to the gate.  One action is one critical section of       *)
(* m_admissionMu; a caller that waits re-enters it on every wake-up, and   *)
(* wake-ups come at least every 50 ms, so none of them can be lost.        *)
(*                                                                         *)
(* A ticket is written as the caller that drew it: a caller holds at most  *)
(* one, and draws the next only after it has left with the last.  The      *)
(* statistics counters (callsQueued, queueTimeouts, resourceRejections)    *)
(* are never read back and are left out.                                   *)
(*                                                                         *)
(* The first part is the code.  The last part closes it into a             *)
(* specification of its own under the contract the gate relies on: a call  *)
(* passes the gate in the run whose state it has checked, and when a run   *)
(* is torn down its reservations end with it.                              *)
(***************************************************************************)
EXTENDS Naturals, Sequences, SequencesExt, FiniteSets, ResourceBudget

CONSTANTS
  Callers,      \* worker threads inside call()
  MaxInFlight,  \* cfg.maxInFlight
  SoftLimit,    \* the process descriptor limit, or Unknown
  PerCall,      \* m_descriptorsPerCall
  OpenCounts,   \* what a descriptor query may answer
  MaxEpoch      \* bound: how many runs are started

\* The heartbeat, as a holder of a reservation among the callers.
Beats == "beat"

ASSUME GateAssumption ==
  /\ Beats \notin Callers
  /\ IsFiniteSet(Callers)
  /\ MaxInFlight \in Nat \ {0}
  /\ SoftLimit \in Nat \cup {Unknown}
  /\ PerCall \in Nat \ {0}
  /\ OpenCounts \subseteq Nat \cup {Unknown}
  /\ MaxEpoch \in Nat

VARIABLES
  (* the code's *)
  admitted,       \* m_admitted: reservations in force
  effective,      \* m_effectiveMaxInFlight: the ceiling of this run
  queue,          \* m_admissionQueue: tickets in arrival order
  queuedNow,      \* m_queuedNow: the length of it that status() reports
  epoch,          \* m_admissionEpoch: bumped by every start()
  stopRequested,  \* m_stopRequested
  shutdown,       \* m_shutdown
  gate,           \* where each caller is with respect to the gate
  ticketEpoch,    \* the epoch each waiting caller captured
  (* the rest of the runtime, as far as the contract names it *)
  run,            \* "off", "starting" or "on"
  beating         \* a heartbeat holds a reservation

gateVars == <<admitted, effective, queue, queuedNow, epoch, gate, ticketEpoch>>

Closing == stopRequested \/ shutdown

BlockedAt(open) == Blocked(admitted, effective, SoftLimit, open, PerCall)

Waiting(c) == gate[c] = "waiting"

\* The loop condition that sends a waiting caller away.
Outdated(c) == Closing \/ ticketEpoch[c] # epoch

\* removeAdmissionTicketLocked(): a ticket the queue no longer holds, because
\* start() cleared it, is no error.
RemoveTicket(c) ==
  \/ \E i \in DOMAIN queue :
       /\ queue[i] = c
       /\ queue' = RemoveAt(queue, i)
       /\ queuedNow' = queuedNow - 1
  \/ /\ \A i \in DOMAIN queue : queue[i] # c
     /\ UNCHANGED <<queue, queuedNow>>

-----------------------------------------------------------------------------
(* waitForAdmission(), the part before its loop *)

EnterRefused(c) ==
  /\ gate[c] = "outside"
  /\ Closing
  /\ gate' = [gate EXCEPT ![c] = "refused"]
  /\ UNCHANGED <<admitted, effective, queue, queuedNow, epoch, ticketEpoch>>

\* Mutant of EnterAdmitted: a late caller takes the place of the line's head.
EnterPastTheLine(c) ==
  /\ gate[c] = "outside"
  /\ ~Closing
  /\ \E open \in OpenCounts : ~BlockedAt(open)
  /\ admitted' = admitted + 1
  /\ gate' = [gate EXCEPT ![c] = "holding"]
  /\ UNCHANGED <<effective, queue, queuedNow, epoch, ticketEpoch>>

EnterAdmitted(c) ==
  /\ gate[c] = "outside"
  /\ ~Closing
  /\ queue = <<>>
  /\ \E open \in OpenCounts : ~BlockedAt(open)
  /\ admitted' = admitted + 1
  /\ gate' = [gate EXCEPT ![c] = "holding"]
  /\ UNCHANGED <<effective, queue, queuedNow, epoch, ticketEpoch>>

EnterQueued(c) ==
  /\ gate[c] = "outside"
  /\ ~Closing
  /\ queue # <<>> \/ \E open \in OpenCounts : BlockedAt(open)
  /\ queue' = Append(queue, c)
  /\ queuedNow' = queuedNow + 1
  /\ ticketEpoch' = [ticketEpoch EXCEPT ![c] = epoch]
  /\ gate' = [gate EXCEPT ![c] = "waiting"]
  /\ UNCHANGED <<admitted, effective, epoch>>

(* One turn of its loop that ends the wait; a turn that does not end it *)
(* changes nothing.                                                     *)

WakeRefused(c) ==
  /\ Waiting(c)
  /\ Outdated(c)
  /\ RemoveTicket(c)
  /\ gate' = [gate EXCEPT ![c] = "refused"]
  /\ UNCHANGED <<admitted, effective, epoch, ticketEpoch>>

\* Mutant of WakeAdmitted: the reservation is not counted.
WakeUncounted(c) ==
  /\ Waiting(c)
  /\ ~Outdated(c)
  /\ queue # <<>> /\ Head(queue) = c
  /\ \E open \in OpenCounts : ~BlockedAt(open)
  /\ queue' = Tail(queue)
  /\ queuedNow' = queuedNow - 1
  /\ gate' = [gate EXCEPT ![c] = "holding"]
  /\ UNCHANGED <<admitted, effective, epoch, ticketEpoch>>

WakeAdmitted(c) ==
  /\ Waiting(c)
  /\ ~Outdated(c)
  /\ queue # <<>> /\ Head(queue) = c
  /\ \E open \in OpenCounts : ~BlockedAt(open)
  /\ queue' = Tail(queue)
  /\ queuedNow' = queuedNow - 1
  /\ admitted' = admitted + 1
  /\ gate' = [gate EXCEPT ![c] = "holding"]
  /\ UNCHANGED <<effective, epoch, ticketEpoch>>

\* Mutant of WakeTimedOut: the caller leaves and its ticket stays.
TimeOutKeepsTicket(c) ==
  /\ Waiting(c)
  /\ ~Outdated(c)
  /\ \/ queue = <<>>
     \/ Head(queue) # c
     \/ \E open \in OpenCounts : BlockedAt(open)
  /\ gate' = [gate EXCEPT ![c] = "refused"]
  /\ UNCHANGED <<admitted, effective, queue, queuedNow, epoch, ticketEpoch>>

\* The deadline is looked at only after admission was tried and refused.
WakeTimedOut(c) ==
  /\ Waiting(c)
  /\ ~Outdated(c)
  /\ \/ queue = <<>>
     \/ Head(queue) # c
     \/ \E open \in OpenCounts : BlockedAt(open)
  /\ RemoveTicket(c)
  /\ gate' = [gate EXCEPT ![c] = "refused"]
  /\ UNCHANGED <<admitted, effective, epoch, ticketEpoch>>

-----------------------------------------------------------------------------
\* Mutant of TryAdmit: the heartbeat does not yield to the line.
BeatPushesIn ==
  /\ \E open \in OpenCounts : ~BlockedAt(open)
  /\ admitted' = admitted + 1
  /\ UNCHANGED <<effective, queue, queuedNow, epoch, ticketEpoch>>

\* tryAdmit(): the heartbeat reserves like a call but never waits, and yields
\* to callers that do.
TryAdmit ==
  /\ queue = <<>>
  /\ \E open \in OpenCounts : ~BlockedAt(open)
  /\ admitted' = admitted + 1
  /\ UNCHANGED <<effective, queue, queuedNow, epoch, ticketEpoch>>

TryAdmitRefused ==
  /\ queue # <<>> \/ \E open \in OpenCounts : BlockedAt(open)
  /\ UNCHANGED <<admitted, effective, queue, queuedNow, epoch, ticketEpoch>>

\* releaseAdmission(): floored at zero, because a reset may have come first.
ReleaseAdmission ==
  /\ admitted' = IF admitted > 0 THEN admitted - 1 ELSE 0
  /\ UNCHANGED <<effective, queue, queuedNow, epoch, ticketEpoch>>

\* start(): a new epoch, an empty queue, no reservation, and stop withdrawn.
StartResets ==
  /\ epoch' = epoch + 1
  /\ queue' = <<>>
  /\ queuedNow' = 0
  /\ admitted' = 0
  /\ stopRequested' = FALSE
  /\ UNCHANGED <<effective, gate, ticketEpoch>>

\* start(), later and outside the mutex.
SetCeiling(ceiling) ==
  /\ effective' = ceiling
  /\ UNCHANGED <<admitted, queue, queuedNow, epoch, gate, ticketEpoch>>

\* Mutant of TeardownResets: one reservation is given back, not all of them.
TeardownReleasesOne ==
  /\ admitted' = admitted - 1
  /\ UNCHANGED <<effective, queue, queuedNow, epoch, ticketEpoch>>

\* teardown(): the context is gone, so no callback will release anything.
TeardownResets ==
  /\ admitted' = 0
  /\ UNCHANGED <<effective, queue, queuedNow, epoch, ticketEpoch>>

-----------------------------------------------------------------------------
(* The gate closed by its contract *)

envVars == <<stopRequested, shutdown, run, beating>>
vars == <<gateVars, envVars>>

Init ==
  /\ admitted = 0
  /\ effective = MaxInFlight
  /\ queue = <<>>
  /\ queuedNow = 0
  /\ epoch = 0
  /\ stopRequested = FALSE
  /\ shutdown = FALSE
  /\ gate = [c \in Callers |-> "outside"]
  /\ ticketEpoch = [c \in Callers |-> 0]
  /\ run = "off"
  /\ beating = FALSE

Holders == {c \in Callers : gate[c] = "holding"}

Enter(c) ==
  /\ \/ EnterRefused(c)
     \/ run = "on" /\ (EnterAdmitted(c) \/ EnterQueued(c))
  /\ UNCHANGED envVars

Wake(c) ==
  /\ WakeRefused(c) \/ WakeAdmitted(c) \/ WakeTimedOut(c)
  /\ UNCHANGED envVars

\* A reserved call is answered, or gives up before it is enqueued.
Finish(c) ==
  /\ gate[c] = "holding"
  /\ ReleaseAdmission
  /\ gate' = [gate EXCEPT ![c] = "outside"]
  /\ UNCHANGED envVars

\* A caller that was turned away returns, and may call again.
Return(c) ==
  /\ gate[c] = "refused"
  /\ gate' = [gate EXCEPT ![c] = "outside"]
  /\ UNCHANGED <<admitted, effective, queue, queuedNow, epoch, ticketEpoch>>
  /\ UNCHANGED envVars

Beat ==
  /\ run = "on" /\ ~beating
  /\ TryAdmit
  /\ beating' = TRUE
  /\ UNCHANGED <<gate, stopRequested, shutdown, run>>

BeatFinish ==
  /\ beating
  /\ ReleaseAdmission
  /\ beating' = FALSE
  /\ UNCHANGED <<gate, stopRequested, shutdown, run>>

StopRequest ==
  /\ stopRequested' = TRUE
  /\ UNCHANGED <<gateVars, shutdown, run, beating>>

ShutdownRequest ==
  /\ shutdown' = TRUE
  /\ UNCHANGED <<gateVars, stopRequested, run, beating>>

RunEnds ==
  /\ run = "on" /\ Closing
  /\ TeardownResets
  /\ gate' = [c \in Callers |-> IF gate[c] = "holding" THEN "outside" ELSE gate[c]]
  /\ run' = "off"
  /\ beating' = FALSE
  /\ UNCHANGED <<stopRequested, shutdown>>

RunStarts ==
  /\ run = "off" /\ ~shutdown
  /\ epoch < MaxEpoch
  /\ StartResets
  /\ run' = "starting"
  /\ UNCHANGED <<shutdown, beating>>

\* A run with no room for a single call is refused.
RunSized ==
  /\ run = "starting"
  /\ \E ceiling \in 0..MaxInFlight :
       /\ SetCeiling(ceiling)
       /\ run' = IF ceiling = 0 THEN "off" ELSE "on"
  /\ UNCHANGED <<stopRequested, shutdown, beating>>

\* A run the library could not bring up has admitted nobody.
RunFails ==
  /\ run = "on"
  /\ Holders = {} /\ ~beating /\ queue = <<>>
  /\ run' = "off"
  /\ UNCHANGED <<gateVars, stopRequested, shutdown, beating>>

Next ==
  \/ \E c \in Callers : Enter(c) \/ Wake(c) \/ Finish(c) \/ Return(c)
  \/ Beat \/ BeatFinish
  \/ StopRequest \/ ShutdownRequest \/ RunEnds \/ RunStarts \/ RunSized
  \/ RunFails

Spec == Init /\ [][Next]_vars

\* A waiting caller's loop turns at least every 50 ms, so a head that can be
\* admitted, or a caller that must be sent away, is; no fairness is asked of
\* the timeout.  What a descriptor query answers is not the code's choice: as
\* WakeAdmitted is enabled by any answer that leaves room, its fairness says
\* that the rest of the process does not exhaust the budget for good.  The
\* library answers reserved calls and beats in the end, and a run told to stop
\* is torn down.
FairSpec ==
  /\ Spec
  /\ \A c \in Callers :
       /\ WF_vars((WakeRefused(c) \/ WakeAdmitted(c)) /\ UNCHANGED envVars)
       /\ WF_vars(Finish(c))
  /\ WF_vars(BeatFinish) /\ WF_vars(RunEnds)

-----------------------------------------------------------------------------
BeatHolds == IF beating THEN 1 ELSE 0

\* The callers the queue is about: those waiting with a ticket of this epoch.
InLine(c) == Waiting(c) /\ ticketEpoch[c] = epoch

\* Every variable keeps its type.
TypeOK ==
  /\ admitted \in Nat
  /\ effective \in 0..MaxInFlight
  /\ queue \in Seq(Callers)
  /\ queuedNow \in Int
  /\ epoch \in 0..MaxEpoch
  /\ stopRequested \in BOOLEAN /\ shutdown \in BOOLEAN /\ beating \in BOOLEAN
  /\ gate \in [Callers -> {"outside", "waiting", "holding", "refused"}]
  /\ ticketEpoch \in [Callers -> 0..MaxEpoch]
  /\ run \in {"off", "starting", "on"}

\* m_admitted counts exactly the reservations in force: no release is lost,
\* doubled, or charged to a later run, whatever resets come between.
Accounting == admitted = Cardinality(Holders) + BeatHolds

\* The calls and the beat that may load the library never exceed the ceiling
\* the run was given.
CeilingRespected == run = "on" => admitted <= effective

\* The queue holds the ticket of every caller in line, once, and no other:
\* no waiter is forgotten and no departed one blocks the head.  The length
\* status() reports is its length, also after start() cleared the queue under
\* callers that still wait.
LineConsistent ==
  /\ \A c \in Callers : InLine(c) <=> c \in Range(queue)
  /\ \A i, j \in DOMAIN queue : queue[i] = queue[j] => i = j
  /\ queuedNow = Len(queue)

\* Nobody starves in line: with descriptors to spare every waiting caller is
\* admitted or sent away, even if its own timeout never fires, however often
\* beats and later callers come.
NoStarvation == \A c \in Callers : Waiting(c) ~> ~Waiting(c)

\* The gate is a FIFO semaphore: epochs, wake-ups, counters and the descriptor
\* budget implement one line served from its head and one bounded room.
Inside == Holders \cup (IF beating THEN {Beats} ELSE {})

Fifo == INSTANCE FifoGate WITH
          Guests <- Callers \cup {Beats},
          MaxLimit <- MaxInFlight,
          line <- queue,
          inside <- Inside,
          limit <- effective

ImplementsFifo == Fifo!Spec
=============================================================================
