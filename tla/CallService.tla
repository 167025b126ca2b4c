----------------------------- MODULE CallService -----------------------------
(***************************************************************************)
(* What ProxyRuntime::call() promises its callers, without gate, threads   *)
(* or timers.  A call is refused, or its work is queued and handed to the  *)
(* library once.  Work that leaves the service leaves a verdict, from the  *)
(* library or because the run ended, and the verdict never changes.  The   *)
(* caller is told the verdict, unless it gave up before there was one.     *)
(***************************************************************************)
EXTENDS FiniteSets

CONSTANT Calls

VARIABLES
  caller,   \* "idle", "asking", "waiting", "ok" or "failed"
  work,     \* "none", "queued" or "library"
  verdict   \* "open", "ok" or "error"

vars == <<caller, work, verdict>>

Init ==
  /\ caller = [c \in Calls |-> "idle"]
  /\ work = [c \in Calls |-> "none"]
  /\ verdict = [c \in Calls |-> "open"]

Tell(c, answer) == caller' = [caller EXCEPT ![c] = answer]

Ask(c) ==
  /\ caller[c] = "idle"
  /\ Tell(c, "asking")
  /\ UNCHANGED <<work, verdict>>

Refuse(c) ==
  /\ caller[c] \in {"idle", "asking"}
  /\ Tell(c, "failed")
  /\ UNCHANGED <<work, verdict>>

Submit(c) ==
  /\ caller[c] = "asking"
  /\ Tell(c, "waiting")
  /\ work' = [work EXCEPT ![c] = "queued"]
  /\ UNCHANGED verdict

Dispatch(c) ==
  /\ work[c] = "queued"
  /\ work' = [work EXCEPT ![c] = "library"]
  /\ UNCHANGED <<caller, verdict>>

Answer(c) ==
  /\ work[c] = "library"
  /\ work' = [work EXCEPT ![c] = "none"]
  /\ \E answer \in {"ok", "error"} : verdict' = [verdict EXCEPT ![c] = answer]
  /\ UNCHANGED caller

\* The run ends: everybody it still holds is answered in one step.
CancelAll ==
  /\ verdict' = [c \in Calls |-> IF work[c] # "none" THEN "error" ELSE verdict[c]]
  /\ work' = [c \in Calls |-> "none"]
  /\ UNCHANGED caller

Return(c) ==
  /\ caller[c] = "waiting"
  /\ verdict[c] # "open"
  /\ Tell(c, IF verdict[c] = "ok" THEN "ok" ELSE "failed")
  /\ UNCHANGED <<work, verdict>>

GiveUp(c) ==
  /\ caller[c] = "waiting"
  /\ verdict[c] = "open"
  /\ Tell(c, "failed")
  /\ UNCHANGED <<work, verdict>>

Next ==
  \/ CancelAll
  \/ \E c \in Calls :
       \/ Ask(c) \/ Refuse(c) \/ Submit(c) \/ Dispatch(c) \/ Answer(c)
       \/ Return(c) \/ GiveUp(c)

Spec == Init /\ [][Next]_vars
=============================================================================
