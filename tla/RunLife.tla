------------------------------ MODULE RunLife ------------------------------
(***************************************************************************)
(* The life of one run after another, as a client of start(), stop(),      *)
(* live() and running() can tell: what VerifiedProxy builds on, and what   *)
(* ProxyRuntime implements for clients that keep its contract "runs".      *)
(***************************************************************************)
VARIABLES
  run,       \* where the run is
  stopping   \* it has been told to end

vars == <<run, stopping>>

Places == {"none", "prologue", "syncing", "running", "degraded", "draining", "ending"}

\* live(), and m_runActive, which lasts from the context's creation to its end.
Live == run \in {"running", "degraded"}
Active == run \in {"syncing", "running", "degraded", "draining"}

Init == run = "none" /\ stopping = FALSE

Posted ==
  /\ run = "none"
  /\ run' = "prologue"
  /\ UNCHANGED stopping

Told ==
  /\ run # "none"
  /\ stopping' = TRUE
  /\ UNCHANGED run

Goes(from, to) ==
  /\ run \in from
  /\ run' = to
  /\ stopping' = (stopping /\ to # "none")

\* What a run does on its own.  One that is told to end may still change
\* between running and degraded, but no longer comes up, and it drains only if
\* it is told to.
Proceeds ==
  \/ Goes({"prologue"}, "syncing") \/ Goes({"prologue"}, "ending")
  \/ ~stopping /\ Goes({"syncing"}, "running")
  \/ Goes({"running"}, "degraded") \/ Goes({"degraded"}, "running")
  \/ stopping /\ Goes({"syncing", "running", "degraded"}, "draining")
  \/ Goes({"draining"}, "ending") \/ Goes({"ending"}, "none")

\* The destructor comes before the run was taken up.
Dropped == stopping /\ Goes({"prologue"}, "none")

Next == Posted \/ Told \/ Proceeds \/ Dropped

Spec == Init /\ [][Next]_vars
=============================================================================
