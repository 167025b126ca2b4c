------------------------------ MODULE FifoGate ------------------------------
(***************************************************************************)
(* What the admission gate promises, without its mechanism: a room with a  *)
(* bounded number of places and one line in front of it, served from the   *)
(* head.  Nobody enters past the line.  A guest may give up waiting, the   *)
(* line may be dissolved and the room cleared, and the limit is changed    *)
(* only while both are empty.                                              *)
(***************************************************************************)
EXTENDS Naturals, Sequences, SequencesExt, FiniteSets

CONSTANTS Guests, MaxLimit

VARIABLES line, inside, limit

vars == <<line, inside, limit>>

Room == Cardinality(inside) < limit

Init == line = <<>> /\ inside = {} /\ limit = MaxLimit

Join(g) ==
  /\ g \notin inside /\ g \notin Range(line)
  /\ line' = Append(line, g)
  /\ UNCHANGED <<inside, limit>>

EnterDirectly(g) ==
  /\ g \notin inside
  /\ line = <<>>
  /\ Room
  /\ inside' = inside \cup {g}
  /\ UNCHANGED <<line, limit>>

Serve ==
  /\ line # <<>>
  /\ Room
  /\ inside' = inside \cup {Head(line)}
  /\ line' = Tail(line)
  /\ UNCHANGED limit

GiveUp ==
  /\ \E i \in DOMAIN line : line' = RemoveAt(line, i)
  /\ UNCHANGED <<inside, limit>>

Leave(g) ==
  /\ g \in inside
  /\ inside' = inside \ {g}
  /\ UNCHANGED <<line, limit>>

Clear ==
  /\ inside' = {}
  /\ UNCHANGED <<line, limit>>

Dissolve ==
  /\ inside = {}
  /\ line' = <<>>
  /\ UNCHANGED <<inside, limit>>

Resize ==
  /\ inside = {} /\ line = <<>>
  /\ limit' \in 0..MaxLimit
  /\ UNCHANGED <<line, inside>>

Next ==
  \/ \E g \in Guests : Join(g) \/ EnterDirectly(g) \/ Leave(g)
  \/ Serve \/ GiveUp \/ Clear \/ Dissolve \/ Resize

Spec == Init /\ [][Next]_vars
=============================================================================
