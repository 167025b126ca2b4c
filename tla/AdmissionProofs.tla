--------------------------- MODULE AdmissionProofs ---------------------------
(***************************************************************************)
(* The admission gate is correct for any number of callers, any ceiling    *)
(* and any answers of the descriptor query.                                *)
(***************************************************************************)
EXTENDS Admission, SequenceTheorems, FiniteSetTheorems, TLAPS

\* Erasing position i shifts what follows it by one and keeps the rest.
LEMMA RemoveAtShape ==
  ASSUME NEW S, NEW q \in Seq(S), NEW i \in DOMAIN q
  PROVE  /\ RemoveAt(q, i) \in Seq(S)
         /\ Len(RemoveAt(q, i)) = Len(q) - 1
         /\ \A j \in 1..(Len(q) - 1) :
              RemoveAt(q, i)[j] = IF j < i THEN q[j] ELSE q[j + 1]
<1> DEFINE front == SubSeq(q, 1, i - 1)
           back  == SubSeq(q, i + 1, Len(q))
<1>1. Len(q) \in Nat /\ DOMAIN q = 1..Len(q) /\ i \in 1..Len(q)
  BY LenProperties
<1>2. \A j \in 1..Len(q) : q[j] \in S
  BY ElementOfSeq
<1>3. /\ front \in Seq(S)
      /\ Len(front) = i - 1
      /\ \A j \in 1..(i - 1) : front[j] = q[j]
  <2>1. \A j \in 1..(i - 1) : q[j] \in S
    BY <1>1, <1>2
  <2> QED
    BY <1>1, <2>1, SubSeqProperties
<1>4. /\ back \in Seq(S)
      /\ Len(back) = Len(q) - i
      /\ \A j \in 1..(Len(q) - i) : back[j] = q[i + j]
  <2>1. \A j \in (i + 1)..Len(q) : q[j] \in S
    BY <1>1, <1>2
  <2>2. i + 1 \in Int /\ Len(q) \in Int
    BY <1>1
  <2>3. /\ back \in Seq(S)
        /\ Len(back) = IF i + 1 <= Len(q) THEN Len(q) - (i + 1) + 1 ELSE 0
        /\ \A j \in 1..(Len(q) - (i + 1) + 1) : back[j] = q[(i + 1) + j - 1]
    BY <2>1, <2>2, SubSeqProperties
  <2> QED
    BY <1>1, <2>3
<1> HIDE DEF front, back
<1>5. /\ front \o back \in Seq(S)
      /\ Len(front \o back) = Len(front) + Len(back)
      /\ \A j \in 1..(Len(front) + Len(back)) :
           (front \o back)[j] =
             IF j <= Len(front) THEN front[j] ELSE back[j - Len(front)]
  BY <1>3, <1>4, ConcatProperties
<1>6. RemoveAt(q, i) = front \o back
  BY DEF RemoveAt, front, back
<1>7. Len(front) + Len(back) = Len(q) - 1
  BY <1>1, <1>3, <1>4
<1>8. ASSUME NEW j \in 1..(Len(q) - 1)
      PROVE  (front \o back)[j] = IF j < i THEN q[j] ELSE q[j + 1]
  <2>1. (front \o back)[j] = IF j <= i - 1 THEN front[j] ELSE back[j - (i - 1)]
    BY <1>3, <1>5, <1>7
  <2>2. CASE j < i
    BY <1>1, <1>3, <2>1, <2>2
  <2>3. CASE ~(j < i)
    <3>1. j - (i - 1) \in 1..(Len(q) - i) /\ i + (j - (i - 1)) = j + 1
      BY <1>1, <2>3
    <3>2. back[j - (i - 1)] = q[i + (j - (i - 1))]
      BY <1>4, <3>1
    <3> QED
      BY <1>1, <2>1, <2>3, <3>1, <3>2
  <2> QED
    BY <2>2, <2>3
<1> QED
  BY <1>5, <1>6, <1>7, <1>8

-----------------------------------------------------------------------------
Distinct(q) == \A i, j \in DOMAIN q : q[i] = q[j] => i = j

\* Erasing the only occurrence of a ticket removes it from the line.
LEMMA RemoveAtLine ==
  ASSUME NEW S, NEW q \in Seq(S), NEW i \in DOMAIN q, Distinct(q)
  PROVE  /\ Range(RemoveAt(q, i)) = Range(q) \ {q[i]}
         /\ Distinct(RemoveAt(q, i))
<1> DEFINE r == RemoveAt(q, i)
<1>1. /\ r \in Seq(S)
      /\ Len(r) = Len(q) - 1
      /\ \A j \in 1..(Len(q) - 1) : r[j] = IF j < i THEN q[j] ELSE q[j + 1]
  BY RemoveAtShape
<1>2. Len(q) \in Nat /\ DOMAIN q = 1..Len(q) /\ DOMAIN r = 1..(Len(q) - 1)
  BY <1>1, LenProperties
<1> HIDE DEF r
<1>3. ASSUME NEW j \in DOMAIN r
      PROVE  r[j] \in Range(q) \ {q[i]}
  <2>1. CASE j < i
    BY <1>1, <1>2, <2>1 DEF Range, Distinct
  <2>2. CASE ~(j < i)
    <3>1. j + 1 \in DOMAIN q /\ j + 1 # i /\ r[j] = q[j + 1]
      BY <1>1, <1>2, <2>2
    <3> QED
      BY <3>1 DEF Range, Distinct
  <2> QED
    BY <2>1, <2>2
<1>4. ASSUME NEW k \in DOMAIN q, q[k] # q[i]
      PROVE  q[k] \in Range(r)
  <2>1. CASE k < i
    <3>1. k \in DOMAIN r /\ r[k] = q[k]
      BY <1>1, <1>2, <2>1
    <3> QED
      BY <3>1 DEF Range
  <2>2. CASE k > i
    <3>1. k - 1 \in DOMAIN r /\ r[k - 1] = q[(k - 1) + 1] /\ (k - 1) + 1 = k
      BY <1>1, <1>2, <2>2
    <3> QED
      BY <3>1 DEF Range
  <2> QED
    BY <1>2, <1>4, <2>1, <2>2
<1>5. Range(r) = Range(q) \ {q[i]}
  BY <1>3, <1>4 DEF Range
<1>6. ASSUME NEW j \in DOMAIN r, NEW k \in DOMAIN r, r[j] = r[k]
      PROVE  j = k
  <2>1. PICK a \in DOMAIN q : r[j] = q[a] /\ a = IF j < i THEN j ELSE j + 1
    BY <1>1, <1>2
  <2>2. PICK b \in DOMAIN q : r[k] = q[b] /\ b = IF k < i THEN k ELSE k + 1
    BY <1>1, <1>2
  <2>3. a = b
    BY <1>6, <2>1, <2>2 DEF Distinct
  <2> QED
    BY <1>2, <2>1, <2>2, <2>3
<1> QED
  BY <1>5, <1>6 DEF Distinct, r

\* A ticket drawn at the end of the line joins it, behind all others.
LEMMA AppendLine ==
  ASSUME NEW S, NEW q \in Seq(S), NEW c \in S, c \notin Range(q), Distinct(q)
  PROVE  /\ Range(Append(q, c)) = Range(q) \cup {c}
         /\ Distinct(Append(q, c))
<1> DEFINE r == Append(q, c)
<1>1. /\ r \in Seq(S)
      /\ Len(r) = Len(q) + 1
      /\ \A j \in 1..Len(q) : r[j] = q[j]
      /\ r[Len(q) + 1] = c
  BY AppendProperties
<1>2. Len(q) \in Nat /\ DOMAIN q = 1..Len(q) /\ DOMAIN r = 1..(Len(q) + 1)
  BY <1>1, LenProperties
<1> HIDE DEF r
<1>3. Range(r) = Range(q) \cup {c}
  BY <1>1, <1>2 DEF Range
<1>4. \A j \in DOMAIN q : q[j] # c
  BY DEF Range
<1>5. Distinct(r)
  BY <1>1, <1>2, <1>4 DEF Distinct
<1> QED
  BY <1>3, <1>5 DEF r

\* Serving the head takes exactly its ticket out of the line.
LEMMA TailLine ==
  ASSUME NEW S, NEW q \in Seq(S), q # <<>>, Distinct(q)
  PROVE  /\ Range(Tail(q)) = Range(q) \ {Head(q)}
         /\ Distinct(Tail(q))
         /\ Tail(q) = RemoveAt(q, 1)
<1>1. Len(q) \in Nat \ {0} /\ DOMAIN q = 1..Len(q) /\ 1 \in DOMAIN q
  BY EmptySeq, LenProperties
<1>2. Head(q) = q[1]
  BY <1>1
<1>3. Tail(q) = RemoveAt(q, 1)
  <2>1. Tail(q) = SubSeq(q, 2, Len(q)) /\ Tail(q) \in Seq(S)
    BY TailIsSubSeq, HeadTailProperties
  <2>2. SubSeq(q, 1, 0) = <<>>
    BY SubSeqEmpty
  <2>3. RemoveAt(q, 1) = SubSeq(q, 1, 0) \o SubSeq(q, 2, Len(q))
    BY DEF RemoveAt
  <2> QED
    BY <2>1, <2>2, <2>3, ConcatEmptySeq
<1> QED
  BY <1>1, <1>2, <1>3, RemoveAtLine

-----------------------------------------------------------------------------
\* No caller holds a ticket of an epoch that has not begun.
EpochsPast == \A c \in Callers : ticketEpoch[c] <= epoch

\* Outside a run nothing is reserved.
QuietBetweenRuns == run # "on" => Holders = {} /\ ~beating

\* A line left over from a run is only ever sent away: the gate is closing
\* until start() dissolves it.
LeftoversSentAway ==
  /\ run = "off" => Closing \/ queue = <<>>
  /\ run = "starting" => queue = <<>>

IInv ==
  /\ TypeOK
  /\ Accounting
  /\ CeilingRespected
  /\ LineConsistent
  /\ EpochsPast
  /\ QuietBetweenRuns
  /\ LeftoversSentAway

\* TypeOK in two parts, for the solvers: the Boolean flags and the rest.
FlagTypes ==
  stopRequested \in BOOLEAN /\ shutdown \in BOOLEAN /\ beating \in BOOLEAN

DataTypes ==
  /\ admitted \in Nat
  /\ effective \in 0..MaxInFlight
  /\ queue \in Seq(Callers)
  /\ queuedNow \in Int
  /\ epoch \in 0..MaxEpoch
  /\ gate \in [Callers -> {"outside", "waiting", "holding", "refused"}]
  /\ ticketEpoch \in [Callers -> 0..MaxEpoch]
  /\ run \in {"off", "starting", "on"}

LEMMA TypeParts == TypeOK <=> FlagTypes /\ DataTypes
  BY DEF TypeOK, FlagTypes, DataTypes

LEMMA HoldersFinite == IsFiniteSet(Holders) /\ Cardinality(Holders) \in Nat
<1>1. Holders \in SUBSET Callers
  BY DEF Holders
<1> QED
  BY <1>1, GateAssumption, FS_Subset, FS_CardinalityType

LEMMA InitIInv == Init => IInv
<1> SUFFICES ASSUME Init PROVE IInv
  OBVIOUS
<1> USE GateAssumption DEF Init
<1>1. Holders = {}
  BY DEF Holders
<1>2. TypeOK
  <2>1. FlagTypes
    BY DEF FlagTypes
  <2>2. DataTypes
    BY EmptySeq DEF DataTypes
  <2> QED
    BY <2>1, <2>2, TypeParts
<1>3. Accounting
  BY <1>1, FS_EmptySet DEF Accounting, BeatHolds
<1>4. CeilingRespected /\ QuietBetweenRuns /\ LeftoversSentAway /\ EpochsPast
  BY <1>1 DEF CeilingRespected, QuietBetweenRuns, LeftoversSentAway, EpochsPast
<1>5. LineConsistent
  BY DEF LineConsistent, InLine, Waiting, Range
<1> QED
  BY <1>2, <1>3, <1>4, <1>5 DEF IInv

\* What removing a ticket does to a line whose tickets are distinct.
LEMMA TicketRemoved ==
  ASSUME TypeOK, LineConsistent, NEW c \in Callers, RemoveTicket(c)
  PROVE  /\ queue' \in Seq(Callers)
         /\ queuedNow' = Len(queue')
         /\ Range(queue') = Range(queue) \ {c}
         /\ Distinct(queue')
<1>1. Distinct(queue) /\ queuedNow = Len(queue) /\ queue \in Seq(Callers)
  BY DEF LineConsistent, Distinct, TypeOK
<1>2. CASE \E i \in DOMAIN queue :
             /\ queue[i] = c
             /\ queue' = RemoveAt(queue, i)
             /\ queuedNow' = queuedNow - 1
  BY <1>1, <1>2, RemoveAtShape, RemoveAtLine
<1>3. CASE /\ \A i \in DOMAIN queue : queue[i] # c
           /\ UNCHANGED <<queue, queuedNow>>
  BY <1>1, <1>3 DEF Range
<1> QED
  BY <1>2, <1>3 DEF RemoveTicket

LEMMA FlagStep == IInv /\ [Next]_vars => FlagTypes'
<1> SUFFICES ASSUME IInv, [Next]_vars PROVE FlagTypes'
  OBVIOUS
<1>1. FlagTypes
  BY TypeParts DEF IInv
<1>2. CASE Next
  BY <1>1, <1>2, Zenon
  DEF Next, FlagTypes, envVars, gateVars, Enter, Wake, Finish, Return, Beat,
      BeatFinish, StopRequest, ShutdownRequest, RunEnds, RunStarts,
      StartResets, RunSized, RunFails
<1>3. CASE UNCHANGED vars
  BY <1>1, <1>3 DEF vars, envVars, FlagTypes
<1> QED
  BY <1>2, <1>3

LEMMA TypeStep == IInv /\ [Next]_vars => TypeOK'
<1> SUFFICES ASSUME IInv, [Next]_vars PROVE DataTypes'
  BY FlagStep DEF TypeOK, FlagTypes, DataTypes
<1> USE GateAssumption DEF DataTypes
<1>0. DataTypes /\ TypeOK /\ LineConsistent
  BY TypeParts DEF IInv
<1>1. ASSUME NEW c \in Callers, Enter(c) PROVE DataTypes'
  <2>1. CASE EnterRefused(c)
    BY <1>0, <1>1, <2>1 DEF Enter, EnterRefused, envVars
  <2>2. CASE EnterAdmitted(c)
    BY <1>0, <1>1, <2>2 DEF Enter, EnterAdmitted, envVars
  <2>3. CASE EnterQueued(c)
    <3>1. Append(queue, c) \in Seq(Callers)
      BY <1>0, AppendProperties
    <3> QED
      BY <1>0, <1>1, <2>3, <3>1 DEF Enter, EnterQueued, envVars
  <2> QED
    BY <1>1, <2>1, <2>2, <2>3 DEF Enter
<1>2. ASSUME NEW c \in Callers, Wake(c) PROVE DataTypes'
  <2>1. CASE WakeAdmitted(c)
    BY <1>0, <1>2, <2>1, HeadTailProperties DEF Wake, WakeAdmitted, envVars
  <2>2. CASE WakeRefused(c) \/ WakeTimedOut(c)
    <3>1. RemoveTicket(c)
      BY <2>2 DEF WakeRefused, WakeTimedOut
    <3>2. queue' \in Seq(Callers) /\ queuedNow' \in Int
      BY <1>0, <3>1, TicketRemoved, LenProperties
    <3> QED
      BY <1>0, <1>2, <2>2, <3>2 DEF Wake, WakeRefused, WakeTimedOut, envVars
  <2> QED
    BY <1>2, <2>1, <2>2 DEF Wake
<1>3. ASSUME NEW c \in Callers, Finish(c) \/ Return(c) PROVE DataTypes'
  BY <1>0, <1>3 DEF Finish, Return, ReleaseAdmission, envVars
<1>4. CASE Beat \/ BeatFinish
  BY <1>0, <1>4 DEF Beat, BeatFinish, TryAdmit, ReleaseAdmission
<1>5. CASE StopRequest \/ ShutdownRequest
  BY <1>0, <1>5 DEF StopRequest, ShutdownRequest, gateVars
<1>6. CASE RunEnds
  BY <1>0, <1>6 DEF RunEnds, TeardownResets
<1>7. CASE RunStarts
  BY <1>0, <1>7, EmptySeq DEF RunStarts, StartResets
<1>8. CASE RunSized
  BY <1>0, <1>8 DEF RunSized, SetCeiling
<1>9. CASE RunFails \/ UNCHANGED vars
  BY <1>0, <1>9 DEF RunFails, vars, gateVars, envVars
<1> QED
  BY <1>1, <1>2, <1>3, <1>4, <1>5, <1>6, <1>7, <1>8, <1>9 DEF Next

-----------------------------------------------------------------------------
\* One caller obtains or gives back a reservation.
LEMMA OneMoreHolder ==
  ASSUME TypeOK, NEW c \in Callers, gate[c] # "holding",
         gate' = [gate EXCEPT ![c] = "holding"]
  PROVE  Holders' = Holders \cup {c} /\ Cardinality(Holders') = Cardinality(Holders) + 1
<1>1. Holders' = Holders \cup {c} /\ c \notin Holders
  BY DEF Holders, TypeOK
<1> QED
  BY <1>1, HoldersFinite, FS_AddElement

LEMMA OneHolderLess ==
  ASSUME TypeOK, NEW c \in Callers, gate[c] = "holding",
         gate' = [gate EXCEPT ![c] = "outside"]
  PROVE  /\ Holders' = Holders \ {c}
         /\ Cardinality(Holders') = Cardinality(Holders) - 1
         /\ Cardinality(Holders) > 0
<1>1. Holders' = Holders \ {c} /\ c \in Holders
  BY DEF Holders, TypeOK
<1>2. Cardinality(Holders) # 0
  BY <1>1, HoldersFinite, FS_EmptySet
<1> QED
  BY <1>1, <1>2, HoldersFinite, FS_RemoveElement

LEMMA SameHolders ==
  ASSUME TypeOK, NEW c \in Callers, gate[c] # "holding",
         NEW w \in {"outside", "waiting", "refused"},
         gate' = [gate EXCEPT ![c] = w]
  PROVE  Holders' = Holders
  BY DEF Holders, TypeOK

LEMMA AccountingStep == IInv /\ [Next]_vars => Accounting'
<1> SUFFICES ASSUME IInv, [Next]_vars PROVE Accounting'
  OBVIOUS
<1> USE DEF Accounting
<1>0. /\ TypeOK /\ Accounting
      /\ admitted \in Nat /\ Cardinality(Holders) \in Nat /\ BeatHolds \in Nat
  BY HoldersFinite DEF IInv, TypeOK, BeatHolds
<1>b. beating' = beating => BeatHolds' = BeatHolds
  BY DEF BeatHolds
<1>1. ASSUME NEW c \in Callers, Enter(c) PROVE Accounting'
  <2>1. CASE EnterAdmitted(c)
    <3>1. Cardinality(Holders') = Cardinality(Holders) + 1
      BY <1>0, <2>1, OneMoreHolder DEF EnterAdmitted
    <3> QED
      BY <1>0, <1>1, <1>b, <2>1, <3>1 DEF Enter, EnterAdmitted, envVars
  <2>2. CASE EnterRefused(c) \/ EnterQueued(c)
    <3>1. Holders' = Holders
      BY <1>0, <2>2, SameHolders DEF EnterRefused, EnterQueued
    <3> QED
      BY <1>0, <1>1, <1>b, <2>2, <3>1 DEF Enter, EnterRefused, EnterQueued, envVars
  <2> QED
    BY <1>1, <2>1, <2>2 DEF Enter
<1>2. ASSUME NEW c \in Callers, Wake(c) PROVE Accounting'
  <2>1. CASE WakeAdmitted(c)
    <3>1. Cardinality(Holders') = Cardinality(Holders) + 1
      BY <1>0, <2>1, OneMoreHolder DEF WakeAdmitted, Waiting
    <3> QED
      BY <1>0, <1>2, <1>b, <2>1, <3>1 DEF Wake, WakeAdmitted, envVars
  <2>2. CASE WakeRefused(c) \/ WakeTimedOut(c)
    <3>1. Holders' = Holders
      BY <1>0, <2>2, SameHolders DEF WakeRefused, WakeTimedOut, Waiting
    <3> QED
      BY <1>0, <1>2, <1>b, <2>2, <3>1 DEF Wake, WakeRefused, WakeTimedOut, envVars
  <2> QED
    BY <1>2, <2>1, <2>2 DEF Wake
<1>3. ASSUME NEW c \in Callers, Finish(c) PROVE Accounting'
  <2>1. Cardinality(Holders') = Cardinality(Holders) - 1 /\ Cardinality(Holders) > 0
    BY <1>0, <1>3, OneHolderLess DEF Finish
  <2> QED
    BY <1>0, <1>3, <1>b, <2>1 DEF Finish, ReleaseAdmission, envVars
<1>4. ASSUME NEW c \in Callers, Return(c) PROVE Accounting'
  <2>1. Holders' = Holders
    BY <1>0, <1>4, SameHolders DEF Return
  <2> QED
    BY <1>0, <1>4, <1>b, <2>1 DEF Return, envVars
<1>5. CASE Beat
  <2>1. Holders' = Holders /\ BeatHolds = 0 /\ BeatHolds' = 1
    BY <1>5 DEF Beat, Holders, BeatHolds
  <2>2. admitted' = admitted + 1
    BY <1>5 DEF Beat, TryAdmit
  <2> QED
    BY <1>0, <2>1, <2>2
<1>6. CASE BeatFinish
  <2>1. Holders' = Holders /\ BeatHolds = 1 /\ BeatHolds' = 0
    BY <1>6 DEF BeatFinish, Holders, BeatHolds
  <2>2. admitted' = IF admitted > 0 THEN admitted - 1 ELSE 0
    BY <1>6 DEF BeatFinish, ReleaseAdmission
  <2> QED
    BY <1>0, <2>1, <2>2
<1>7. CASE StopRequest \/ ShutdownRequest \/ RunSized \/ RunFails \/ UNCHANGED vars
  <2>1. admitted' = admitted /\ gate' = gate /\ beating' = beating
    BY <1>7
    DEF StopRequest, ShutdownRequest, RunSized, SetCeiling, RunFails, vars, gateVars, envVars
  <2>2. Holders' = Holders
    BY <2>1 DEF Holders
  <2> QED
    BY <1>0, <1>b, <2>1, <2>2
<1>8. CASE RunEnds
  <2>1. Holders' = {} /\ BeatHolds' = 0 /\ admitted' = 0
    BY <1>8 DEF RunEnds, TeardownResets, Holders, BeatHolds
  <2> QED
    BY <2>1, FS_EmptySet
<1>9. CASE RunStarts
  <2>1. Holders = {} /\ Holders' = Holders /\ BeatHolds' = 0 /\ admitted' = 0
    BY <1>9 DEF RunStarts, StartResets, IInv, QuietBetweenRuns, Holders, BeatHolds
  <2> QED
    BY <2>1, FS_EmptySet
<1> QED
  BY <1>1, <1>2, <1>3, <1>4, <1>5, <1>6, <1>7, <1>8, <1>9 DEF Next

-----------------------------------------------------------------------------
LEMMA LineStep == IInv /\ [Next]_vars => LineConsistent'
<1> SUFFICES ASSUME IInv, [Next]_vars PROVE LineConsistent'
  OBVIOUS
<1>0. /\ TypeOK /\ LineConsistent /\ EpochsPast
      /\ queue \in Seq(Callers) /\ queuedNow = Len(queue) /\ Distinct(queue)
      /\ \A d \in Callers : InLine(d) <=> d \in Range(queue)
      /\ epoch \in Nat
      /\ Len(queue) \in Nat
  BY GateAssumption, LenProperties DEF IInv, TypeOK, LineConsistent, Distinct
<1>k. ASSUME UNCHANGED <<queue, queuedNow, epoch>>,
             \A d \in Callers : InLine(d)' <=> InLine(d)
      PROVE  LineConsistent'
  BY <1>0, <1>k DEF LineConsistent
<1>r. ASSUME NEW c \in Callers, RemoveTicket(c), gate[c] = "waiting",
             gate' = [gate EXCEPT ![c] = "refused"],
             UNCHANGED <<epoch, ticketEpoch>>
      PROVE  LineConsistent'
  <2>1. queuedNow' = Len(queue') /\ Range(queue') = Range(queue) \ {c} /\ Distinct(queue')
    BY <1>0, <1>r, TicketRemoved
  <2>2. \A d \in Callers : InLine(d)' <=> InLine(d) /\ d # c
    BY <1>0, <1>r DEF InLine, Waiting, TypeOK
  <2> QED
    BY <1>0, <2>1, <2>2 DEF LineConsistent, Distinct
<1>1. ASSUME NEW c \in Callers, Enter(c) PROVE LineConsistent'
  <2>1. CASE EnterRefused(c) \/ EnterAdmitted(c)
    <3>1. \A d \in Callers : InLine(d)' <=> InLine(d)
      BY <1>0, <2>1 DEF EnterRefused, EnterAdmitted, InLine, Waiting, TypeOK
    <3> QED
      BY <1>k, <2>1, <3>1 DEF EnterRefused, EnterAdmitted
  <2>2. CASE EnterQueued(c)
    <3>1. c \notin Range(queue)
      BY <1>0, <2>2 DEF EnterQueued, InLine, Waiting
    <3>2. Range(queue') = Range(queue) \cup {c} /\ Distinct(queue')
      BY <1>0, <2>2, <3>1, AppendLine DEF EnterQueued
    <3>3. queuedNow' = Len(queue')
      BY <1>0, <2>2, AppendProperties DEF EnterQueued
    <3>4. \A d \in Callers : InLine(d)' <=> InLine(d) \/ d = c
      BY <1>0, <2>2 DEF EnterQueued, InLine, Waiting, TypeOK
    <3> QED
      BY <1>0, <3>2, <3>3, <3>4 DEF LineConsistent, Distinct
  <2> QED
    BY <1>1, <2>1, <2>2 DEF Enter
<1>2. ASSUME NEW c \in Callers, Wake(c) PROVE LineConsistent'
  <2>1. CASE WakeRefused(c) \/ WakeTimedOut(c)
    BY <1>r, <2>1 DEF WakeRefused, WakeTimedOut, Waiting
  <2>2. CASE WakeAdmitted(c)
    <3>1. Range(queue') = Range(queue) \ {c} /\ Distinct(queue')
      BY <1>0, <2>2, TailLine DEF WakeAdmitted
    <3>2. queuedNow' = Len(queue')
      BY <1>0, <2>2, HeadTailProperties DEF WakeAdmitted
    <3>3. \A d \in Callers : InLine(d)' <=> InLine(d) /\ d # c
      BY <1>0, <2>2 DEF WakeAdmitted, InLine, Waiting, TypeOK
    <3> QED
      BY <1>0, <3>1, <3>2, <3>3 DEF LineConsistent, Distinct
  <2> QED
    BY <1>2, <2>1, <2>2 DEF Wake
<1>3. ASSUME NEW c \in Callers, Finish(c) \/ Return(c) PROVE LineConsistent'
  <2>1. \A d \in Callers : InLine(d)' <=> InLine(d)
    BY <1>0, <1>3 DEF Finish, Return, ReleaseAdmission, InLine, Waiting, TypeOK
  <2> QED
    BY <1>k, <1>3, <2>1 DEF Finish, Return, ReleaseAdmission
<1>4. CASE \/ Beat \/ BeatFinish \/ StopRequest \/ ShutdownRequest
          \/ RunSized \/ RunFails \/ UNCHANGED vars
  <2>1. UNCHANGED <<queue, queuedNow, epoch, gate, ticketEpoch>>
    BY <1>4
    DEF Beat, BeatFinish, TryAdmit, ReleaseAdmission, StopRequest,
        ShutdownRequest, RunSized, SetCeiling, RunFails, vars, gateVars, envVars
  <2> QED
    BY <1>k, <2>1 DEF InLine, Waiting
<1>5. CASE RunEnds
  <2>1. \A d \in Callers : InLine(d)' <=> InLine(d)
    BY <1>0, <1>5 DEF RunEnds, TeardownResets, InLine, Waiting, TypeOK
  <2> QED
    BY <1>k, <1>5, <2>1 DEF RunEnds, TeardownResets
<1>6. CASE RunStarts
  <2>1. queue' = <<>> /\ queuedNow' = 0 /\ Range(queue') = {}
    BY <1>6 DEF RunStarts, StartResets, Range
  <2>2. \A d \in Callers : ~InLine(d)'
    <3>1. \A d \in Callers : ticketEpoch[d] \in Nat /\ ticketEpoch[d] <= epoch
      BY <1>0 DEF EpochsPast, TypeOK
    <3>2. epoch' = epoch + 1 /\ ticketEpoch' = ticketEpoch
      BY <1>6 DEF RunStarts, StartResets
    <3> QED
      BY <1>0, <3>1, <3>2 DEF InLine
  <2>3. Len(queue') = 0
    BY <2>1, EmptySeq
  <2> QED
    BY <2>1, <2>2, <2>3 DEF LineConsistent
<1> QED
  BY <1>1, <1>2, <1>3, <1>4, <1>5, <1>6 DEF Next

LEMMA CeilingStep == IInv /\ [Next]_vars => CeilingRespected'
<1> SUFFICES ASSUME IInv, [Next]_vars, run' = "on" PROVE admitted' <= effective'
  BY DEF CeilingRespected
<1>0. admitted \in Nat /\ effective \in Nat /\ (run = "on" => admitted <= effective)
  BY GateAssumption DEF IInv, TypeOK, CeilingRespected
<1>b. ASSUME NEW open \in OpenCounts, ~BlockedAt(open) PROVE admitted < effective
  BY <1>0, <1>b DEF BlockedAt, Blocked
<1>1. CASE \E c \in Callers : Enter(c) \/ Wake(c)
  <2>1. /\ effective' = effective /\ run' = run
        /\ \/ admitted' = admitted
           \/ admitted' = admitted + 1 /\ \E open \in OpenCounts : ~BlockedAt(open)
    BY <1>1
    DEF Enter, EnterRefused, EnterAdmitted, EnterQueued,
        Wake, WakeRefused, WakeAdmitted, WakeTimedOut, envVars
  <2> QED
    BY <1>0, <1>b, <2>1
<1>2. CASE \E c \in Callers : Finish(c) \/ Return(c)
  BY <1>0, <1>2 DEF Finish, Return, ReleaseAdmission, envVars
<1>3. CASE Beat
  BY <1>0, <1>3, <1>b DEF Beat, TryAdmit
<1>4. CASE BeatFinish
  BY <1>0, <1>4 DEF BeatFinish, ReleaseAdmission
<1>5. CASE StopRequest \/ ShutdownRequest \/ UNCHANGED vars
  BY <1>0, <1>5 DEF StopRequest, ShutdownRequest, vars, gateVars, envVars
<1>6. CASE RunEnds \/ RunStarts \/ RunFails
  BY <1>6 DEF RunEnds, RunStarts, RunFails
<1>7. CASE RunSized
  <2>1. admitted = 0
    <3>1. Holders = {} /\ BeatHolds = 0
      BY <1>7 DEF RunSized, IInv, QuietBetweenRuns, BeatHolds
    <3> QED
      BY <3>1, FS_EmptySet DEF IInv, Accounting
  <2> QED
    BY <1>7, <2>1, GateAssumption DEF RunSized, SetCeiling
<1> QED
  BY <1>1, <1>2, <1>3, <1>4, <1>5, <1>6, <1>7 DEF Next

LEMMA EpochStep == IInv /\ [Next]_vars => EpochsPast'
<1> SUFFICES ASSUME IInv, [Next]_vars, NEW d \in Callers
             PROVE  ticketEpoch'[d] <= epoch'
  BY DEF EpochsPast
<1>0. /\ epoch \in Nat /\ ticketEpoch \in [Callers -> Nat]
      /\ ticketEpoch[d] <= epoch
  BY GateAssumption DEF IInv, TypeOK, EpochsPast
<1>1. CASE \E c \in Callers : EnterQueued(c)
  BY <1>0, <1>1 DEF EnterQueued
<1>2. CASE RunStarts
  BY <1>0, <1>2 DEF RunStarts, StartResets
<1>3. CASE UNCHANGED <<epoch, ticketEpoch>>
  BY <1>0, <1>3
<1> QED
  BY <1>1, <1>2, <1>3
  DEF Next, Enter, EnterRefused, EnterAdmitted, Wake, WakeRefused, WakeAdmitted,
      WakeTimedOut, Finish, Return, Beat, BeatFinish, TryAdmit, ReleaseAdmission,
      StopRequest, ShutdownRequest, RunEnds, TeardownResets, RunSized, SetCeiling,
      RunFails, vars, gateVars

\* Between runs no caller that waits can be admitted: its ticket is outdated.
LEMMA NoAdmissionBetweenRuns ==
  ASSUME IInv, NEW c \in Callers, WakeAdmitted(c)
  PROVE  run = "on"
<1>1. queue # <<>> /\ ~Closing
  BY DEF WakeAdmitted, Outdated
<1> QED
  BY <1>1 DEF IInv, TypeOK, LeftoversSentAway

LEMMA QuietStep == IInv /\ [Next]_vars => QuietBetweenRuns'
<1> SUFFICES ASSUME IInv, [Next]_vars, run' # "on"
             PROVE  Holders' = {} /\ ~beating'
  BY DEF QuietBetweenRuns
<1>0. TypeOK /\ (run # "on" => Holders = {} /\ ~beating)
  BY DEF IInv, QuietBetweenRuns
<1>1. ASSUME NEW c \in Callers, Enter(c) PROVE Holders' = {} /\ ~beating'
  <2>1. EnterRefused(c) /\ run' = run /\ beating' = beating
    BY <1>1 DEF Enter, envVars
  <2>2. Holders' = Holders
    BY <1>0, <2>1, SameHolders DEF EnterRefused
  <2> QED
    BY <1>0, <2>1, <2>2
<1>2. ASSUME NEW c \in Callers, Wake(c) PROVE Holders' = {} /\ ~beating'
  <2>1. ~WakeAdmitted(c)
    BY <1>2, NoAdmissionBetweenRuns DEF Wake, envVars
  <2>2. gate[c] = "waiting" /\ gate' = [gate EXCEPT ![c] = "refused"]
    BY <1>2, <2>1 DEF Wake, WakeRefused, WakeTimedOut, Waiting
  <2>3. Holders' = Holders
    BY <1>0, <2>2, SameHolders
  <2> QED
    BY <1>0, <1>2, <2>3 DEF Wake, envVars
<1>3. ASSUME NEW c \in Callers, Finish(c) PROVE Holders' = {} /\ ~beating'
  <2>1. c \in Holders /\ run = run'
    BY <1>3 DEF Finish, Holders, envVars
  <2> QED
    BY <1>0, <2>1
<1>4. ASSUME NEW c \in Callers, Return(c) PROVE Holders' = {} /\ ~beating'
  <2>1. Holders' = Holders
    BY <1>0, <1>4, SameHolders DEF Return
  <2> QED
    BY <1>0, <1>4, <2>1 DEF Return, envVars
<1>5. CASE Beat \/ BeatFinish
  BY <1>0, <1>5 DEF Beat, BeatFinish, Holders
<1>6. CASE \/ StopRequest \/ ShutdownRequest \/ RunStarts \/ RunSized \/ RunFails
          \/ UNCHANGED vars
  <2>1. /\ gate' = gate /\ beating' = beating
        /\ run # "on" \/ (Holders = {} /\ ~beating)
    BY <1>6
    DEF StopRequest, ShutdownRequest, RunStarts, StartResets, RunSized, SetCeiling,
        RunFails, vars, gateVars, envVars
  <2> QED
    BY <1>0, <2>1 DEF Holders
<1>7. CASE RunEnds
  BY <1>7 DEF RunEnds, Holders
<1> QED
  BY <1>1, <1>2, <1>3, <1>4, <1>5, <1>6, <1>7 DEF Next

LEMMA LeftoversStep == IInv /\ [Next]_vars => LeftoversSentAway'
<1> SUFFICES ASSUME IInv, [Next]_vars PROVE LeftoversSentAway'
  OBVIOUS
<1> USE DEF LeftoversSentAway, Closing
<1>0. TypeOK /\ LeftoversSentAway /\ queue \in Seq(Callers)
  BY DEF IInv, TypeOK
<1>1. CASE \E c \in Callers : Enter(c)
  BY <1>0, <1>1 DEF Enter, EnterRefused, envVars
<1>2. ASSUME NEW c \in Callers, Wake(c) PROVE LeftoversSentAway'
  <2>1. CASE WakeAdmitted(c)
    BY <1>2, <2>1, NoAdmissionBetweenRuns DEF Wake, envVars
  <2>2. CASE RemoveTicket(c)
    <3>1. queue = <<>> => queue' = <<>>
      BY <2>2 DEF RemoveTicket
    <3> QED
      BY <1>0, <1>2, <3>1 DEF Wake, envVars
  <2> QED
    BY <1>2, <2>1, <2>2 DEF Wake, WakeRefused, WakeTimedOut
<1>3. CASE \E c \in Callers : Finish(c) \/ Return(c)
  BY <1>0, <1>3 DEF Finish, Return, ReleaseAdmission, envVars
<1>4. CASE Beat \/ BeatFinish
  BY <1>0, <1>4 DEF Beat, BeatFinish, TryAdmit, ReleaseAdmission
<1>5. CASE StopRequest \/ RunSized \/ RunFails
  BY <1>0, <1>5 DEF StopRequest, RunSized, SetCeiling, RunFails, gateVars
<1>6. CASE ShutdownRequest
  BY <1>0, <1>6 DEF ShutdownRequest, gateVars
<1>7. CASE RunEnds
  BY <1>7 DEF RunEnds
<1>8. CASE RunStarts
  BY <1>8 DEF RunStarts, StartResets
<1>9. CASE UNCHANGED vars
  BY <1>0, <1>9 DEF vars, gateVars, envVars
<1> QED
  BY <1>1, <1>2, <1>3, <1>4, <1>5, <1>6, <1>7, <1>8, <1>9 DEF Next

LEMMA StepIInv == IInv /\ [Next]_vars => IInv'
  BY TypeStep, AccountingStep, LineStep, CeilingStep, EpochStep, QuietStep,
     LeftoversStep
  DEF IInv

LEMMA Inductive == Spec => []IInv
  BY InitIInv, StepIInv, PTL DEF Spec

-----------------------------------------------------------------------------
\* Every variable of the gate keeps its type.
THEOREM TypeCorrect == Spec => []TypeOK
<1>1. IInv => TypeOK
  BY DEF IInv
<1> QED
  BY <1>1, Inductive, PTL

\* m_admitted is the number of reservations in force, at every step.
THEOREM AccountingHolds == Spec => []Accounting
<1>1. IInv => Accounting
  BY DEF IInv
<1> QED
  BY <1>1, Inductive, PTL

\* A run never carries more calls and beats than its ceiling.
THEOREM CeilingHolds == Spec => []CeilingRespected
<1>1. IInv => CeilingRespected
  BY DEF IInv
<1> QED
  BY <1>1, Inductive, PTL

\* The queue is the set of callers in line, without duplicates or leftovers.
THEOREM LineHolds == Spec => []LineConsistent
<1>1. IInv => LineConsistent
  BY DEF IInv
<1> QED
  BY <1>1, Inductive, PTL

-----------------------------------------------------------------------------
(* The gate implements the FIFO semaphore. *)

\* The room of the semaphore holds exactly what m_admitted counts.
LEMMA InsideCount ==
  ASSUME IInv
  PROVE  Cardinality(Inside) = admitted /\ (Inside = {} <=> admitted = 0)
<1>1. IsFiniteSet(Holders) /\ Cardinality(Holders) \in Nat /\ Beats \notin Holders
  BY HoldersFinite, GateAssumption DEF Holders
<1>2. admitted = Cardinality(Holders) + BeatHolds
  BY DEF IInv, Accounting
<1>3. CASE beating
  <2>1. Inside = Holders \cup {Beats} /\ BeatHolds = 1
    BY <1>3 DEF Inside, BeatHolds
  <2> QED
    BY <1>1, <1>2, <2>1, FS_AddElement
<1>4. CASE ~beating
  <2>1. Inside = Holders /\ BeatHolds = 0
    BY <1>4 DEF Inside, BeatHolds
  <2> QED
    BY <1>1, <1>2, <2>1, FS_EmptySet
<1> QED
  BY <1>3, <1>4

\* An admission is granted only where the semaphore has room.
LEMMA AdmittedHasRoom ==
  ASSUME IInv, NEW open \in OpenCounts, ~BlockedAt(open)
  PROVE  Fifo!Room
<1>1. admitted < effective
  BY GateAssumption DEF IInv, TypeOK, BlockedAt, Blocked
<1>2. Fifo!Cardinality(Inside) = Cardinality(Inside)
  BY DEF Cardinality, Fifo!Cardinality, IsFiniteSet, Fifo!IsFiniteSet
<1> QED
  BY <1>1, <1>2, InsideCount DEF Fifo!Room

LEMMA InitImplements == Init => Fifo!Init
  BY DEF Init, Fifo!Init, Inside, Holders

LEMMA StepImplements == IInv /\ [Next]_vars => [Fifo!Next]_(Fifo!vars)
<1> SUFFICES ASSUME IInv, [Next]_vars PROVE Fifo!Next \/ UNCHANGED Fifo!vars
  OBVIOUS
<1> USE DEF Fifo!vars
<1>0. TypeOK /\ LineConsistent /\ queue \in Seq(Callers) /\ Distinct(queue)
  BY DEF IInv, TypeOK, LineConsistent, Distinct
<1>r. ASSUME NEW c \in Callers, RemoveTicket(c), UNCHANGED <<Inside, effective>>
      PROVE  Fifo!Next \/ UNCHANGED Fifo!vars
  <2>1. \A i : RemoveAt(queue, i) = Fifo!RemoveAt(queue, i)
    BY DEF RemoveAt, Fifo!RemoveAt
  <2> QED
    BY <1>r, <2>1 DEF RemoveTicket, Fifo!Next, Fifo!GiveUp
<1>1. ASSUME NEW c \in Callers, Enter(c) PROVE Fifo!Next \/ UNCHANGED Fifo!vars
  <2>0. beating' = beating /\ c \notin Inside
    BY <1>1, GateAssumption
    DEF Enter, EnterRefused, EnterAdmitted, EnterQueued, envVars, Inside, Holders
  <2>1. CASE EnterRefused(c)
    BY <1>0, <2>0, <2>1, SameHolders DEF EnterRefused, Inside
  <2>2. CASE EnterAdmitted(c)
    <3>1. Holders' = Holders \cup {c}
      BY <1>0, <2>2, OneMoreHolder DEF EnterAdmitted
    <3>2. Inside' = Inside \cup {c}
      BY <2>0, <3>1 DEF Inside
    <3>3. Fifo!EnterDirectly(c)
      BY <2>0, <2>2, <3>2, AdmittedHasRoom DEF EnterAdmitted, Fifo!EnterDirectly
    <3> QED
      BY <3>3 DEF Fifo!Next
  <2>3. CASE EnterQueued(c)
    <3>1. Inside' = Inside
      BY <1>0, <2>0, <2>3, SameHolders DEF EnterQueued, Inside
    <3>2. c \notin Range(queue)
      BY <1>0, <2>3 DEF LineConsistent, EnterQueued, InLine, Waiting
    <3>3. Fifo!Join(c)
      BY <2>0, <2>3, <3>1, <3>2 DEF EnterQueued, Fifo!Join, Range, Fifo!Range
    <3> QED
      BY <3>3 DEF Fifo!Next
  <2> QED
    BY <1>1, <2>1, <2>2, <2>3 DEF Enter
<1>2. ASSUME NEW c \in Callers, Wake(c) PROVE Fifo!Next \/ UNCHANGED Fifo!vars
  <2>0. beating' = beating
    BY <1>2 DEF Wake, envVars
  <2>1. CASE WakeRefused(c) \/ WakeTimedOut(c)
    <3>1. Inside' = Inside
      BY <1>0, <2>0, <2>1, SameHolders DEF WakeRefused, WakeTimedOut, Waiting, Inside
    <3> QED
      BY <1>r, <2>1, <3>1 DEF WakeRefused, WakeTimedOut
  <2>2. CASE WakeAdmitted(c)
    <3>1. Holders' = Holders \cup {c}
      BY <1>0, <2>2, OneMoreHolder DEF WakeAdmitted, Waiting
    <3>2. Inside' = Inside \cup {c}
      BY <2>0, <3>1 DEF Inside
    <3>3. Fifo!Serve
      BY <2>2, <3>2, AdmittedHasRoom DEF WakeAdmitted, Fifo!Serve
    <3> QED
      BY <3>3 DEF Fifo!Next
  <2> QED
    BY <1>2, <2>1, <2>2 DEF Wake
<1>3. ASSUME NEW c \in Callers, Finish(c) PROVE Fifo!Next \/ UNCHANGED Fifo!vars
  <2>1. Holders' = Holders \ {c} /\ beating' = beating /\ c \in Inside /\ c # Beats
    BY <1>0, <1>3, OneHolderLess, GateAssumption DEF Finish, envVars, Inside, Holders
  <2>2. Inside' = Inside \ {c}
    BY <2>1 DEF Inside
  <2>3. Fifo!Leave(c)
    BY <1>3, <2>1, <2>2 DEF Finish, ReleaseAdmission, Fifo!Leave
  <2> QED
    BY <2>3 DEF Fifo!Next
<1>4. ASSUME NEW c \in Callers, Return(c) PROVE Fifo!Next \/ UNCHANGED Fifo!vars
  BY <1>0, <1>4, SameHolders DEF Return, envVars, Inside
<1>5. CASE Beat
  <2>1. Beats \notin Inside /\ Inside' = Inside \cup {Beats}
    BY <1>5, GateAssumption DEF Beat, Inside, Holders
  <2>2. Fifo!EnterDirectly(Beats)
    BY <1>5, <2>1, AdmittedHasRoom DEF Beat, TryAdmit, Fifo!EnterDirectly
  <2> QED
    BY <2>2 DEF Fifo!Next
<1>6. CASE BeatFinish
  <2>1. Beats \in Inside /\ Inside' = Inside \ {Beats}
    BY <1>6, GateAssumption DEF BeatFinish, Inside, Holders
  <2>2. Fifo!Leave(Beats)
    BY <1>6, <2>1 DEF BeatFinish, ReleaseAdmission, Fifo!Leave
  <2> QED
    BY <2>2 DEF Fifo!Next
<1>7. CASE StopRequest \/ ShutdownRequest \/ RunFails \/ UNCHANGED vars
  BY <1>7
  DEF StopRequest, ShutdownRequest, RunFails, vars, gateVars, envVars, Inside, Holders
<1>8. CASE RunEnds
  <2>1. Inside' = {}
    BY <1>8 DEF RunEnds, Inside, Holders
  <2> QED
    BY <1>8, <2>1 DEF RunEnds, TeardownResets, Fifo!Next, Fifo!Clear
<1>9. CASE RunStarts
  <2>1. Inside = {} /\ Inside' = Inside
    BY <1>9 DEF RunStarts, StartResets, IInv, QuietBetweenRuns, Inside, Holders
  <2> QED
    BY <1>9, <2>1 DEF RunStarts, StartResets, Fifo!Next, Fifo!Dissolve
<1>10. CASE RunSized
  <2>1. Inside = {} /\ Inside' = Inside /\ queue = <<>>
    BY <1>10
    DEF RunSized, SetCeiling, IInv, QuietBetweenRuns, LeftoversSentAway, Inside, Holders
  <2> QED
    BY <1>10, <2>1 DEF RunSized, SetCeiling, Fifo!Next, Fifo!Resize
<1> QED
  BY <1>1, <1>2, <1>3, <1>4, <1>5, <1>6, <1>7, <1>8, <1>9, <1>10 DEF Next

\* The whole gate, with its epochs, wake-ups, resets and descriptor checks, is
\* a FIFO semaphore with the ceiling as its limit: nobody overtakes the line
\* and the ceiling bounds everyone inside.
THEOREM GateImplementsFifo == Spec => ImplementsFifo
<1> QED
  BY InitImplements, StepImplements, Inductive, PTL
  DEF Spec, ImplementsFifo, Fifo!Spec
=============================================================================
