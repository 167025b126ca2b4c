------------------------- MODULE RuntimeCallsProofs -------------------------
(***************************************************************************)
(* Calls, the pending list and the library's books, for any number of      *)
(* calls and clients and whatever clients do: the runtime implements       *)
(* CallService, and the pending list stays bounded.                        *)
(***************************************************************************)
EXTENDS ProxyRuntimeProofs, FiniteSetTheorems, SequenceTheorems

(* A set of places in order: what Without() is built from *)

Rank(kept, i) == Cardinality({j \in kept : j < i})

LEMMA PlacesFinite ==
  ASSUME NEW n \in Nat, NEW kept \in SUBSET (1..n)
  PROVE  IsFiniteSet(kept) /\ Cardinality(kept) \in Nat
<1>1. IsFiniteSet(1..n)
  BY FS_Interval
<1>2. IsFiniteSet(kept)
  BY <1>1, FS_Subset
<1> QED
  BY <1>2, FS_CardinalityType

LEMMA RankGrows ==
  ASSUME NEW n \in Nat, NEW kept \in SUBSET (1..n), NEW i \in kept, NEW k \in kept, i < k
  PROVE  Rank(kept, i) < Rank(kept, k)
<1> DEFINE Below(m) == {j \in kept : j < m}
<1>1. IsFiniteSet(kept)
  BY PlacesFinite
<1>2. IsFiniteSet(Below(i)) /\ IsFiniteSet(Below(k))
  <2>1. Below(i) \in SUBSET kept /\ Below(k) \in SUBSET kept
    OBVIOUS
  <2> QED
    BY <1>1, <2>1, FS_Subset
<1>3. Cardinality(Below(i) \cup {i}) = Cardinality(Below(i)) + 1
  BY <1>2, FS_AddElement
<1>4. Below(i) \cup {i} \in SUBSET Below(k)
  <2>1. \A j \in kept : j \in Int
    OBVIOUS
  <2>2. \A j \in Below(i) \cup {i} : j \in kept /\ j < k
    BY <2>1
  <2> QED
    BY <2>2
<1>5. Cardinality(Below(i) \cup {i}) <= Cardinality(Below(k))
  BY <1>2, <1>4, FS_Subset
<1>6. Cardinality(Below(i)) \in Nat /\ Cardinality(Below(k)) \in Nat
  BY <1>2, FS_CardinalityType
<1> QED
  BY <1>3, <1>5, <1>6 DEF Rank

LEMMA RankInRange ==
  ASSUME NEW n \in Nat, NEW kept \in SUBSET (1..n), NEW i \in kept
  PROVE  Rank(kept, i) + 1 \in 1..Cardinality(kept)
<1> DEFINE Below == {j \in kept : j < i}
<1>1. IsFiniteSet(kept)
  BY PlacesFinite
<1>2. IsFiniteSet(Below)
  <2>1. Below \in SUBSET kept
    OBVIOUS
  <2> QED
    BY <1>1, <2>1, FS_Subset
<1>3. Cardinality(Below \cup {i}) = Cardinality(Below) + 1
  BY <1>2, FS_AddElement
<1>4. Below \cup {i} \in SUBSET kept
  OBVIOUS
<1>5. Cardinality(Below \cup {i}) <= Cardinality(kept)
  BY <1>1, <1>4, FS_Subset
<1>6. Cardinality(Below) \in Nat /\ Cardinality(kept) \in Nat
  BY <1>1, <1>2, FS_CardinalityType
<1> QED
  BY <1>3, <1>5, <1>6 DEF Rank

LEMMA RankType ==
  ASSUME NEW n \in Nat, NEW kept \in SUBSET (1..n), NEW i \in kept
  PROVE  Rank(kept, i) \in Nat
<1>1. {j \in kept : j < i} \in SUBSET kept
  OBVIOUS
<1>2. IsFiniteSet({j \in kept : j < i})
  BY <1>1, PlacesFinite, FS_Subset
<1> QED
  BY <1>2, FS_CardinalityType DEF Rank

LEMMA RankIsOwn ==
  ASSUME NEW n \in Nat, NEW kept \in SUBSET (1..n), NEW i \in kept, NEW k \in kept,
         Rank(kept, i) = Rank(kept, k)
  PROVE  i = k
<1>1. Rank(kept, i) \in Nat
  BY RankType
<1>2. i < k \/ k < i \/ i = k
  OBVIOUS
<1>3. ~(Rank(kept, i) < Rank(kept, k)) /\ ~(Rank(kept, k) < Rank(kept, i))
  BY <1>1
<1> QED
  BY <1>2, <1>3, RankGrows

\* Different places have different ranks, so every rank is somebody's.
LEMMA RankExists ==
  ASSUME NEW n \in Nat, NEW kept \in SUBSET (1..n), NEW m \in 1..Cardinality(kept)
  PROVE  \E i \in kept : Rank(kept, i) = m - 1
<1> DEFINE f == [i \in kept |-> Rank(kept, i) + 1]
<1>1. IsFiniteSet(kept) /\ Cardinality(kept) \in Nat
  BY PlacesFinite
<1>2. \A i \in kept : Rank(kept, i) \in Nat
  BY RankType
<1>3. \A i, k \in kept : f[i] = f[k] => i = k
  <2> SUFFICES ASSUME NEW i \in kept, NEW k \in kept, f[i] = f[k] PROVE i = k
    OBVIOUS
  <2>1. Rank(kept, i) = Rank(kept, k)
    BY <1>2
  <2> QED
    BY <2>1, RankIsOwn
<1>4. f \in Injection(kept, 1..Cardinality(kept))
  BY <1>3, RankInRange DEF Injection, IsInjective
<1>5. IsFiniteSet(1..Cardinality(kept)) /\ Cardinality(1..Cardinality(kept)) = Cardinality(kept)
  BY <1>1, FS_Interval
<1>6. f \in Surjection(kept, 1..Cardinality(kept))
  BY <1>4, <1>5, FS_Injection
<1>7. \E i \in kept : f[i] = m
  BY <1>6 DEF Surjection
<1> QED
  BY <1>2, <1>7

-----------------------------------------------------------------------------
(* What Without() leaves of the pending list *)

\* The places that stay, in order: as many entries as places, each of them the
\* entry of its own place.
LEMMA WithoutKeeps ==
  ASSUME NEW S, pending \in Seq(S), NEW places
  PROVE  LET kept == DOMAIN pending \ places
             W == Without(places)
         IN  /\ W \in Seq(S)
             /\ Len(W) = Cardinality(kept) /\ Cardinality(kept) \in Nat
             /\ \A i \in kept : \E m \in DOMAIN W : W[m] = pending[i]
             /\ \A m \in DOMAIN W : \E i \in kept :
                  W[m] = pending[i] /\ Rank(kept, i) = m - 1
<1> DEFINE kept == DOMAIN pending \ places
           W == Without(places)
           Nth(m) == CHOOSE i \in kept : Rank(kept, i) = m - 1
<1>1. /\ Len(pending) \in Nat /\ kept \in SUBSET (1..Len(pending))
      /\ \A i \in kept : pending[i] \in S
  OBVIOUS
<1>2. Cardinality(kept) \in Nat
  BY <1>1, PlacesFinite
<1>3. W = [m \in 1..Cardinality(kept) |-> pending[Nth(m)]]
  BY DEF Without, Rank
<1> HIDE DEF kept, W
<1>4. \A m \in 1..Cardinality(kept) : Nth(m) \in kept /\ Rank(kept, Nth(m)) = m - 1
  BY <1>1, RankExists
<1> HIDE DEF Nth
<1>5. W \in Seq(S) /\ Len(W) = Cardinality(kept) /\ DOMAIN W = 1..Cardinality(kept)
  <2>1. W \in [1..Cardinality(kept) -> S]
    BY <1>1, <1>3, <1>4
  <2>2. W \in Seq(S)
    BY <1>2, <2>1, SeqDef
  <2>3. DOMAIN W = 1..Cardinality(kept)
    BY <2>1
  <2>4. Len(W) \in Nat /\ DOMAIN W = 1..Len(W)
    BY <2>2, LenProperties
  <2>5. Len(W) = Cardinality(kept)
    BY <1>2, <2>3, <2>4
  <2> QED
    BY <2>2, <2>3, <2>5
<1>6. ASSUME NEW i \in kept
      PROVE  \E m \in DOMAIN W : W[m] = pending[i]
  <2> DEFINE m == Rank(kept, i) + 1
  <2>1. m \in 1..Cardinality(kept)
    BY <1>1, RankInRange
  <2>2. Nth(m) \in kept /\ Rank(kept, Nth(m)) = m - 1
    BY <1>4, <2>1
  <2>3. Rank(kept, i) \in Nat
    BY <1>1, RankType
  <2>4. Rank(kept, Nth(m)) = Rank(kept, i)
    BY <2>2, <2>3
  <2>5. Nth(m) = i
    BY <1>1, <2>2, <2>4, RankIsOwn
  <2> QED
    BY <1>3, <1>5, <2>1, <2>5
<1>7. \A m \in DOMAIN W : \E i \in kept : W[m] = pending[i] /\ Rank(kept, i) = m - 1
  BY <1>3, <1>4, <1>5
<1> QED
  BY <1>2, <1>5, <1>6, <1>7 DEF kept, W

-----------------------------------------------------------------------------
(* The books: who is where, what the library owes, what the list holds *)

Asked == {"waiting", "ok", "failed"}

CallPlaces == {"idle", "entering", "inLine", "reserved", "aborting"} \cup Asked

Entries == Calls \cup {Beat, Sync}

\* What the last failAllPending() of a run would have to answer.
Owing(c) == c \in Range(cmdQueue) \/ (c \in lib /\ proxy # "freeing")

LedgerTypes ==
  /\ call \in [Calls -> CallPlaces]
  /\ slot \in [Calls -> {"open", "ok", "error"}]
  /\ cmdQueue \in Seq(Calls)
  /\ pending \in Seq(Entries)
  /\ lib \in SUBSET Entries

\* Nothing is handed to the library twice, nor queued again.
Once ==
  /\ \A i, j \in DOMAIN cmdQueue : cmdQueue[i] = cmdQueue[j] => i = j
  /\ \A i \in DOMAIN cmdQueue : cmdQueue[i] \notin lib
  /\ \A i, j \in DOMAIN pending :
       pending[i] = pending[j] /\ pending[i] \in Calls => i = j
  /\ Beat \in lib => beatInFlight
  /\ Sync \in lib => syncPhase \in {"Eth", "Op"}

\* A slot is in the list until it is answered, and answered before it is let go.
Answerable ==
  \A c \in Calls :
    /\ c \in lib \cup Range(cmdQueue) \cup Range(pending) \/ slot[c] # "open" =>
         call[c] \in Asked
    /\ Owing(c) <=> c \in Range(pending) /\ slot[c] = "open"
    /\ call[c] = "waiting" /\ slot[c] = "open" => c \in Range(pending)

Ledger == LedgerTypes /\ Once /\ Answerable

LEMMA InitLedger == Init => Ledger
<1> SUFFICES ASSUME Init PROVE Ledger
  OBVIOUS
<1>1. LedgerTypes
  BY DEF Init, LedgerTypes, CallPlaces
<1>2. Once
  BY DEF Init, Once
<1>3. Answerable
  BY DEF Init, Answerable, Owing, Range
<1> QED
  BY <1>1, <1>2, <1>3 DEF Ledger

\* Pruning takes expired entries only, and keeps the rest in order.
LEMMA PrunedKeeps ==
  ASSUME pending \in Seq(Entries)
  PROVE  /\ Pruned \in Seq(Entries)
         /\ \A i \in DOMAIN pending \ Expiring :
              \E m \in DOMAIN Pruned : Pruned[m] = pending[i]
         /\ \A m \in DOMAIN Pruned : \E i \in DOMAIN pending : Pruned[m] = pending[i]
         /\ (\A i, j \in DOMAIN pending :
               pending[i] = pending[j] /\ pending[i] \in Calls => i = j) =>
             \A m, n \in DOMAIN Pruned :
               Pruned[m] = Pruned[n] /\ Pruned[m] \in Calls => m = n
<1>1. PICK places \in SUBSET Expiring : Pruned = Without(places)
  <2>1. ASSUME NEW i \in DOMAIN pending, 1..i \subseteq Expiring
        PROVE  i \in Expiring
    <3>1. i \in 1..Len(pending) /\ Len(pending) \in Nat
      BY LenProperties
    <3>2. i \in 1..i
      BY <3>1
    <3> QED
      BY <2>1, <3>2
  <2>2. ExpiringFront \in SUBSET Expiring
    BY <2>1 DEF ExpiringFront
  <2>3. Pruned = Without(ExpiringFront) \/ Pruned = Without(Expiring)
    BY Zenon DEF Pruned
  <2>4. Expiring \in SUBSET Expiring
    OBVIOUS
  <2> QED
    BY <2>2, <2>3, <2>4
<1> DEFINE kept == DOMAIN pending \ places
           W == Without(places)
<1>2. /\ W \in Seq(Entries)
      /\ \A i \in kept : \E m \in DOMAIN W : W[m] = pending[i]
      /\ \A m \in DOMAIN W : \E i \in kept : W[m] = pending[i] /\ Rank(kept, i) = m - 1
  BY WithoutKeeps
<1>3. DOMAIN W = 1..Len(W) /\ Len(W) \in Nat
  BY <1>2, LenProperties
<1>4. ASSUME \A i, j \in DOMAIN pending :
               pending[i] = pending[j] /\ pending[i] \in Calls => i = j,
             NEW m \in DOMAIN W, NEW n \in DOMAIN W, W[m] = W[n], W[m] \in Calls
      PROVE  m = n
  <2>1. PICK i \in kept : W[m] = pending[i] /\ Rank(kept, i) = m - 1
    BY <1>2
  <2>2. PICK j \in kept : W[n] = pending[j] /\ Rank(kept, j) = n - 1
    BY <1>2
  <2>3. i = j
    BY <1>4, <2>1, <2>2
  <2>4. m \in Int /\ n \in Int
    BY <1>3
  <2>5. m - 1 = n - 1
    BY <2>1, <2>2, <2>3
  <2> QED
    BY <2>4, <2>5
<1> QED
  BY <1>1, <1>2, <1>4

\* A new entry goes to the end, and nobody who may still be answered is lost.
LEMMA RememberKeeps ==
  ASSUME pending \in Seq(Entries), NEW r \in Entries, Remember(r),
         \A i, j \in DOMAIN pending :
           pending[i] = pending[j] /\ pending[i] \in Calls => i = j,
         r \in Calls => r \notin Range(pending)
  PROVE  /\ pending' \in Seq(Entries)
         /\ \A i, j \in DOMAIN pending' :
              pending'[i] = pending'[j] /\ pending'[i] \in Calls => i = j
         /\ r \in Range(pending')
         /\ \A c \in Calls : c \in Range(pending) /\ Held(c) => c \in Range(pending')
         /\ \A c \in Calls : c \in Range(pending') => c = r \/ c \in Range(pending)
<1> DEFINE P == Pruned
<1>1. /\ P \in Seq(Entries)
      /\ \A i \in DOMAIN pending \ Expiring : \E m \in DOMAIN P : P[m] = pending[i]
      /\ \A m \in DOMAIN P : \E i \in DOMAIN pending : P[m] = pending[i]
      /\ \A m, n \in DOMAIN P : P[m] = P[n] /\ P[m] \in Calls => m = n
  BY PrunedKeeps
<1>2. pending' = Append(P, r)
  BY DEF Remember
<1> HIDE DEF P
<1>3. /\ Append(P, r) \in Seq(Entries)
      /\ Len(P) \in Nat /\ DOMAIN P = 1..Len(P)
      /\ DOMAIN Append(P, r) = 1..Len(P) + 1
      /\ \A i \in DOMAIN P : Append(P, r)[i] = P[i]
      /\ Append(P, r)[Len(P) + 1] = r
  BY <1>1
<1>4. \A c \in Calls : c \in Range(pending) /\ Held(c) => c \in Range(P)
  <2> SUFFICES ASSUME NEW c \in Calls, NEW i \in DOMAIN pending, c = pending[i], Held(c)
               PROVE  c \in Range(P)
    BY DEF Range
  <2>1. i \notin Expiring
    <3>1. i \in 1..Len(pending) /\ Len(pending) \in Nat
      BY LenProperties
    <3>2. \A j \in i + 1..Len(pending) : j \in DOMAIN pending /\ j # i
      BY <3>1, LenProperties
    <3> QED
      BY <3>2 DEF Expiring, Expired
  <2> QED
    BY <1>1, <2>1 DEF Range
<1>5. r \in Calls => \A m \in DOMAIN P : P[m] # r
  BY <1>1 DEF Range
<1>6. \A i, j \in DOMAIN pending' :
        pending'[i] = pending'[j] /\ pending'[i] \in Calls => i = j
  BY <1>1, <1>2, <1>3, <1>5
<1>7. \A c \in Calls : c \in Range(P) => c \in Range(pending)
  BY <1>1 DEF Range
<1>8. \A x : x \in Range(pending') <=> x = r \/ x \in Range(P)
  BY <1>2, <1>3 DEF Range
<1> QED
  BY <1>2, <1>3, <1>4, <1>6, <1>7, <1>8

LEMMA LedgerUndisturbed ==
  ASSUME Ledger, UNCHANGED <<call, slot, cmdQueue, pending, lib>>,
         proxy' = "freeing" <=> proxy = "freeing",
         Beat \in lib => beatInFlight', Sync \in lib => syncPhase' \in {"Eth", "Op"}
  PROVE  Ledger'
<1>1. LedgerTypes'
  BY DEF Ledger, LedgerTypes
<1>2. Once'
  BY DEF Ledger, Once
<1>3. Answerable'
  BY DEF Ledger, Answerable, Owing
<1> QED
  BY <1>1, <1>2, <1>3 DEF Ledger

\* A caller may go where it likes, except back out of having asked.
LEMMA LedgerCallMoves ==
  ASSUME Ledger, UNCHANGED <<slot, cmdQueue, pending, lib, proxy, beatInFlight, syncPhase>>,
         NEW c \in Calls, NEW pc \in CallPlaces, CallAt(c, pc), pc # "waiting",
         call[c] \in Asked => pc \in Asked
  PROVE  Ledger'
<1>1. call \in [Calls -> CallPlaces] /\ call' = [call EXCEPT ![c] = pc]
  BY DEF Ledger, LedgerTypes, CallAt
<1>2. /\ call' \in [Calls -> CallPlaces] /\ call'[c] = pc
      /\ \A d \in Calls \ {c} : call'[d] = call[d]
  BY <1>1
<1>3. LedgerTypes'
  BY <1>2 DEF Ledger, LedgerTypes
<1>4. Once'
  BY DEF Ledger, Once
<1>5. Answerable'
  <2> SUFFICES ASSUME NEW d \in Calls
      PROVE  /\ d \in lib \cup Range(cmdQueue) \cup Range(pending) \/ slot[d] # "open" =>
                  call'[d] \in Asked
             /\ Owing(d) <=> d \in Range(pending) /\ slot[d] = "open"
             /\ call'[d] = "waiting" /\ slot[d] = "open" => d \in Range(pending)
    BY DEF Answerable, Owing
  <2> QED
    BY <1>2 DEF Ledger, Answerable
<1> QED
  BY <1>3, <1>4, <1>5 DEF Ledger

LEMMA LedgerCall ==
  ASSUME Ledger, NEW c \in Calls, Caller(c) \/ Impatience(c)
  PROVE  Ledger'
<1>0. UNCHANGED <<lib, proxy, beatInFlight, syncPhase>>
  BY Zenon
  DEF Caller, CallChecks, CallAtGate, CallEnqueues, CallAborts, CallReturns, Impatience,
      CallTimesOutInLine, CallTimesOut, proxyVars, libVars, healthVars, beatVars, syncVars
<1>1. CASE ~CallEnqueues(c)
  <2>1. UNCHANGED <<slot, cmdQueue, pending>>
    BY <1>1, Zenon
    DEF Caller, CallChecks, CallAtGate, CallAborts, CallReturns, Impatience,
        CallTimesOutInLine, CallTimesOut, SlotVars
  <2>2. \E pc \in CallPlaces \ {"waiting"} :
          CallAt(c, pc) /\ (call[c] \in Asked => pc \in Asked)
    <3>1. CASE CallChecks(c) \/ CallAborts(c) \/ CallTimesOutInLine(c)
      <4>1. /\ call[c] \in {"idle", "aborting", "inLine"}
            /\ \E pc \in {"failed", "entering"} : CallAt(c, pc)
        BY <3>1, Zenon DEF CallChecks, CallAborts, CallTimesOutInLine
      <4> QED
        BY <4>1 DEF CallPlaces, Asked
    <3>2. CASE CallAtGate(c)
      <4>1. /\ call[c] \in {"entering", "inLine"}
            /\ \E pc \in {"failed", "reserved", "inLine"} : CallAt(c, pc)
        BY <3>2, Zenon DEF CallAtGate
      <4> QED
        BY <4>1 DEF CallPlaces, Asked
    <3>3. CASE CallReturns(c) \/ CallTimesOut(c)
      BY <3>3 DEF CallReturns, CallTimesOut, CallPlaces, Asked
    <3> QED
      BY <1>1, <3>1, <3>2, <3>3, Zenon DEF Caller, Impatience
  <2> QED
    BY <1>0, <2>1, <2>2, LedgerCallMoves
<1>2. CASE CallEnqueues(c) /\ call' = [call EXCEPT ![c] = "aborting"] /\ UNCHANGED SlotVars
  <2>1. CallAt(c, "aborting") /\ call[c] = "reserved"
    BY <1>2, Zenon DEF CallEnqueues, CallAt
  <2>2. UNCHANGED <<slot, cmdQueue, pending>>
    BY <1>2, Zenon DEF SlotVars
  <2> QED
    BY <1>0, <2>1, <2>2, LedgerCallMoves DEF CallPlaces, Asked
<1>3. CASE /\ call[c] = "reserved" /\ Remember(c)
           /\ cmdQueue' = Append(cmdQueue, c)
           /\ call' = [call EXCEPT ![c] = "waiting"]
           /\ UNCHANGED slot
  <2>1. /\ LedgerTypes /\ Once /\ Answerable
        /\ c \notin lib /\ c \notin Range(cmdQueue) /\ c \notin Range(pending)
        /\ slot[c] = "open"
    BY <1>3 DEF Ledger, Answerable, Asked
  <2>2. /\ pending' \in Seq(Entries)
        /\ \A i, j \in DOMAIN pending' :
             pending'[i] = pending'[j] /\ pending'[i] \in Calls => i = j
        /\ c \in Range(pending')
        /\ \A d \in Calls : d \in Range(pending) /\ Held(d) => d \in Range(pending')
        /\ \A d \in Calls : d \in Range(pending') => d = c \/ d \in Range(pending)
    BY <1>3, <2>1, RememberKeeps DEF LedgerTypes, Once, Entries
  <2>3. /\ cmdQueue' \in Seq(Calls) /\ DOMAIN cmdQueue = 1..Len(cmdQueue)
        /\ Len(cmdQueue) \in Nat /\ DOMAIN cmdQueue' = 1..Len(cmdQueue) + 1
        /\ \A i \in DOMAIN cmdQueue : cmdQueue'[i] = cmdQueue[i]
        /\ cmdQueue'[Len(cmdQueue) + 1] = c
    BY <1>3, <2>1 DEF LedgerTypes
  <2>4. \A d : d \in Range(cmdQueue') <=> d = c \/ d \in Range(cmdQueue)
    BY <2>3 DEF Range
  <2>5. /\ call' \in [Calls -> CallPlaces] /\ call'[c] = "waiting"
        /\ \A d \in Calls \ {c} : call'[d] = call[d]
    BY <1>3, <2>1 DEF LedgerTypes, CallPlaces, Asked
  <2>6. LedgerTypes'
    BY <1>0, <1>3, <2>1, <2>2, <2>3, <2>5 DEF LedgerTypes
  <2>7. Once'
    <3>1. \A i \in DOMAIN cmdQueue : cmdQueue[i] # c
      BY <2>1 DEF Range
    <3>2. \A i, j \in DOMAIN cmdQueue' : cmdQueue'[i] = cmdQueue'[j] => i = j
      BY <2>1, <2>3, <3>1 DEF Once
    <3>3. \A i \in DOMAIN cmdQueue' : cmdQueue'[i] \notin lib
      BY <2>1, <2>3 DEF Once
    <3> QED
      BY <1>0, <2>1, <2>2, <3>2, <3>3 DEF Once
  <2>8. Answerable'
    <3> SUFFICES ASSUME NEW d \in Calls
        PROVE  /\ (d \in lib \cup Range(cmdQueue') \cup Range(pending')
                     \/ slot[d] # "open") => call'[d] \in Asked
               /\ d \in Range(cmdQueue') \/ (d \in lib /\ proxy # "freeing")
                    <=> d \in Range(pending') /\ slot[d] = "open"
               /\ call'[d] = "waiting" /\ slot[d] = "open" => d \in Range(pending')
      BY <1>0, <1>3 DEF Answerable, Owing
    <3>1. CASE d = c
      BY <2>1, <2>2, <2>4, <2>5, <3>1 DEF Asked
    <3>2. CASE d # c
      <4>1. Owing(d) \/ call[d] = "waiting" => Held(d)
        BY DEF Owing, Held
      <4> QED
        BY <2>1, <2>2, <2>4, <2>5, <3>2, <4>1 DEF Answerable, Owing
    <3> QED
      BY <3>1, <3>2
  <2> QED
    BY <2>6, <2>7, <2>8 DEF Ledger
<1> QED
  BY <1>1, <1>2, <1>3, Zenon DEF CallEnqueues, CallAt

\* A beat or a sync goes into the books.
LEMMA LedgerRemembers ==
  ASSUME Ledger, NEW r \in {Beat, Sync}, Remember(r), lib' = lib \cup {r},
         UNCHANGED <<call, slot, cmdQueue>>,
         proxy # "freeing", proxy' # "freeing",
         Beat \in lib' => beatInFlight', Sync \in lib' => syncPhase' \in {"Eth", "Op"}
  PROVE  Ledger'
<1>1. LedgerTypes /\ Once /\ Answerable /\ r \notin Calls /\ r \in Entries
  BY RuntimeAssumption DEF Ledger, Entries
<1>2. /\ pending' \in Seq(Entries)
      /\ \A i, j \in DOMAIN pending' :
           pending'[i] = pending'[j] /\ pending'[i] \in Calls => i = j
      /\ \A d \in Calls : d \in Range(pending) /\ Held(d) => d \in Range(pending')
      /\ \A d \in Calls : d \in Range(pending') => d = r \/ d \in Range(pending)
  BY <1>1, RememberKeeps DEF LedgerTypes, Once
<1>3. LedgerTypes'
  BY <1>1, <1>2 DEF LedgerTypes
<1>4. Once'
  <2>1. \A i \in DOMAIN cmdQueue : cmdQueue[i] \in Calls
    BY <1>1, LenProperties DEF LedgerTypes
  <2> QED
    BY <1>1, <1>2, <2>1 DEF Once
<1>5. Answerable'
  <2> SUFFICES ASSUME NEW d \in Calls
      PROVE  /\ (d \in lib' \cup Range(cmdQueue) \cup Range(pending')
                   \/ slot[d] # "open") => call[d] \in Asked
             /\ d \in Range(cmdQueue) \/ (d \in lib' /\ proxy' # "freeing")
                  <=> d \in Range(pending') /\ slot[d] = "open"
             /\ call[d] = "waiting" /\ slot[d] = "open" => d \in Range(pending')
    BY DEF Answerable, Owing
  <2>1. Owing(d) \/ call[d] = "waiting" => Held(d)
    BY DEF Owing, Held
  <2> QED
    BY <1>1, <1>2, <2>1 DEF Answerable, Owing
<1> QED
  BY <1>3, <1>4, <1>5 DEF Ledger

LEMMA LedgerDispatch ==
  ASSUME Ledger, ProxyDispatches
  PROVE  Ledger'
<1>1. /\ LedgerTypes /\ Once /\ Answerable /\ proxy = "drain" /\ cmdQueue # <<>>
      /\ cmdQueue' = Tail(cmdQueue) /\ lib' = lib \cup {Head(cmdQueue)}
  BY Zenon DEF Ledger, ProxyDispatches, At
<1>2. UNCHANGED <<call, slot, pending, proxy, beatInFlight, syncPhase>>
  BY Zenon DEF ProxyDispatches, healthVars, beatVars, syncVars
<1> DEFINE c == Head(cmdQueue)
<1>3. /\ c \in Calls /\ c = cmdQueue[1] /\ 1 \in DOMAIN cmdQueue
      /\ Tail(cmdQueue) \in Seq(Calls) /\ Len(cmdQueue) \in Nat
      /\ DOMAIN cmdQueue = 1..Len(cmdQueue)
      /\ DOMAIN cmdQueue' = 1..Len(cmdQueue) - 1
      /\ \A i \in DOMAIN cmdQueue' : i + 1 \in DOMAIN cmdQueue
                                     /\ cmdQueue'[i] = cmdQueue[i + 1]
  BY <1>1 DEF LedgerTypes
<1>4. \A i \in DOMAIN cmdQueue' : cmdQueue'[i] # c
  BY <1>1, <1>3 DEF Once
<1>5. \A d : d \in Range(cmdQueue) <=> d = c \/ d \in Range(cmdQueue')
  <2>1. ASSUME NEW d, NEW i \in DOMAIN cmdQueue, d = cmdQueue[i]
        PROVE  d = c \/ \E j \in DOMAIN cmdQueue' : d = cmdQueue'[j]
    <3>1. CASE i = 1
      BY <1>3, <2>1, <3>1
    <3>2. CASE i # 1
      <4>1. i - 1 \in DOMAIN cmdQueue' /\ (i - 1) + 1 = i
        BY <1>3, <3>2
      <4> QED
        BY <1>3, <2>1, <4>1
    <3> QED
      BY <3>1, <3>2
  <2> QED
    BY <1>3, <2>1 DEF Range
<1>6. LedgerTypes'
  BY <1>1, <1>2, <1>3 DEF LedgerTypes, Entries
<1>7. Once'
  <2>1. \A i, j \in DOMAIN cmdQueue' : cmdQueue'[i] = cmdQueue'[j] => i = j
    <3> SUFFICES ASSUME NEW i \in DOMAIN cmdQueue', NEW j \in DOMAIN cmdQueue',
                        cmdQueue'[i] = cmdQueue'[j]
                 PROVE  i = j
      OBVIOUS
    <3>1. i + 1 = j + 1
      BY <1>1, <1>3 DEF Once
    <3> QED
      BY <1>3, <3>1
  <2>2. \A i \in DOMAIN cmdQueue' : cmdQueue'[i] \notin lib'
    BY <1>1, <1>3, <1>4 DEF Once
  <2>3. c # Beat /\ c # Sync
    BY <1>3, RuntimeAssumption
  <2> HIDE DEF c
  <2> QED
    BY <1>1, <1>2, <2>1, <2>2, <2>3 DEF Once, c
<1>8. Answerable'
  BY <1>1, <1>2, <1>5 DEF Answerable, Owing
<1> QED
  BY <1>6, <1>7, <1>8 DEF Ledger

LEMMA LedgerAnswers ==
  ASSUME Ledger, Answers
  PROVE  Ledger'
<1>0. LedgerTypes /\ Once /\ Answerable
  BY DEF Ledger
<1>1. /\ UNCHANGED <<proxy, cmdQueue, pending, call>>
      /\ proxy # "freeing"
  BY DEF Answers, AnswersCall, AnswersBeat, AnswersSync, Answered, InLibrary
<1>2. ASSUME NEW c \in Calls, AnswersCall(c)
      PROVE  Ledger'
  <2>1. /\ c \in lib /\ lib' = lib \ {c}
        /\ \E status \in {"ok", "error"} :
             slot' = [slot EXCEPT ![c] = IF @ = "open" THEN status ELSE @]
        /\ UNCHANGED <<beatInFlight, syncPhase>>
    BY <1>2, Zenon DEF AnswersCall, healthVars, beatVars, syncVars
  <2>2. /\ slot' \in [Calls -> {"open", "ok", "error"}] /\ slot'[c] # "open"
        /\ \A d \in Calls \ {c} : slot'[d] = slot[d]
    BY <1>0, <2>1 DEF LedgerTypes
  <2>3. LedgerTypes' /\ Once'
    BY <1>0, <1>1, <2>1, <2>2 DEF LedgerTypes, Once
  <2>4. Answerable'
    <3>1. c \notin Range(cmdQueue) /\ call[c] \in Asked
      BY <1>0, <2>1 DEF Once, Answerable, Range
    <3> SUFFICES ASSUME NEW d \in Calls
        PROVE  /\ (d \in lib' \cup Range(cmdQueue) \cup Range(pending)
                     \/ slot'[d] # "open") => call[d] \in Asked
               /\ d \in Range(cmdQueue) \/ (d \in lib' /\ proxy # "freeing")
                    <=> d \in Range(pending) /\ slot'[d] = "open"
               /\ call[d] = "waiting" /\ slot'[d] = "open" => d \in Range(pending)
      BY <1>1 DEF Answerable, Owing
    <3> QED
      BY <1>0, <2>1, <2>2, <3>1 DEF Answerable, Owing
  <2> QED
    BY <2>3, <2>4 DEF Ledger
<1>3. ASSUME NEW x \in {Beat, Sync}, lib' = lib \ {x}, UNCHANGED slot,
             Beat \in lib' => beatInFlight', Sync \in lib' => syncPhase' \in {"Eth", "Op"}
      PROVE  Ledger'
  <2>1. x \notin Calls
    BY RuntimeAssumption
  <2>2. LedgerTypes' /\ Once'
    BY <1>0, <1>1, <1>3 DEF LedgerTypes, Once
  <2>3. Answerable'
    <3>1. \A d \in Calls : d \in lib' <=> d \in lib
      BY <1>3, <2>1
    <3> QED
      BY <1>0, <1>1, <1>3, <3>1 DEF Answerable, Owing
  <2> QED
    BY <2>2, <2>3 DEF Ledger
<1>4. CASE AnswersBeat
  <2>1. lib' = lib \ {Beat} /\ UNCHANGED <<slot, syncPhase>>
    BY <1>4, Zenon
    DEF AnswersBeat, Health!NoteHeartbeat, Health!syncVars
  <2> QED
    BY <1>0, <1>3, <2>1 DEF Once
<1>5. CASE AnswersSync
  <2>1. lib' = lib \ {Sync} /\ UNCHANGED <<slot, beatInFlight>>
    BY <1>5, Zenon DEF AnswersSync, Health!NoteSync, Health!beatVars
  <2> QED
    BY <1>0, <1>3, <2>1 DEF Once
<1> QED
  BY <1>2, <1>4, <1>5, Zenon DEF Answers

\* Most of what clients and the proxy thread do leaves the books alone.
LEMMA BooksUntouched ==
  ASSUME \/ \E t \in Clients : Start(t) \/ Stop(t) \/ Destroy(t)
         \/ ProxyExits \/ ProxyFailsToComeUp \/ ProxyFailed \/ ProxyFinishes
         \/ ProxyDrained \/ ProxyReleasesStart \/ ProxyPumped
         \/ ProxyLeaves \/ ProxyBeginsDrain \/ ProxyResetsGate \/ ProxyStops
         \/ Timers
  PROVE  /\ UNCHANGED <<call, slot, cmdQueue, pending, lib, beatInFlight, syncPhase>>
         /\ proxy' = "freeing" <=> proxy = "freeing"
<1> USE DEF callVars, libVars, healthVars, beatVars, syncVars, Health!SetState,
            Health!beatVars, Health!syncVars
<1>1. ASSUME NEW t \in Clients, Start(t)
      PROVE  /\ UNCHANGED <<call, slot, cmdQueue, pending, lib, beatInFlight, syncPhase>>
             /\ proxy' = "freeing" <=> proxy = "freeing"
  <2>1. UNCHANGED <<call, slot, cmdQueue, pending, lib, beatInFlight, syncPhase>>
    BY <1>1, Zenon
    DEF Start, StartChecks, StartResets, StartSizes, StartSpawns, StartPosts, StartReturns
  <2>2. UNCHANGED proxy \/ proxy' = IF proxy = "none" THEN "parked" ELSE proxy
    BY <1>1, Zenon
    DEF Start, StartChecks, StartResets, StartSizes, StartSpawns, StartPosts, StartReturns
  <2> QED
    BY <2>1, <2>2
<1>2. ASSUME NEW t \in Clients, Stop(t) \/ Destroy(t)
      PROVE  UNCHANGED <<call, slot, cmdQueue, pending, lib, beatInFlight, syncPhase,
                         proxy>>
  BY <1>2, Zenon
  DEF Stop, StopChecks, StopRequests, StopReturns, ClientGoesOn, Destroy, DestroyChecks,
      DestroyShutsDown, DestroyJoins
<1>3. CASE \/ ProxyExits \/ ProxyFailsToComeUp \/ ProxyFailed \/ ProxyFinishes
           \/ ProxyDrained \/ ProxyReleasesStart \/ ProxyPumped
           \/ ProxyLeaves \/ ProxyBeginsDrain \/ ProxyResetsGate \/ ProxyStops
  <2>1. UNCHANGED <<call, slot, cmdQueue, pending, lib, beatInFlight, syncPhase>>
    BY <1>3, Zenon
    DEF ProxyExits, ProxyFailsToComeUp, ProxyFailed, ProxyFinishes, ProxyDrained,
        ProxyReleasesStart, ProxyPumped, ProxyLeaves, ProxyBeginsDrain, ProxyResetsGate,
        ProxyStops, Health!AbandonStart
  <2>2. proxy # "freeing" /\ proxy' # "freeing"
    BY <1>3
    DEF ProxyExits, ProxyFailsToComeUp, ProxyFailed, ProxyFinishes, ProxyDrained,
        ProxyReleasesStart, ProxyPumped, ProxyLeaves, ProxyBeginsDrain, ProxyResetsGate,
        ProxyStops, At, Onto
  <2> QED
    BY <2>1, <2>2
<1>4. CASE Timers
  BY <1>4, Zenon DEF Timers, Health!SyncTimer, Health!BeatTimer
<1> QED
  BY <1>1, <1>2, <1>3, <1>4, Zenon

LEMMA LedgerEnds ==
  ASSUME Ledger, ProxyFailsPending \/ ProxyFrees
  PROVE  Ledger'
<1>0. LedgerTypes /\ Once /\ Answerable
  BY DEF Ledger
<1>1. CASE ProxyFailsPending
  <2>1. /\ UNCHANGED <<call, lib, beatInFlight, syncPhase>>
        /\ proxy' = "freeing" /\ pending' = <<>> /\ cmdQueue' = <<>>
    BY <1>1, Zenon
    DEF ProxyFailsPending, Onto, libVars, healthVars, beatVars, syncVars
  <2>2. slot' = [c \in Calls |-> IF c \in Range(pending) /\ slot[c] = "open"
                                 THEN "error" ELSE slot[c]]
    BY <1>1, Zenon DEF ProxyFailsPending
  <2>3. LedgerTypes' /\ Once'
    BY <1>0, <2>1, <2>2 DEF LedgerTypes, Once
  <2>4. Range(pending') = {} /\ Range(cmdQueue') = {}
    BY <2>1 DEF Range
  <2>5. Answerable'
    BY <1>0, <2>1, <2>2, <2>4 DEF Answerable, Owing
  <2> QED
    BY <2>3, <2>5 DEF Ledger
<1>2. CASE ProxyFrees
  <2>1. /\ UNCHANGED <<call, slot, cmdQueue, pending, beatInFlight, syncPhase>>
        /\ proxy = "freeing" /\ proxy' = "freed" /\ lib' = {}
    BY <1>2, Zenon
    DEF ProxyFrees, At, Onto, callVars, healthVars, beatVars, syncVars
  <2>2. LedgerTypes' /\ Once'
    BY <1>0, <2>1 DEF LedgerTypes, Once
  <2>3. Answerable'
    BY <1>0, <2>1 DEF Answerable, Owing
  <2> QED
    BY <2>2, <2>3 DEF Ledger
<1> QED
  BY <1>1, <1>2

LEMMA LedgerAdvances ==
  ASSUME Ledger, ProxyAdvances
  PROVE  Ledger'
<1>0. Once
  BY DEF Ledger
<1>1. UNCHANGED <<call, slot, cmdQueue>> /\ proxy # "freeing" /\ proxy' # "freeing"
  <2>1. UNCHANGED <<call, slot, cmdQueue>> /\ proxy = "turn"
        /\ (proxy' = "beat" \/ proxy' = "release")
    BY Zenon DEF ProxyAdvances, At, Onto
  <2> QED
    BY <2>1
<1>2. CASE /\ Health!IssueEth \/ Health!IssueOp
           /\ lib' = lib \cup {Sync}
           /\ Remember(Sync)
  <2>1. UNCHANGED beatInFlight /\ syncPhase' \in {"Eth", "Op"}
    BY <1>2, Zenon DEF Health!IssueEth, Health!IssueOp, Health!beatVars
  <2>2. Beat \in lib' => Beat \in lib
    BY <1>2 DEF Beat, Sync
  <2> QED
    BY <1>0, <1>1, <1>2, <2>1, <2>2, LedgerRemembers DEF Once
<1>3. CASE /\ Health!FinishGood \/ Health!FinishBad \/ Health!SyncWaits
           /\ UNCHANGED <<libVars, pending>>
  <2>1. UNCHANGED <<lib, pending, beatInFlight>>
    BY <1>3, Zenon
    DEF Health!FinishGood, Health!FinishBad, Health!SyncWaits, Health!healthVars,
        Health!beatVars, libVars
  <2>2. syncPhase \in {"EthDone", "OpDone"} \/ UNCHANGED syncPhase
    BY <1>3, Zenon
    DEF Health!FinishGood, Health!FinishBad, Health!SyncWaits, Health!CycleOver,
        Health!healthVars, Health!syncVars
  <2> QED
    BY <1>0, <1>1, <2>1, <2>2, LedgerUndisturbed DEF Once
<1> QED
  BY <1>2, <1>3, Zenon DEF ProxyAdvances

LEMMA LedgerBeats ==
  ASSUME Ledger, ProxyBeats
  PROVE  Ledger'
<1>0. Once
  BY DEF Ledger
<1>1. UNCHANGED <<call, slot, cmdQueue>> /\ proxy # "freeing" /\ proxy' # "freeing"
  <2>1. UNCHANGED <<call, slot, cmdQueue>> /\ proxy = "beat" /\ proxy' = "pump"
    BY Zenon DEF ProxyBeats, At, Onto
  <2> QED
    BY <2>1
<1>2. CASE /\ Health!IssueBeat /\ lib' = lib \cup {Beat} /\ Remember(Beat)
  <2>1. beatInFlight' /\ UNCHANGED syncPhase
    BY <1>2, Zenon DEF Health!IssueBeat, Health!syncVars
  <2>2. Sync \in lib' => Sync \in lib
    BY <1>2 DEF Beat, Sync
  <2> QED
    BY <1>0, <1>1, <1>2, <2>1, <2>2, LedgerRemembers DEF Once
<1>3. CASE /\ Health!SkipBeat \/ UNCHANGED healthVars
           /\ UNCHANGED <<libVars, pending>>
  <2>1. UNCHANGED <<lib, pending, beatInFlight, syncPhase>>
    BY <1>3, Zenon
    DEF Health!SkipBeat, Health!beatVars, Health!syncVars, libVars, healthVars,
        beatVars, syncVars
  <2> QED
    BY <1>0, <1>1, <2>1, LedgerUndisturbed DEF Once
<1> QED
  BY <1>2, <1>3, Zenon DEF ProxyBeats

LEMMA StepLedger == RunShape /\ Ledger /\ [Next]_vars => Ledger'
<1> SUFFICES ASSUME RunShape, Ledger, [Next]_vars PROVE Ledger'
  OBVIOUS
<1>0. Once
  BY DEF Ledger
<1>1. CASE /\ UNCHANGED <<call, slot, cmdQueue, pending, lib, beatInFlight, syncPhase>>
           /\ proxy' = "freeing" <=> proxy = "freeing"
  BY <1>0, <1>1, LedgerUndisturbed DEF Once
<1>2. CASE ProxyTakesRun
  <2>1. /\ UNCHANGED <<call, slot, cmdQueue, pending, lib>>
        /\ proxy = "parked" /\ proxy' = "prologue"
    BY <1>2, Zenon DEF ProxyTakesRun, At, Onto, callVars, libVars
  <2>2. lib = {}
    BY <2>1 DEF RunShape, Up, Pumping
  <2> QED
    BY <2>1, <2>2, LedgerUndisturbed
<1>3. CASE ProxyComesUp
  <2>1. /\ UNCHANGED <<call, slot, cmdQueue, pending, lib>>
        /\ proxy = "prologue" /\ proxy' = "drain"
    BY <1>3, Zenon DEF ProxyComesUp, At, Onto, callVars, libVars
  <2>2. lib = {}
    BY <2>1 DEF RunShape, Up, Pumping
  <2> QED
    BY <2>1, <2>2, LedgerUndisturbed
<1>4. CASE UNCHANGED vars
  BY <1>4, <1>1, Zenon
  DEF vars, callVars, libVars, healthVars, beatVars, syncVars
<1> QED
  BY <1>1, <1>2, <1>3, <1>4, BooksUntouched, LedgerCall, LedgerDispatch, LedgerAnswers,
     LedgerEnds, LedgerAdvances, LedgerBeats, Zenon
  DEF Next, Proxy

-----------------------------------------------------------------------------
(* The runtime implements CallService *)

Promised == <<CallerAt, WorkAt, slot>>

\* Work stays where it is as long as no call enters or leaves the queue or the
\* library, and no run gives up what it has not answered.
LEMMA WorkStays ==
  ASSUME UNCHANGED cmdQueue, \A c \in Calls : c \in lib' <=> c \in lib,
         proxy' = "freeing" <=> proxy = "freeing"
  PROVE  UNCHANGED WorkAt
  BY DEF WorkAt

LEMMA CallerStays == ASSUME UNCHANGED call PROVE UNCHANGED CallerAt
  BY DEF CallerAt

LEMMA CallerMoves ==
  ASSUME call \in [Calls -> CallPlaces], NEW c \in Calls, NEW pc \in CallPlaces,
         CallAt(c, pc)
  PROVE  CallerAt' = [CallerAt EXCEPT ![c] =
                        IF pc \in {"entering", "inLine", "reserved", "aborting"}
                        THEN "asking" ELSE pc]
  BY DEF CallAt, CallerAt

LEMMA InitService == Init => Service!Init
  BY DEF Init, Service!Init, CallerAt, WorkAt, Range

LEMMA ServiceCall ==
  ASSUME Ledger, NEW c \in Calls, Caller(c) \/ Impatience(c)
  PROVE  [Service!Next]_Promised
<1>0. LedgerTypes /\ Once /\ Answerable
  BY DEF Ledger
<1>1. UNCHANGED <<lib, proxy>>
  BY Zenon
  DEF Caller, CallChecks, CallAtGate, CallEnqueues, CallAborts, CallReturns, Impatience,
      CallTimesOutInLine, CallTimesOut, proxyVars, libVars
<1>2. ASSUME NEW pc \in CallPlaces, CallAt(c, pc), UNCHANGED <<slot, cmdQueue>>,
             call[c] \in CallPlaces \ Asked, pc \in CallPlaces \ {"waiting", "ok", "idle"},
             call[c] = "idle" => pc \in {"entering", "failed"}
      PROVE  [Service!Next]_Promised
  <2>1. UNCHANGED WorkAt
    BY <1>1, <1>2, WorkStays
  <2>2. CallerAt' = [CallerAt EXCEPT ![c] =
                       IF pc \in {"entering", "inLine", "reserved", "aborting"}
                       THEN "asking" ELSE pc]
    BY <1>0, <1>2, CallerMoves DEF LedgerTypes
  <2>3. CASE pc = "failed"
    <3>1. CallerAt[c] \in {"idle", "asking"}
      BY <1>2 DEF CallerAt, CallPlaces, Asked
    <3>2. Service!Refuse(c)
      BY <1>2, <2>1, <2>2, <2>3, <3>1 DEF Service!Refuse, Service!Tell
    <3> QED
      BY <3>2 DEF Service!Next
  <2>4. CASE pc # "failed" /\ call[c] = "idle"
    <3>1. CallerAt[c] = "idle"
      BY <2>4 DEF CallerAt
    <3>2. Service!Ask(c)
      BY <1>2, <2>1, <2>2, <2>4, <3>1 DEF Service!Ask, Service!Tell
    <3> QED
      BY <3>2 DEF Service!Next
  <2>5. CASE pc # "failed" /\ call[c] # "idle"
    <3>1. CallerAt[c] = "asking" /\ CallerAt'[c] = "asking" /\ pc # "idle"
      BY <1>2, <2>2, <2>5 DEF CallerAt, CallPlaces, Asked
    <3>2. CallerAt' = CallerAt
      BY <2>2, <3>1 DEF CallerAt
    <3> QED
      BY <1>2, <2>1, <3>2 DEF Promised
  <2> QED
    BY <2>3, <2>4, <2>5
<1>3. CASE CallChecks(c) \/ CallAtGate(c) \/ CallAborts(c) \/ CallTimesOutInLine(c)
  <2>1. UNCHANGED <<slot, cmdQueue>>
    BY <1>3, Zenon
    DEF CallChecks, CallAtGate, CallAborts, CallTimesOutInLine, SlotVars
  <2>2. \/ call[c] = "idle" /\ \E pc \in {"entering", "failed"} : CallAt(c, pc)
        \/ /\ call[c] \in {"entering", "inLine", "aborting"}
           /\ \E pc \in {"failed", "reserved", "inLine"} : CallAt(c, pc)
    BY <1>3, Zenon DEF CallChecks, CallAtGate, CallAborts, CallTimesOutInLine
  <2> QED
    BY <1>2, <2>1, <2>2 DEF CallPlaces, Asked
<1>4. CASE CallEnqueues(c) /\ CallAt(c, "aborting")
  <2>1. call[c] = "reserved" /\ UNCHANGED <<slot, cmdQueue>>
    <3>1. ~(call' = [call EXCEPT ![c] = "waiting"])
      BY <1>0, <1>4 DEF CallAt, LedgerTypes
    <3> QED
      BY <1>4, <3>1, Zenon DEF CallEnqueues, CallAt, SlotVars
  <2> QED
    BY <1>2, <1>4, <2>1 DEF CallPlaces, Asked
<1>5. CASE /\ call[c] = "reserved" /\ CallAt(c, "waiting")
           /\ cmdQueue' = Append(cmdQueue, c) /\ UNCHANGED slot
  <2>1. CallerAt[c] = "asking" /\ CallerAt' = [CallerAt EXCEPT ![c] = "waiting"]
    BY <1>0, <1>5, CallerMoves DEF CallerAt, LedgerTypes, CallPlaces, Asked
  <2>2. /\ DOMAIN cmdQueue = 1..Len(cmdQueue)
        /\ Len(cmdQueue) \in Nat /\ DOMAIN cmdQueue' = 1..Len(cmdQueue) + 1
        /\ \A i \in DOMAIN cmdQueue : cmdQueue'[i] = cmdQueue[i]
        /\ cmdQueue'[Len(cmdQueue) + 1] = c
    BY <1>0, <1>5 DEF LedgerTypes
  <2>3. \A d : d \in Range(cmdQueue') <=> d = c \/ d \in Range(cmdQueue)
    BY <2>2 DEF Range
  <2>4. WorkAt' = [WorkAt EXCEPT ![c] = "queued"]
    BY <1>1, <2>3 DEF WorkAt
  <2>5. Service!Submit(c)
    BY <1>5, <2>1, <2>4 DEF Service!Submit, Service!Tell
  <2> QED
    BY <2>5 DEF Service!Next
<1>6. CASE CallReturns(c) \/ CallTimesOut(c)
  <2>1. UNCHANGED <<slot, cmdQueue>> /\ call[c] = "waiting" /\ CallerAt[c] = "waiting"
    <3>1. UNCHANGED <<slot, cmdQueue>> /\ call[c] = "waiting"
      BY <1>6, Zenon DEF CallReturns, CallTimesOut, SlotVars
    <3> QED
      BY <3>1 DEF CallerAt
  <2>2. UNCHANGED WorkAt
    BY <1>1, <2>1, WorkStays
  <2>3. CASE CallReturns(c)
    <3> DEFINE told == IF slot[c] = "ok" THEN "ok" ELSE "failed"
    <3>1. CallAt(c, told) /\ slot[c] # "open" /\ told \in {"ok", "failed"}
      BY <2>3 DEF CallReturns
    <3> HIDE DEF told
    <3>2. CallerAt' = [CallerAt EXCEPT ![c] = told]
      BY <1>0, <3>1, CallerMoves DEF LedgerTypes, CallPlaces, Asked
    <3>3. Service!Return(c)
      BY <2>1, <2>2, <3>1, <3>2 DEF Service!Return, Service!Tell, told
    <3> QED
      BY <3>3 DEF Service!Next
  <2>4. CASE CallTimesOut(c)
    <3>1. CallAt(c, "failed") /\ slot[c] = "open"
      BY <2>4, Zenon DEF CallTimesOut
    <3>2. CallerAt' = [CallerAt EXCEPT ![c] = "failed"]
      BY <1>0, <3>1, CallerMoves DEF LedgerTypes, CallPlaces, Asked
    <3>3. Service!GiveUp(c)
      BY <2>1, <2>2, <3>1, <3>2 DEF Service!GiveUp, Service!Tell
    <3> QED
      BY <3>3 DEF Service!Next
  <2> QED
    BY <1>6, <2>3, <2>4
<1> QED
  BY <1>3, <1>4, <1>5, <1>6, Zenon DEF Caller, Impatience, CallEnqueues

LEMMA ServiceDispatch ==
  ASSUME Ledger, ProxyDispatches
  PROVE  [Service!Next]_Promised
<1>1. /\ LedgerTypes /\ Once /\ proxy = "drain" /\ cmdQueue # <<>>
      /\ cmdQueue' = Tail(cmdQueue) /\ lib' = lib \cup {Head(cmdQueue)}
      /\ UNCHANGED <<call, slot, proxy>>
  BY Zenon DEF Ledger, ProxyDispatches, At
<1> DEFINE c == Head(cmdQueue)
<1>2. /\ c \in Calls /\ c = cmdQueue[1] /\ 1 \in DOMAIN cmdQueue
      /\ Len(cmdQueue) \in Nat /\ DOMAIN cmdQueue = 1..Len(cmdQueue)
      /\ DOMAIN cmdQueue' = 1..Len(cmdQueue) - 1
      /\ \A i \in DOMAIN cmdQueue' : i + 1 \in DOMAIN cmdQueue
                                     /\ cmdQueue'[i] = cmdQueue[i + 1]
  BY <1>1 DEF LedgerTypes
<1>3. \A i \in DOMAIN cmdQueue' : cmdQueue'[i] # c
  BY <1>1, <1>2 DEF Once
<1>4. \A d : d \in Range(cmdQueue') <=> d # c /\ d \in Range(cmdQueue)
  <2>1. ASSUME NEW i \in DOMAIN cmdQueue, cmdQueue[i] # c
        PROVE  cmdQueue[i] \in Range(cmdQueue')
    <3>1. i - 1 \in DOMAIN cmdQueue' /\ (i - 1) + 1 = i
      BY <1>2, <2>1
    <3>2. cmdQueue'[i - 1] = cmdQueue[i]
      BY <1>2, <3>1
    <3> QED
      BY <3>1, <3>2 DEF Range
  <2>2. \A d : d \in Range(cmdQueue') => d # c /\ d \in Range(cmdQueue)
    BY <1>2, <1>3 DEF Range
  <2> QED
    BY <2>1, <2>2 DEF Range
<1>5. c \in Range(cmdQueue)
  BY <1>2 DEF Range
<1> HIDE DEF c
<1>6. WorkAt[c] = "queued" /\ WorkAt' = [WorkAt EXCEPT ![c] = "library"]
  BY <1>1, <1>2, <1>4, <1>5 DEF WorkAt, c
<1>7. UNCHANGED CallerAt
  BY <1>1, CallerStays
<1>8. Service!Dispatch(c)
  BY <1>1, <1>6, <1>7 DEF Service!Dispatch
<1> QED
  BY <1>2, <1>8 DEF Service!Next

LEMMA ServiceAnswers ==
  ASSUME Ledger, Answers
  PROVE  [Service!Next]_Promised
<1>0. LedgerTypes /\ Once /\ Answerable
  BY DEF Ledger
<1>1. UNCHANGED <<proxy, cmdQueue, call>> /\ proxy # "freeing"
  BY DEF Answers, AnswersCall, AnswersBeat, AnswersSync, Answered, InLibrary
<1>2. UNCHANGED CallerAt
  BY <1>1, CallerStays
<1>3. ASSUME NEW c \in Calls, AnswersCall(c)
      PROVE  Service!Answer(c)
  <2>1. PICK status \in {"ok", "error"} :
          slot' = [slot EXCEPT ![c] = IF @ = "open" THEN status ELSE @]
    BY <1>3, Zenon DEF AnswersCall
  <2>2. c \in lib /\ lib' = lib \ {c}
    BY <1>3, Zenon DEF AnswersCall
  <2>3. c \notin Range(cmdQueue) /\ slot[c] = "open"
    BY <1>0, <1>1, <2>2 DEF Once, Answerable, Owing, Range
  <2>4. slot' = [slot EXCEPT ![c] = status]
    BY <1>0, <2>1, <2>3 DEF LedgerTypes
  <2>5. WorkAt[c] = "library" /\ WorkAt' = [WorkAt EXCEPT ![c] = "none"]
    BY <1>1, <2>2, <2>3 DEF WorkAt
  <2> QED
    BY <1>2, <2>4, <2>5 DEF Service!Answer
<1>4. ASSUME NEW r \in {Beat, Sync}, lib' = lib \ {r}, UNCHANGED slot
      PROVE  UNCHANGED Promised
  <2>1. \A c \in Calls : c \in lib' <=> c \in lib
    BY <1>4, RuntimeAssumption
  <2>2. UNCHANGED WorkAt
    BY <1>1, <2>1, WorkStays
  <2> QED
    BY <1>2, <1>4, <2>2 DEF Promised
<1>5. AnswersBeat => lib' = lib \ {Beat} /\ UNCHANGED slot
  BY Zenon DEF AnswersBeat
<1>6. AnswersSync => lib' = lib \ {Sync} /\ UNCHANGED slot
  BY Zenon DEF AnswersSync
<1>7. (\E c \in Calls : Service!Answer(c)) => Service!Next
  BY DEF Service!Next
<1> QED
  BY <1>3, <1>4, <1>5, <1>6, <1>7, Zenon DEF Answers

\* failAllPending() finds everybody the run still owes an answer.
LEMMA ServiceEnds ==
  ASSUME Ledger, ProxyFailsPending
  PROVE  Service!CancelAll
<1>0. LedgerTypes /\ Once /\ Answerable
  BY DEF Ledger
<1>1. /\ UNCHANGED call
      /\ proxy = "draining" /\ proxy' = "freeing" /\ cmdQueue' = <<>>
      /\ slot' = [c \in Calls |-> IF c \in Range(pending) /\ slot[c] = "open"
                                 THEN "error" ELSE slot[c]]
  BY Zenon DEF ProxyFailsPending, At, Onto
<1>2. \A c \in Calls : WorkAt[c] # "none" <=> c \in Range(pending) /\ slot[c] = "open"
  <2> SUFFICES ASSUME NEW c \in Calls
               PROVE  WorkAt[c] # "none" <=> c \in Range(pending) /\ slot[c] = "open"
    OBVIOUS
  <2>1. WorkAt[c] # "none" <=> Owing(c)
    BY DEF WorkAt, Owing
  <2>2. Owing(c) <=> c \in Range(pending) /\ slot[c] = "open"
    BY <1>0 DEF Answerable
  <2> QED
    BY <2>1, <2>2
<1>3. slot' = [c \in Calls |-> IF WorkAt[c] # "none" THEN "error" ELSE slot[c]]
  BY <1>1, <1>2
<1>4. Range(cmdQueue') = {}
  BY <1>1 DEF Range
<1>5. WorkAt' = [c \in Calls |-> "none"]
  BY <1>1, <1>4 DEF WorkAt
<1>6. UNCHANGED CallerAt
  BY <1>1, CallerStays
<1> QED
  BY <1>3, <1>5, <1>6 DEF Service!CancelAll

LEMMA ServiceRests ==
  ASSUME UNCHANGED <<call, slot, cmdQueue>>, \A c \in Calls : c \in lib' <=> c \in lib,
         proxy' = "freeing" <=> proxy = "freeing"
  PROVE  UNCHANGED Promised
BY WorkStays, CallerStays DEF Promised

LEMMA ServiceStep ==
  ASSUME Ledger, [Next]_vars
  PROVE  [Service!Next]_Promised
<1>1. CASE \/ \E t \in Clients : Start(t) \/ Stop(t) \/ Destroy(t)
           \/ ProxyExits \/ ProxyFailsToComeUp \/ ProxyFailed \/ ProxyFinishes
           \/ ProxyDrained \/ ProxyReleasesStart \/ ProxyPumped
           \/ ProxyLeaves \/ ProxyBeginsDrain \/ ProxyResetsGate \/ ProxyStops
           \/ Timers
  BY <1>1, BooksUntouched, ServiceRests
<1>2. CASE ProxyTakesRun \/ ProxyComesUp
  <2>1. UNCHANGED <<call, slot, cmdQueue, lib>>
    BY <1>2, Zenon DEF ProxyTakesRun, ProxyComesUp, callVars, libVars
  <2>2. proxy # "freeing" /\ proxy' # "freeing"
    BY <1>2 DEF ProxyTakesRun, ProxyComesUp, At, Onto
  <2> QED
    BY <2>1, <2>2, ServiceRests
<1>3. CASE ProxyAdvances \/ ProxyBeats
  <2>1. UNCHANGED <<call, slot, cmdQueue>>
    BY <1>3, Zenon DEF ProxyAdvances, ProxyBeats
  <2>2. lib' = lib \cup {Sync} \/ lib' = lib \cup {Beat} \/ UNCHANGED lib
    BY <1>3, Zenon DEF ProxyAdvances, ProxyBeats, libVars
  <2>3. \A c \in Calls : c \in lib' <=> c \in lib
    BY <2>2, RuntimeAssumption
  <2>4. proxy # "freeing" /\ proxy' # "freeing"
    <3>1. /\ proxy = "turn" \/ proxy = "beat"
          /\ proxy' = "beat" \/ proxy' = "release" \/ proxy' = "pump"
      BY <1>3, Zenon DEF ProxyAdvances, ProxyBeats, At, Onto
    <3> QED
      BY <3>1
  <2> QED
    BY <2>1, <2>3, <2>4, ServiceRests
<1>4. CASE ProxyFrees
  <2>1. /\ UNCHANGED <<call, slot, cmdQueue>>
        /\ proxy = "freeing" /\ proxy' = "freed" /\ lib' = {}
    BY <1>4, Zenon DEF ProxyFrees, At, Onto, callVars
  <2>2. UNCHANGED WorkAt
    BY <2>1 DEF WorkAt
  <2> QED
    BY <2>1, <2>2, CallerStays DEF Promised
<1>5. CASE UNCHANGED vars
  BY <1>5, ServiceRests DEF vars, callVars, libVars
<1>6. ProxyFailsPending => Service!Next
  BY ServiceEnds DEF Service!Next
<1> QED
  BY <1>1, <1>2, <1>3, <1>4, <1>5, <1>6, ServiceCall, ServiceDispatch, ServiceAnswers,
     Zenon
  DEF Next, Proxy

\* The runtime implements CallService, whatever its clients do: a call reaches
\* the library at most once, has one verdict that its caller is given, and a
\* run that ends answers whatever it still holds.
THEOREM RuntimeKeepsPromise == Spec => ImplementsCallService
<1>1. Init => RunShape /\ Ledger /\ Service!Init
  BY InitRunShape, InitLedger, InitService
<1>2. RunShape /\ Ledger /\ [Next]_vars => (RunShape /\ Ledger)' /\ [Service!Next]_Promised
  BY StepRunShape, StepLedger, ServiceStep
<1>3. [Service!Next]_Promised <=> [Service!Next]_(Service!vars)
  BY DEF Promised, Service!vars
<1> QED
  BY <1>1, <1>2, <1>3, PTL DEF Spec, ImplementsCallService, Service!Spec

-----------------------------------------------------------------------------
(* The in-flight count *)

Counted == inFlight = Cardinality(lib)

LEMMA BooksFinite ==
  /\ IsFiniteSet(Entries) /\ Cardinality(Calls) \in Nat
  /\ \A r \in Entries : Cardinality(Entries \ {r}) = Cardinality(Calls) + 1
<1>1. IsFiniteSet(Calls) /\ Beat \notin Calls /\ Sync \notin Calls /\ Beat # Sync
  BY RuntimeAssumption DEF Beat, Sync
<1>2. Cardinality(Calls) \in Nat
  BY <1>1, FS_CardinalityType
<1>3. /\ IsFiniteSet(Calls \cup {Beat})
      /\ Cardinality(Calls \cup {Beat}) = Cardinality(Calls) + 1
  BY <1>1, FS_AddElement
<1>4. /\ IsFiniteSet((Calls \cup {Beat}) \cup {Sync})
      /\ Cardinality((Calls \cup {Beat}) \cup {Sync}) = Cardinality(Calls) + 2
  <2>1. Sync \notin Calls \cup {Beat}
    BY <1>1
  <2>2. /\ IsFiniteSet((Calls \cup {Beat}) \cup {Sync})
        /\ Cardinality((Calls \cup {Beat}) \cup {Sync})
             = Cardinality(Calls \cup {Beat}) + 1
    BY <1>3, <2>1, FS_AddElement
  <2> QED
    BY <1>2, <1>3, <2>2
<1>5. Entries = (Calls \cup {Beat}) \cup {Sync}
  BY DEF Entries
<1>6. \A r \in Entries : Cardinality(Entries \ {r}) = Cardinality(Entries) - 1
  BY <1>4, <1>5, FS_RemoveElement
<1> QED
  BY <1>2, <1>4, <1>5, <1>6

LEMMA LibFinite == Ledger => IsFiniteSet(lib) /\ Cardinality(lib) \in Nat
  BY BooksFinite, FS_Subset, FS_CardinalityType DEF Ledger, LedgerTypes

\* A request is counted in as it is handed over, and out as it is answered.
LEMMA CountsIn ==
  ASSUME Ledger, Counted, NEW r, r \notin lib, lib' = lib \cup {r},
         inFlight' = inFlight + 1
  PROVE  Counted'
BY LibFinite, FS_AddElement DEF Counted

LEMMA CountsOut ==
  ASSUME Ledger, Counted, NEW r \in lib, lib' = lib \ {r}, inFlight' = inFlight - 1
  PROVE  Counted'
BY LibFinite, FS_RemoveElement DEF Counted

LEMMA StepCounted ==
  ASSUME "runs" \in Contract, RunShape, RunsInTurn, Ledger, Counted, [Next]_vars
  PROVE  Counted'
<1>0. LedgerTypes /\ Once
  BY DEF Ledger
<1>1. CASE UNCHANGED libVars
  BY <1>1 DEF libVars, Counted
<1>2. ASSUME NEW t \in Clients, StartSizes(t)
      PROVE  Counted'
  <2>1. inFlight' = 0 /\ lib' = lib /\ ctl[t] = "sizing"
    BY <1>2, Zenon DEF StartSizes
  <2>2. lib = {}
    BY <2>1 DEF RunsInTurn, StartPlaces, RunShape, Resting, Up, Pumping
  <2> QED
    BY <2>1, <2>2, FS_EmptySet DEF Counted
<1>3. CASE ProxyDispatches
  <2>1. /\ cmdQueue # <<>> /\ lib' = lib \cup {Head(cmdQueue)}
        /\ inFlight' = inFlight + 1
    BY <1>3, Zenon DEF ProxyDispatches
  <2>2. 1 \in DOMAIN cmdQueue /\ Head(cmdQueue) = cmdQueue[1]
    BY <1>0, <2>1 DEF LedgerTypes
  <2>3. Head(cmdQueue) \notin lib
    BY <1>0, <2>2 DEF Once
  <2> QED
    BY <2>1, <2>3, CountsIn
<1>4. CASE ProxyAdvances
  <2>1. CASE /\ Health!IssueEth \/ Health!IssueOp
             /\ lib' = lib \cup {Sync} /\ inFlight' = inFlight + 1
    <3>1. Sync \notin lib
      BY <1>0, <2>1 DEF Once, Health!IssueEth, Health!IssueOp
    <3> QED
      BY <2>1, <3>1, CountsIn
  <2> QED
    BY <1>1, <1>4, <2>1, Zenon DEF ProxyAdvances
<1>5. CASE ProxyBeats
  <2>1. CASE /\ Health!IssueBeat
             /\ lib' = lib \cup {Beat} /\ inFlight' = inFlight + 1
    <3>1. Beat \notin lib
      BY <1>0, <2>1 DEF Once, Health!IssueBeat, Health!BeatWanted
    <3> QED
      BY <2>1, <3>1, CountsIn
  <2> QED
    BY <1>1, <1>5, <2>1, Zenon DEF ProxyBeats
<1>6. CASE Answers
  <2>1. \E r \in lib : lib' = lib \ {r} /\ inFlight' = inFlight - 1
    BY <1>6, Zenon DEF Answers, AnswersCall, AnswersBeat, AnswersSync, Answered
  <2> QED
    BY <2>1, CountsOut
<1>7. CASE ProxyFrees
  <2>1. inFlight' = 0 /\ lib' = {}
    BY <1>7, Zenon DEF ProxyFrees
  <2> QED
    BY <2>1, FS_EmptySet DEF Counted
<1>8. ASSUME \/ \E t \in Clients : Start(t) /\ ~StartSizes(t)
             \/ \E t \in Clients : Stop(t) \/ Destroy(t)
             \/ \E c \in Calls : Caller(c) \/ Impatience(c)
             \/ Timers \/ UNCHANGED vars
      PROVE  UNCHANGED libVars
  <2> USE DEF proxyVars
  <2>1. ASSUME NEW t \in Clients, Start(t), ~StartSizes(t)
        PROVE  UNCHANGED libVars
    BY <2>1, Zenon
    DEF Start, StartChecks, StartResets, StartSpawns, StartPosts, StartReturns
  <2>2. ASSUME NEW t \in Clients, Stop(t) \/ Destroy(t)
        PROVE  UNCHANGED libVars
    BY <2>2, Zenon
    DEF Stop, StopChecks, StopRequests, StopReturns, ClientGoesOn, Destroy,
        DestroyChecks, DestroyShutsDown, DestroyJoins
  <2>3. ASSUME NEW c \in Calls, Caller(c) \/ Impatience(c)
        PROVE  UNCHANGED libVars
    BY <2>3, Zenon
    DEF Caller, CallChecks, CallAtGate, CallEnqueues, CallAborts, CallReturns,
        Impatience, CallTimesOutInLine, CallTimesOut
  <2> QED
    BY <1>8, <2>1, <2>2, <2>3, Zenon DEF Timers, vars
<1>9. ASSUME \/ ProxyTakesRun \/ ProxyExits \/ ProxyComesUp \/ ProxyFailsToComeUp
             \/ ProxyFailed \/ ProxyFinishes \/ ProxyDrained \/ ProxyReleasesStart
             \/ ProxyPumped \/ ProxyLeaves \/ ProxyBeginsDrain \/ ProxyFailsPending
             \/ ProxyResetsGate \/ ProxyStops
      PROVE  UNCHANGED libVars
  BY <1>9, Zenon
  DEF ProxyTakesRun, ProxyExits, ProxyComesUp, ProxyFailsToComeUp, ProxyFailed,
      ProxyFinishes, ProxyDrained, ProxyReleasesStart, ProxyPumped, ProxyLeaves,
      ProxyBeginsDrain, ProxyFailsPending, ProxyResetsGate, ProxyStops
<1> QED
  BY <1>1, <1>2, <1>3, <1>4, <1>5, <1>6, <1>7, <1>8, <1>9, Zenon DEF Next, Proxy

\* m_inFlight, by which teardown() knows that the drain is over, is the number
\* of requests the library has yet to answer: each completion is counted once,
\* and start() never zeroes the count under a run. (callbackTrampoline(),
\* teardown(), start().)
THEOREM CountIsExact ==
  ASSUME "runs" \in Contract PROVE Spec => []InFlightCounted
<1> DEFINE IInv == RunShape /\ OwnerAlone /\ RunsInTurn /\ Ledger /\ Counted
<1>1. Init => IInv
  <2>1. Init => Counted
    BY FS_EmptySet DEF Init, Counted
  <2> QED
    BY <2>1, InitRunShape, InitOwnerAlone, InitRunsInTurn, InitLedger
<1>2. IInv /\ [Next]_vars => IInv'
  <2>1. OwnerAlone => ClientTypes
    BY DEF OwnerAlone
  <2> QED
    BY <2>1, StepRunShape, StepOwnerAlone, StepRunsInTurn, StepLedger, StepCounted
<1>3. IInv => InFlightCounted
  BY DEF Counted, InFlightCounted
<1> QED
  BY <1>1, <1>2, <1>3, PTL DEF Spec

-----------------------------------------------------------------------------
(* The pending list stays bounded *)

\* A sweep leaves one place for each entry that is still held.
LEMMA SweptSize ==
  ASSUME pending \in Seq(Entries), NEW r \in Entries, ~Held(r)
  PROVE  /\ Cardinality(DOMAIN pending \ Expiring) \in Nat
         /\ Cardinality(DOMAIN pending \ Expiring) <= Cardinality(Calls) + 1
<1> DEFINE kept == DOMAIN pending \ Expiring
           f == [i \in kept |-> pending[i]]
<1>1. /\ Len(pending) \in Nat /\ DOMAIN pending = 1..Len(pending)
      /\ \A i \in DOMAIN pending : pending[i] \in Entries
  BY LenProperties
<1>2. \A i \in kept : pending[i] \in Entries \ {r}
  BY <1>1 DEF Expiring, Expired
<1>3. \A i, j \in kept : pending[i] = pending[j] => i = j
  <2> SUFFICES ASSUME NEW i \in kept, NEW j \in kept, pending[i] = pending[j], i < j
               PROVE  FALSE
    BY <1>1
  <2>1. j \in i + 1..Len(pending)
    BY <1>1
  <2>2. Expired(i)
    BY <2>1 DEF Expired
  <2> QED
    BY <2>2 DEF Expiring
<1>4. f \in Injection(kept, Entries \ {r})
  BY <1>2, <1>3 DEF Injection, IsInjective
<1>5. IsFiniteSet(Entries \ {r})
  BY BooksFinite, FS_Subset
<1>6. IsFiniteSet(kept) /\ Cardinality(kept) <= Cardinality(Entries \ {r})
  BY <1>4, <1>5, FS_Injection
<1>7. Cardinality(kept) \in Nat
  BY <1>6, FS_CardinalityType
<1> QED
  BY <1>6, <1>7, BooksFinite

LEMMA RememberBounded ==
  ASSUME pending \in Seq(Entries), NEW r \in Entries, ~Held(r), Remember(r)
  PROVE  PendingBounded'
<1> DEFINE P == Pruned
<1>1. P \in Seq(Entries) /\ Len(P) \in Nat
  <2>1. P \in Seq(Entries)
    BY PrunedKeeps
  <2> QED
    BY <2>1, LenProperties
<1>2. Len(P) < PendingSweepAt \/ Len(P) <= Cardinality(Calls) + 1
  <2>1. CASE Cardinality(DOMAIN pending \ ExpiringFront) < PendingSweepAt
    <3>1. P = Without(ExpiringFront)
      BY <2>1, Zenon DEF Pruned
    <3>2. Len(P) = Cardinality(DOMAIN pending \ ExpiringFront)
      BY <3>1, WithoutKeeps
    <3> QED
      BY <2>1, <3>2
  <2>2. CASE ~(Cardinality(DOMAIN pending \ ExpiringFront) < PendingSweepAt)
    <3>1. P = Without(Expiring)
      BY <2>2, Zenon DEF Pruned
    <3>2. Len(P) = Cardinality(DOMAIN pending \ Expiring)
      BY <3>1, WithoutKeeps
    <3> QED
      BY <3>2, SweptSize
  <2> QED
    BY <2>1, <2>2
<1>3. Len(pending') = Len(P) + 1
  BY <1>1 DEF Remember
<1> HIDE DEF P
<1> QED
  BY <1>1, <1>2, <1>3, BooksFinite, RuntimeAssumption DEF PendingBounded, Greater

LEMMA StepPendingBounded ==
  ASSUME Ledger, PendingBounded, [Next]_vars
  PROVE  PendingBounded'
<1>0. LedgerTypes /\ Once /\ Answerable
  BY DEF Ledger
<1>1. CASE UNCHANGED pending
  BY <1>1 DEF PendingBounded
<1>2. ASSUME NEW c \in Calls, Caller(c) \/ Impatience(c)
      PROVE  PendingBounded'
  <2>1. CASE UNCHANGED pending
    BY <1>1, <2>1
  <2>2. CASE call[c] = "reserved" /\ Remember(c)
    <3>1. ~Held(c)
      BY <1>0, <2>2 DEF Answerable, Asked, Held
    <3> QED
      BY <1>0, <2>2, <3>1, RememberBounded DEF LedgerTypes, Entries
  <2> QED
    BY <1>2, <2>1, <2>2, Zenon
    DEF Caller, CallChecks, CallAtGate, CallEnqueues, CallAborts, CallReturns,
        Impatience, CallTimesOutInLine, CallTimesOut, SlotVars
<1>3. ASSUME NEW r \in {Beat, Sync}, r \notin lib, Remember(r)
      PROVE  PendingBounded'
  <2>1. r \notin Calls /\ r \in Entries
    BY RuntimeAssumption DEF Entries
  <2>2. Range(cmdQueue) \in SUBSET Calls
    BY <1>0, LenProperties DEF LedgerTypes, Range
  <2>3. ~Held(r)
    BY <1>3, <2>1, <2>2 DEF Held
  <2> QED
    BY <1>0, <1>3, <2>1, <2>3, RememberBounded DEF LedgerTypes
<1>4. CASE ProxyAdvances
  <2>1. CASE (Health!IssueEth \/ Health!IssueOp) /\ Remember(Sync)
    <3>1. Sync \notin lib
      BY <1>0, <2>1 DEF Once, Health!IssueEth, Health!IssueOp
    <3> QED
      BY <1>3, <2>1, <3>1
  <2> QED
    BY <1>1, <1>4, <2>1, Zenon DEF ProxyAdvances
<1>5. CASE ProxyBeats
  <2>1. CASE Health!IssueBeat /\ Remember(Beat)
    <3>1. Beat \notin lib
      BY <1>0, <2>1 DEF Once, Health!IssueBeat, Health!BeatWanted
    <3> QED
      BY <1>3, <2>1, <3>1
  <2> QED
    BY <1>1, <1>5, <2>1, Zenon DEF ProxyBeats
<1>6. CASE ProxyFailsPending
  <2>1. pending' = <<>>
    BY <1>6, Zenon DEF ProxyFailsPending
  <2> QED
    BY <2>1, BooksFinite, RuntimeAssumption DEF PendingBounded, Greater
<1>7. CASE \/ ProxyTakesRun \/ ProxyComesUp \/ ProxyDispatches \/ Answers \/ ProxyFrees
           \/ UNCHANGED vars
  BY <1>1, <1>7, Zenon
  DEF ProxyTakesRun, ProxyComesUp, ProxyDispatches, Answers, AnswersCall, AnswersBeat,
      AnswersSync, Answered, ProxyFrees, callVars, vars
<1>8. CASE \/ \E t \in Clients : Start(t) \/ Stop(t) \/ Destroy(t)
           \/ ProxyExits \/ ProxyFailsToComeUp \/ ProxyFailed \/ ProxyFinishes
           \/ ProxyDrained \/ ProxyReleasesStart \/ ProxyPumped
           \/ ProxyLeaves \/ ProxyBeginsDrain \/ ProxyResetsGate \/ ProxyStops
           \/ Timers
  BY <1>1, <1>8, BooksUntouched
<1> QED
  BY <1>2, <1>4, <1>5, <1>6, <1>7, <1>8, Zenon DEF Next, Proxy

\* However long one request stays unanswered, the list teardown() works through
\* holds no more than the unanswered requests, or than the sweep allows: for
\* any number of callers, whatever clients do. (prunePendingLocked().)
THEOREM PendingStaysBounded == Spec => []PendingBounded
<1>1. Init => RunShape /\ Ledger /\ PendingBounded
  <2>1. Init => PendingBounded
    BY BooksFinite, RuntimeAssumption DEF Init, PendingBounded, Greater
  <2> QED
    BY <2>1, InitRunShape, InitLedger
<1>2. RunShape /\ Ledger /\ PendingBounded /\ [Next]_vars =>
        (RunShape /\ Ledger /\ PendingBounded)'
  BY StepRunShape, StepLedger, StepPendingBounded
<1> QED
  BY <1>1, <1>2, PTL DEF Spec

-----------------------------------------------------------------------------
(* No caller is left behind, if clients keep both parts of their contract *)

\* A queue is only ever filled under a run that will empty it, a caller on its
\* way in has a run ahead of it or sees the flag, and no caller is on its way in
\* while the flag is withdrawn.
Sheltered ==
  /\ cmdQueue # <<>> => proxy \in Pumping \cup {"leaving", "draining"}
  /\ (\E c \in Calls : ~CallAtRest(c)) => Closing \/ proxy \in Pumping
  /\ (\E t \in Clients : ctl[t] \in StartPlaces) => \A c \in Calls : CallAtRest(c)
  /\ proxy = "leaving" => Closing

LEMMA InitSheltered == Init => Sheltered
  BY DEF Init, Sheltered, CallAtRest, StartPlaces

LEMMA ShelteredStart ==
  ASSUME "calls" \in Contract, ClientTypes, RunsInTurn, Sheltered,
         NEW t \in Clients, Start(t)
  PROVE  Sheltered'
<1>1. UNCHANGED <<call, cmdQueue, shutdown>>
  BY Zenon
  DEF Start, StartChecks, StartResets, StartSizes, StartSpawns, StartPosts, StartReturns,
      callVars, flagVars, Health!SetState
<1>2. proxy' = proxy \/ (proxy = "none" /\ proxy' = "parked")
  BY
  DEF Start, StartChecks, StartResets, StartSizes, StartSpawns, StartPosts, StartReturns
<1>3. \A c \in Calls : CallAtRest(c)' <=> CallAtRest(c)
  BY <1>1 DEF CallAtRest
<1>4. PICK pc \in StartPlaces \cup Returned \cup {"startWait"} :
        /\ Go(t, pc)
        /\ pc \in StartPlaces =>
             ctl[t] \in StartPlaces \/ \A c \in Calls : CallAtRest(c)
  <2>1. CASE StartChecks(t)
    <3>1. /\ \A c \in Calls : CallAtRest(c)
          /\ Go(t, IF runActive THEN "alreadyStarted" ELSE "resetting")
      BY <2>1, Zenon DEF StartChecks, MayStart
    <3> QED
      BY <3>1 DEF StartPlaces, Returned
  <2>2. CASE ~StartChecks(t)
    BY <2>2
    DEF Start, StartResets, StartSizes, StartSpawns, StartPosts, StartReturns,
        StartPlaces, Returned
  <2> QED
    BY <2>1, <2>2
<1>5. ctl'[t] = pc /\ \A u \in Clients \ {t} : ctl'[u] = ctl[u]
  BY <1>4, Moves DEF Places
<1>6. \/ (\A c \in Calls : CallAtRest(c)) /\ proxy # "leaving"
      \/ Closing' = Closing
  <2>1. CASE StartResets(t)
    <3>1. ctl[t] \in StartPlaces
      BY <2>1 DEF StartResets, StartPlaces
    <3>2. proxy # "leaving"
      BY <3>1 DEF RunsInTurn, Resting
    <3> QED
      BY <3>1, <3>2 DEF Sheltered
  <2>2. CASE ~StartResets(t)
    <3>1. UNCHANGED <<stopRequested, shutdown>>
      BY <2>2, Zenon
      DEF Start, StartChecks, StartSizes, StartSpawns, StartPosts, StartReturns, flagVars
    <3> QED
      BY <3>1 DEF Closing
  <2> QED
    BY <2>1, <2>2
<1>7. (\E u \in Clients : ctl'[u] \in StartPlaces) => \A c \in Calls : CallAtRest(c)
  BY <1>4, <1>5 DEF Sheltered
<1> QED
  BY <1>1, <1>2, <1>3, <1>6, <1>7 DEF Sheltered, Pumping

LEMMA ShelteredStop ==
  ASSUME ClientTypes, Sheltered, NEW t \in Clients, Stop(t) \/ Destroy(t)
  PROVE  Sheltered'
<1>1. UNCHANGED <<call, cmdQueue, proxy>>
  BY Zenon
  DEF Stop, StopChecks, StopRequests, StopReturns, ClientGoesOn, Destroy, DestroyChecks,
      DestroyShutsDown, DestroyJoins, callVars
<1>2. Closing => Closing'
  BY
  DEF Stop, StopChecks, StopRequests, StopReturns, ClientGoesOn, Destroy, DestroyChecks,
      DestroyShutsDown, DestroyJoins, flagVars, Closing
<1>3. PICK pc \in Places \ StartPlaces : Go(t, pc)
  BY
  DEF Stop, StopChecks, StopRequests, StopReturns, ClientGoesOn, Destroy, DestroyChecks,
      DestroyShutsDown, DestroyJoins, Places, Returned, StartPlaces, StopPlaces,
      DestroyPlaces
<1>4. ctl'[t] = pc /\ \A u \in Clients \ {t} : ctl'[u] = ctl[u]
  BY <1>3, Moves
<1>5. \A c \in Calls : CallAtRest(c)' <=> CallAtRest(c)
  BY <1>1 DEF CallAtRest
<1> QED
  BY <1>1, <1>2, <1>3, <1>4, <1>5 DEF Sheltered

LEMMA ShelteredCall ==
  ASSUME LedgerTypes, RunShape, RunsInTurn, Sheltered,
         NEW c \in Calls, Caller(c) \/ Impatience(c)
  PROVE  Sheltered'
<1>1. UNCHANGED <<ctl, proxy>> /\ Closing' = Closing
  <2>1. UNCHANGED <<ctl, proxy, stopRequested, shutdown>>
    BY OthersKeepTurn, Zenon DEF turnVars
  <2> QED
    BY <2>1 DEF Closing
<1>2. \E pc \in CallPlaces : CallAt(c, pc)
  BY
  DEF Caller, CallChecks, CallAtGate, CallEnqueues, CallAborts, CallReturns, Impatience,
      CallTimesOutInLine, CallTimesOut, CallPlaces, Asked
<1>3. \A d \in Calls \ {c} : call'[d] = call[d]
  BY <1>2 DEF CallAt, LedgerTypes
<1>4. \A d \in Calls \ {c} : CallAtRest(d)' <=> CallAtRest(d)
  BY <1>3 DEF CallAtRest
<1>5. CASE CallAtRest(c) /\ UNCHANGED cmdQueue /\ CallAtRest(c)'
  BY <1>1, <1>4, <1>5 DEF Sheltered
<1>6. CASE /\ ~CallAtRest(c)
           /\ cmdQueue' # <<>> => cmdQueue # <<>> \/ ~Closing
  <2>1. Closing \/ proxy \in Pumping
    BY <1>6 DEF Sheltered
  <2>2. \A t \in Clients : ctl[t] \notin StartPlaces
    BY <1>6 DEF Sheltered
  <2> QED
    BY <1>1, <1>6, <2>1, <2>2 DEF Sheltered
<1>7. CASE Serving /\ UNCHANGED cmdQueue
  <2>1. proxy \in Pumping \cup {"leaving"}
    BY <1>7 DEF RunShape
  <2>2. Closing \/ proxy \in Pumping
    BY <2>1 DEF Sheltered
  <2>3. \A t \in Clients : ctl[t] \notin StartPlaces
    BY <2>1 DEF RunsInTurn, Resting, Pumping
  <2> QED
    BY <1>1, <1>7, <2>2, <2>3 DEF Sheltered
<1>8. CASE CallChecks(c)
  <2>1. /\ UNCHANGED cmdQueue /\ call[c] = "idle"
        /\ call' = [call EXCEPT ![c] = IF Serving THEN "entering" ELSE "failed"]
    BY <1>8, Zenon DEF CallChecks, CallAt, SlotVars
  <2>2. Serving \/ call'[c] = "failed"
    BY <2>1 DEF LedgerTypes
  <2> QED
    BY <1>5, <1>7, <2>1, <2>2 DEF CallAtRest
<1>9. CASE CallAtGate(c) \/ CallTimesOutInLine(c) \/ CallAborts(c)
  <2>1. UNCHANGED cmdQueue /\ call[c] \in {"entering", "inLine", "aborting"}
    BY <1>9, Zenon DEF CallAtGate, CallTimesOutInLine, CallAborts, SlotVars
  <2> QED
    BY <1>6, <2>1 DEF CallAtRest
<1>10. CASE CallEnqueues(c)
  <2>1. /\ call[c] = "reserved"
        /\ ~Closing \/ UNCHANGED cmdQueue
    BY <1>10, Zenon DEF CallEnqueues, SlotVars
  <2> QED
    BY <1>6, <2>1 DEF CallAtRest
<1>11. CASE CallReturns(c) \/ CallTimesOut(c)
  <2>1. /\ UNCHANGED cmdQueue /\ call[c] = "waiting"
        /\ \E pc \in {"ok", "failed"} : CallAt(c, pc)
    BY <1>11 DEF CallReturns, CallTimesOut, SlotVars
  <2>2. call'[c] \in {"ok", "failed"}
    BY <2>1 DEF CallAt, LedgerTypes
  <2> QED
    BY <1>5, <2>1, <2>2 DEF CallAtRest
<1> QED
  BY <1>8, <1>9, <1>10, <1>11, Zenon DEF Caller, Impatience

LEMMA ShelteredProxy ==
  ASSUME Sheltered, Proxy
  PROVE  Sheltered'
<1>1. UNCHANGED <<ctl, call>> /\ Closing' = Closing
  <2>1. UNCHANGED <<call, stopRequested, shutdown>>
    BY Zenon
    DEF Proxy, ProxyTakesRun, ProxyExits, ProxyComesUp, ProxyFailsToComeUp, ProxyFailed,
        ProxyFinishes, ProxyDispatches, ProxyDrained, ProxyAdvances, ProxyReleasesStart,
        ProxyBeats, ProxyPumped, ProxyLeaves, ProxyBeginsDrain, ProxyFailsPending,
        ProxyFrees, ProxyResetsGate, ProxyStops, callVars, flagVars
  <2> QED
    BY <2>1, ProxyKeepsClients DEF Closing
<1>2. \A c \in Calls : CallAtRest(c)' <=> CallAtRest(c)
  BY <1>1 DEF CallAtRest
<1>3. \/ UNCHANGED cmdQueue /\ proxy \notin Pumping \cup {"leaving", "draining"}
           /\ proxy' # "leaving"
      \/ proxy \in Pumping /\ proxy' \in Pumping
      \/ UNCHANGED cmdQueue /\ proxy \in Pumping /\ Closing /\ proxy' = "leaving"
      \/ UNCHANGED cmdQueue /\ proxy = "leaving" /\ proxy' = "draining"
      \/ cmdQueue' = <<>> /\ proxy = "draining" /\ proxy' = "freeing"
  <2>1. CASE \/ ProxyTakesRun \/ ProxyExits \/ ProxyComesUp \/ ProxyFailsToComeUp
             \/ ProxyFailed \/ ProxyFinishes \/ ProxyFrees \/ ProxyResetsGate
             \/ ProxyStops
    BY <2>1
    DEF ProxyTakesRun, ProxyExits, ProxyComesUp, ProxyFailsToComeUp, ProxyFailed,
        ProxyFinishes, ProxyFrees, ProxyResetsGate, ProxyStops, At, Onto, callVars,
        Pumping
  <2>2. CASE ProxyDispatches \/ ProxyDrained \/ ProxyReleasesStart \/ ProxyPumped
    BY <2>2
    DEF ProxyDispatches, ProxyDrained, ProxyReleasesStart, ProxyPumped, At, Onto, Pumping
  <2>3. CASE ProxyAdvances \/ ProxyBeats
    <3>1. /\ proxy = "turn" \/ proxy = "beat"
          /\ proxy' = "beat" \/ proxy' = "release" \/ proxy' = "pump"
      BY <2>3, Zenon DEF ProxyAdvances, ProxyBeats, At, Onto
    <3> QED
      BY <3>1 DEF Pumping
  <2>4. CASE ProxyLeaves \/ ProxyBeginsDrain \/ ProxyFailsPending
    BY <2>4
    DEF ProxyLeaves, ProxyBeginsDrain, ProxyFailsPending, At, Onto, callVars, Pumping
  <2> QED
    BY <2>1, <2>2, <2>3, <2>4, Zenon DEF Proxy
<1> QED
  BY <1>1, <1>2, <1>3 DEF Sheltered, Pumping

LEMMA StepSheltered ==
  ASSUME "calls" \in Contract, ClientTypes, RunShape, RunsInTurn, Ledger, Sheltered,
         [Next]_vars
  PROVE  Sheltered'
<1>1. LedgerTypes
  BY DEF Ledger
<1>2. CASE Answers \/ Timers \/ UNCHANGED vars
  <2>1. UNCHANGED <<call, cmdQueue, proxy, ctl, stopRequested, shutdown>>
    BY <1>2, Zenon
    DEF Answers, AnswersCall, AnswersBeat, AnswersSync, Answered, Timers, vars, callVars,
        flagVars
  <2> QED
    BY <2>1 DEF Sheltered, CallAtRest, Closing
<1> QED
  BY <1>1, <1>2, ShelteredStart, ShelteredStop, ShelteredCall, ShelteredProxy, Zenon
  DEF Next

\* If nobody starts a run while another is up, nor while a call of an earlier
\* one is still on its way in, then whoever waits without an answer is owed one
\* by a run whose teardown will release it if neither the library nor the queue
\* does. (call(), teardown(), failAllPending().)
THEOREM NobodyIsOrphaned ==
  ASSUME {"runs", "calls"} \subseteq Contract PROVE Spec => []NoOrphan
<1> DEFINE IInv == RunShape /\ OwnerAlone /\ RunsInTurn /\ Ledger /\ Sheltered
<1>1. Init => IInv
  BY InitRunShape, InitOwnerAlone, InitRunsInTurn, InitLedger, InitSheltered
<1>2. IInv /\ [Next]_vars => IInv'
  <2>1. OwnerAlone => ClientTypes
    BY DEF OwnerAlone
  <2> QED
    BY <2>1, StepRunShape, StepOwnerAlone, StepRunsInTurn, StepLedger, StepSheltered
<1>3. IInv => NoOrphan
  <2> SUFFICES ASSUME IInv, NEW c \in Calls, call[c] = "waiting", slot[c] = "open"
               PROVE  /\ c \in lib \cup Range(cmdQueue)
                      /\ c \in Range(pending)
                      /\ proxy \in Pumping \cup {"leaving", "draining"}
    BY DEF NoOrphan
  <2>1. c \in Range(pending) /\ Owing(c)
    BY DEF Ledger, Answerable
  <2>2. CASE c \in lib /\ proxy # "freeing"
    BY <2>1, <2>2 DEF RunShape, Up
  <2>3. CASE c \in Range(cmdQueue)
    <3>1. cmdQueue # <<>>
      BY <2>3 DEF Range
    <3> QED
      BY <2>1, <2>3, <3>1 DEF Sheltered
  <2> QED
    BY <2>1, <2>2, <2>3 DEF Owing
<1> QED
  BY <1>1, <1>2, <1>3, PTL DEF Spec
=============================================================================
