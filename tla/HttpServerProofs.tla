-------------------------- MODULE HttpServerProofs --------------------------
(***************************************************************************)
(* Any number of connections, workers and bodies: what a kept-alive        *)
(* connection hands to json::parse, the dispatches and the answers of a    *)
(* batch of any length, and what stop() leaves behind.                     *)
(***************************************************************************)
EXTENDS RpcHttpServer, TLAPS, FiniteSetTheorems, SequenceTheorems

(* A batch, up to the element before the n-th: constant-level facts *)

\* The dispatches s of the first n - 1 requests of b.
AskedUpTo(b, s, n) ==
  /\ \A k \in DOMAIN s :
       /\ s[k][1] \in 1..(n - 1)
       /\ WellFormed(b, s[k][1])
       /\ s[k][2] = ParamsSent(b.requests[s[k][1]])
  /\ \A k, l \in DOMAIN s : k < l => s[k][1] < s[l][1]
  /\ \A i \in 1..(n - 1) : WellFormed(b, i) => \E k \in DOMAIN s : s[k][1] = i

\* The answers o to the first n - 1 requests of b.
AnsweredUpTo(b, s, o, n) ==
  /\ Len(o) = Cardinality(OwedBefore(b, n))
  /\ \A i \in OwedBefore(b, n) :
       LET a == o[Cardinality(OwedBefore(b, i)) + 1]
       IN a.id = b.requests[i].id /\ CodeFor(b, s, i, a.code)

Dispatches == Nat \X (Nat \cup {Named}) \X Outcomes

Answers == [id : STRING \cup {NoId}, code : Int]


LEMMA OwedFinite ==
  ASSUME NEW b, NEW n \in Nat
  PROVE  /\ IsFiniteSet(OwedBefore(b, n))
         /\ Cardinality(OwedBefore(b, n)) \in Nat
<1>1. IsFiniteSet(1..(n - 1))
  BY FS_Interval
<1>2. OwedBefore(b, n) \in SUBSET (1..(n - 1))
  BY DEF OwedBefore
<1> QED
  BY <1>1, <1>2, FS_Subset, FS_CardinalityType

LEMMA OwedNext ==
  ASSUME NEW b, NEW n \in Nat \ {0}
  PROVE  IF IsNotification(b.requests[n])
         THEN OwedBefore(b, n + 1) = OwedBefore(b, n)
         ELSE /\ OwedBefore(b, n + 1) = OwedBefore(b, n) \cup {n}
              /\ Cardinality(OwedBefore(b, n + 1)) = Cardinality(OwedBefore(b, n)) + 1
<1>1. 1..(n + 1 - 1) = 1..(n - 1) \cup {n} /\ n \notin 1..(n - 1)
  OBVIOUS
<1>2. n \notin OwedBefore(b, n)
  BY <1>1 DEF OwedBefore
<1>3. CASE IsNotification(b.requests[n])
  BY <1>1, <1>3 DEF OwedBefore
<1>4. CASE ~IsNotification(b.requests[n])
  <2>1. OwedBefore(b, n + 1) = OwedBefore(b, n) \cup {n}
    BY <1>1, <1>4 DEF OwedBefore
  <2>2. Cardinality(OwedBefore(b, n) \cup {n}) = Cardinality(OwedBefore(b, n)) + 1
    BY <1>2, OwedFinite, FS_AddElement
  <2> QED
    BY <1>4, <2>1, <2>2
<1> QED
  BY <1>3, <1>4

\* Fewer requests before an earlier place, so an answer that is there keeps it.
LEMMA OwedEarlier ==
  ASSUME NEW b, NEW n \in Nat \ {0}, NEW i \in OwedBefore(b, n)
  PROVE  Cardinality(OwedBefore(b, i)) + 1 \in 1..Cardinality(OwedBefore(b, n))
<1>1. i \in 1..(n - 1) /\ i \in Nat \ {0} /\ ~IsNotification(b.requests[i])
  BY DEF OwedBefore
<1>2. Cardinality(OwedBefore(b, i + 1)) = Cardinality(OwedBefore(b, i)) + 1
  BY <1>1, OwedNext
<1>3. OwedBefore(b, i + 1) \in SUBSET OwedBefore(b, n)
  BY <1>1 DEF OwedBefore
<1>4. Cardinality(OwedBefore(b, i + 1)) <= Cardinality(OwedBefore(b, n))
  BY <1>3, OwedFinite, FS_Subset
<1>5. Cardinality(OwedBefore(b, i)) \in Nat /\ Cardinality(OwedBefore(b, n)) \in Nat
  BY <1>1, OwedFinite
<1> QED
  BY <1>2, <1>4, <1>5

LEMMA NothingYet ==
  ASSUME NEW b
  PROVE  AskedUpTo(b, <<>>, 1) /\ AnsweredUpTo(b, <<>>, <<>>, 1)
<1>1. 1..(1 - 1) = {}
  OBVIOUS
<1>2. OwedBefore(b, 1) = {}
  BY <1>1 DEF OwedBefore
<1>3. AskedUpTo(b, <<>>, 1)
  BY <1>1 DEF AskedUpTo
<1> QED
  BY <1>2, <1>3, FS_EmptySet DEF AnsweredUpTo

\* One more request, refused before any dispatch.
LEMMA AskedRefused ==
  ASSUME NEW b, NEW s \in Seq(Dispatches), NEW n \in Nat \ {0},
         AskedUpTo(b, s, n), ~WellFormed(b, n)
  PROVE  AskedUpTo(b, s, n + 1)
<1>1. \A i \in 1..(n + 1 - 1) : i \in 1..(n - 1) \/ i = n
  OBVIOUS
<1>2. \A k \in DOMAIN s : s[k][1] \in 1..(n + 1 - 1)
  BY DEF AskedUpTo
<1> QED
  BY <1>1, <1>2 DEF AskedUpTo

\* One more request, dispatched.
LEMMA AskedDispatched ==
  ASSUME NEW b, NEW s \in Seq(Dispatches), NEW n \in Nat \ {0}, NEW e \in Dispatches,
         AskedUpTo(b, s, n), WellFormed(b, n),
         e[1] = n, e[2] = ParamsSent(b.requests[n]),
         NEW t \in Seq(Dispatches), Len(t) = Len(s) + 1,
         \A k \in 1..Len(s) : t[k] = s[k],
         t[Len(s) + 1] = e
  PROVE  AskedUpTo(b, t, n + 1)
<1>2. e[1] = n /\ e[2] = ParamsSent(b.requests[n])
  OBVIOUS
<1>3. /\ t \in Seq(Dispatches) /\ Len(t) = Len(s) + 1
      /\ \A k \in 1..Len(s) : t[k] = s[k]
      /\ t[Len(s) + 1] = e
  OBVIOUS
<1>4. Len(s) \in Nat /\ DOMAIN s = 1..Len(s) /\ DOMAIN t = 1..Len(t)
  BY <1>3, LenProperties
<1>5. \A k \in DOMAIN t : k \in DOMAIN s \/ k = Len(s) + 1
  BY <1>3, <1>4
<1>6. ASSUME NEW k \in DOMAIN t
      PROVE  /\ t[k][1] \in 1..(n + 1 - 1)
             /\ WellFormed(b, t[k][1])
             /\ t[k][2] = ParamsSent(b.requests[t[k][1]])
  <2>1. CASE k = Len(s) + 1
    BY <1>2, <1>3, <2>1
  <2>2. CASE k \in DOMAIN s
    <3>1. t[k] = s[k] /\ s[k][1] \in 1..(n - 1)
      BY <1>3, <1>4, <2>2 DEF AskedUpTo
    <3>2. s[k][1] \in 1..(n + 1 - 1)
      BY <3>1
    <3> QED
      BY <2>2, <3>1, <3>2 DEF AskedUpTo
  <2> QED
    BY <1>5, <2>1, <2>2
<1>7. ASSUME NEW k \in DOMAIN t, NEW l \in DOMAIN t, k < l
      PROVE  t[k][1] < t[l][1]
  <2>1. k \in DOMAIN s /\ t[k] = s[k] /\ s[k][1] \in 1..(n - 1)
    <3>1. k \in DOMAIN s
      BY <1>3, <1>4, <1>7
    <3> QED
      BY <1>3, <1>4, <3>1 DEF AskedUpTo
  <2>2. CASE l = Len(s) + 1
    <3>1. t[l][1] = n
      BY <1>2, <1>3, <2>2
    <3>2. s[k][1] < n
      BY <2>1
    <3> QED
      BY <2>1, <3>1, <3>2
  <2>3. CASE l \in DOMAIN s
    BY <1>3, <1>4, <1>7, <2>1, <2>3 DEF AskedUpTo
  <2> QED
    BY <1>5, <2>2, <2>3
<1>8. ASSUME NEW i \in 1..(n + 1 - 1), WellFormed(b, i)
      PROVE  \E k \in DOMAIN t : t[k][1] = i
  <2>1. CASE i = n
    <3>1. Len(s) + 1 \in DOMAIN t
      BY <1>3, <1>4
    <3> QED
      BY <1>2, <1>3, <2>1, <3>1
  <2>2. CASE i \in 1..(n - 1)
    <3>1. PICK k \in DOMAIN s : s[k][1] = i
      BY <1>8, <2>2 DEF AskedUpTo
    <3>2. k \in DOMAIN t /\ t[k] = s[k]
      BY <1>3, <1>4
    <3> QED
      BY <3>1, <3>2
  <2> QED
    BY <2>1, <2>2
<1> QED
  BY <1>6, <1>7, <1>8 DEF AskedUpTo

\* One more request, answered unless it is a notification; t may be longer than
\* the dispatches s before it.
LEMMA AnsweredNext ==
  ASSUME NEW b, NEW s, NEW t, NEW o \in Seq(Answers), NEW n \in Nat \ {0},
         NEW code \in Int, AnsweredUpTo(b, s, o, n),
         \A k \in DOMAIN s : k \in DOMAIN t /\ t[k] = s[k],
         CodeFor(b, t, n, code), b.requests[n].id \in STRING
  PROVE  LET p == IF IsNotification(b.requests[n]) THEN o
                  ELSE Append(o, Answer(b.requests[n].id, code))
         IN  p \in Seq(Answers) /\ AnsweredUpTo(b, t, p, n + 1)
<1>1. \A i : \A d : CodeFor(b, s, i, d) => CodeFor(b, t, i, d)
  BY DEF CodeFor
<1>2. CASE IsNotification(b.requests[n])
  <2>1. OwedBefore(b, n + 1) = OwedBefore(b, n)
    BY <1>2, OwedNext
  <2> QED
    BY <1>1, <1>2, <2>1 DEF AnsweredUpTo
<1>3. CASE ~IsNotification(b.requests[n])
  <2> DEFINE a == Answer(b.requests[n].id, code)
             p == Append(o, a)
             here == Cardinality(OwedBefore(b, n))
  <2>1. a \in Answers /\ a.id = b.requests[n].id /\ a.code = code
    BY DEF Answer, Answers
  <2> HIDE DEF a
  <2>2. /\ p \in Seq(Answers) /\ Len(p) = Len(o) + 1
        /\ \A k \in 1..Len(o) : p[k] = o[k]
        /\ p[Len(o) + 1] = a
    BY <2>1, AppendProperties
  <2> HIDE DEF p
  <2>3. Len(o) = here /\ here \in Nat
    BY OwedFinite DEF AnsweredUpTo
  <2>4. /\ OwedBefore(b, n + 1) = OwedBefore(b, n) \cup {n}
        /\ Cardinality(OwedBefore(b, n + 1)) = here + 1
    BY <1>3, OwedNext
  <2>5. ASSUME NEW i \in OwedBefore(b, n)
        PROVE  LET x == p[Cardinality(OwedBefore(b, i)) + 1]
               IN x.id = b.requests[i].id /\ CodeFor(b, t, i, x.code)
    <3>1. Cardinality(OwedBefore(b, i)) + 1 \in 1..here
      BY OwedEarlier
    <3>2. p[Cardinality(OwedBefore(b, i)) + 1] = o[Cardinality(OwedBefore(b, i)) + 1]
      BY <2>2, <2>3, <3>1
    <3> QED
      BY <1>1, <3>2 DEF AnsweredUpTo
  <2>6. p[here + 1].id = b.requests[n].id /\ CodeFor(b, t, n, p[here + 1].code)
    BY <2>1, <2>2, <2>3
  <2>7. AnsweredUpTo(b, t, p, n + 1)
    BY <2>2, <2>3, <2>4, <2>5, <2>6 DEF AnsweredUpTo
  <2> QED
    BY <1>3, <2>2, <2>7 DEF p, a
<1> QED
  BY <1>2, <1>3

-----------------------------------------------------------------------------
(* A connection, request after request *)

ConnPlaces == {"closed", "idle", "reading", "handling", "calling", "replied"}

Wire == [body : Bodies \cup {Nothing.body}, pieces : Nat]

ServerTypes ==
  /\ conn \in [Connections -> ConnPlaces]
  /\ sent \in [Connections -> Wire]
  /\ left \in [Connections -> Nat]
  /\ context \in [Connections -> Nat \cup {NoContext}]
  /\ next \in [Connections -> Nat \ {0}]
  /\ asked \in [Connections -> Seq(Dispatches)]
  /\ out \in [Connections -> Seq(Answers)]
  /\ reply \in [Connections ->
                  {"none", "not POST", "object", "array", "empty", "failed"}]

\* Between requests nothing is kept; while a body arrives the accumulator and
\* what is still to come make up the request.
Clean(c) ==
  /\ conn[c] \in {"closed", "idle"} => context[c] = NoContext
  /\ conn[c] = "reading" =>
       context[c] \in Nat /\ context[c] + left[c] = sent[c].pieces
  /\ conn[c] \in {"closed", "idle", "reading"} =>
       next[c] = 1 /\ asked[c] = <<>> /\ out[c] = <<>>
  /\ conn[c] # "replied" => reply[c] = "none"

InBatch(c) ==
  /\ conn[c] \in {"handling", "calling"} =>
       sent[c].body.requests # <<>> /\ next[c] <= Len(sent[c].body.requests) + 1
  /\ conn[c] = "calling" =>
       /\ next[c] <= Len(sent[c].body.requests)
       /\ WellFormed(sent[c].body, next[c])

\* The body has been answered element by element.
Replied(c) ==
  reply[c] \in {"object", "array", "empty"} /\ sent[c].body.requests # <<>>

Booked(c) ==
  conn[c] \in {"handling", "calling"} \/ Replied(c) =>
    /\ AskedUpTo(sent[c].body, asked[c], next[c])
    /\ AnsweredUpTo(sent[c].body, asked[c], out[c], next[c])

\* Whatever becomes of the request, what was dispatched is of its body.
OfBody(c) ==
  asked[c] # <<>> => /\ AskedUpTo(sent[c].body, asked[c], next[c])
                     /\ next[c] <= Len(sent[c].body.requests) + 1

Finished(c) ==
  Replied(c) => /\ next[c] = Len(sent[c].body.requests) + 1
                /\ reply[c] = "empty" <=> out[c] = <<>>

ConnInv(c) == Clean(c) /\ InBatch(c) /\ Booked(c) /\ OfBody(c) /\ Finished(c)

ServerInv == ServerTypes /\ \A c \in Connections : ConnInv(c)

View(c) ==
  <<conn[c], sent[c], left[c], context[c], next[c], asked[c], out[c], reply[c]>>

LEMMA BodyTypes ==
  ASSUME NEW b \in Bodies \cup {Nothing.body}
  PROVE  /\ b.requests \in Seq(Requests)
         /\ b.kind = "garbage" => b.requests = <<>>
         /\ Len(b.requests) \in Nat /\ DOMAIN b.requests = 1..Len(b.requests)
         /\ b.requests = <<>> <=> Len(b.requests) = 0
         /\ \A i \in 1..Len(b.requests) : b.requests[i] \in Requests
<1>1. CASE b \in Bodies
  <2>1. b.requests \in Seq(Requests) /\ (b.kind = "garbage" => b.requests = <<>>)
    BY <1>1, HttpAssumption
  <2> QED
    BY <2>1, LenProperties, ElementOfSeq, EmptySeq
<1>2. CASE b = Nothing.body
  <2>1. b.kind = "garbage" /\ b.requests = <<>>
    BY <1>2 DEF Nothing
  <2>2. <<>> \in Seq(Requests)
    OBVIOUS
  <2> QED
    BY <2>1, <2>2, LenProperties, ElementOfSeq, EmptySeq
<1> QED
  BY <1>1, <1>2

LEMMA PiecesType == MaxPieces \in Nat \ {0}
  BY HttpAssumption

LEMMA Empties ==
  /\ <<>> \in Seq(Dispatches) /\ <<>> \in Seq(Answers)
  /\ Nothing \in Wire
<1>1. <<>> \in Seq(Dispatches) /\ <<>> \in Seq(Answers)
  BY EmptySeq
<1>2. Nothing \in Wire
  BY DEF Nothing, Wire
<1> QED
  BY <1>1, <1>2

LEMMA ConnStays ==
  ASSUME NEW c, UNCHANGED View(c), ConnInv(c)
  PROVE  ConnInv(c)'
  BY DEF View, ConnInv, Clean, InBatch, Booked, OfBody, Finished, Replied

LEMMA InitServerInv == Init => ServerInv
<1> SUFFICES ASSUME Init PROVE ServerInv
  OBVIOUS
<1>1. ServerTypes
  <2>1. NoContext \in {NoContext} /\ 1 \in Nat \ {0}
    OBVIOUS
  <2> QED
    BY <2>1, Empties DEF Init, ServerTypes, ConnPlaces
<1>2. ASSUME NEW c \in Connections PROVE ConnInv(c)
  BY DEF Init, ConnInv, Clean, InBatch, Booked, OfBody, Finished, Replied
<1> QED
  BY <1>1, <1>2 DEF ServerInv

-----------------------------------------------------------------------------
(* One step of one connection *)

\* Every step of a connection leaves the others, and the types, alone.
LEMMA RequestTypes ==
  ASSUME ServerTypes, NEW c \in Connections,
         Connect(c) \/ Request(c) \/ Piece(c) \/ Completed(c) \/ Closed(c)
  PROVE  ServerTypes' /\ \A d \in Connections \ {c} : UNCHANGED View(d)
<1> USE DEF Move, progressVars, bodyVars, serverVars
<1>1. CASE Connect(c)
  BY <1>1 DEF Connect, ServerTypes, ConnPlaces, View
<1>2. CASE Request(c)
  <2>1. ASSUME NEW b \in Bodies, NEW n \in 1..MaxPieces,
               sent' = [sent EXCEPT ![c] = [body |-> b, pieces |-> n]],
               left' = [left EXCEPT ![c] = n],
               context' = [context EXCEPT ![c] = IF @ = NoContext THEN 0 ELSE @],
               Move(c, "reading"), UNCHANGED progressVars
        PROVE  ServerTypes' /\ \A d \in Connections \ {c} : UNCHANGED View(d)
    <3>1. n \in Nat
      BY PiecesType
    <3>2. [body |-> b, pieces |-> n] \in Wire
      BY <3>1 DEF Wire
    <3> QED
      BY <2>1, <3>1, <3>2 DEF ServerTypes, ConnPlaces, View
  <2>2. CASE /\ reply' = [reply EXCEPT ![c] = "not POST"]
             /\ Move(c, "replied") /\ UNCHANGED <<bodyVars, next, asked, out>>
    BY <2>2 DEF ServerTypes, ConnPlaces, View
  <2> QED
    BY <1>2, <2>1, <2>2 DEF Request
<1>3. CASE Piece(c)
  <2>1. left[c] \in Nat /\ context[c] \in Nat \cup {NoContext} /\ left[c] > 0
    BY <1>3 DEF Piece, ServerTypes
  <2>2. left[c] - 1 \in Nat /\ context[c] + 1 \in Nat \cup {NoContext}
    BY <2>1 DEF NoContext
  <2> QED
    BY <1>3, <2>2 DEF Piece, ServerTypes, View
<1>4. ASSUME NEW pc \in {"idle", "closed"}, RequestOver(c, pc)
      PROVE  ServerTypes' /\ \A d \in Connections \ {c} : UNCHANGED View(d)
  <2>1. 0 \in Nat /\ 1 \in Nat \ {0} /\ pc \in ConnPlaces
    BY DEF ConnPlaces
  <2> QED
    BY <1>4, <2>1, Empties DEF RequestOver, ForgetBody, ServerTypes, View
<1> QED
  BY <1>1, <1>2, <1>3, <1>4 DEF Completed, Closed

LEMMA CleanRequest ==
  ASSUME ServerTypes, NEW c \in Connections, ConnInv(c),
         Connect(c) \/ Request(c) \/ Piece(c) \/ Completed(c) \/ Closed(c)
  PROVE  ConnInv(c)'
<1> USE DEF Move, progressVars, bodyVars, serverVars
<1>0. /\ reply[c] = "none" => ~Replied(c)
      /\ reply'[c] \in {"none", "not POST"} => ~Replied(c)'
  BY DEF Replied
<1>1. CASE Connect(c)
  <2>1. conn[c] = "closed" /\ conn'[c] = "idle"
    BY <1>1 DEF Connect, ServerTypes
  <2>2. UNCHANGED <<sent, left, context, next, asked, out, reply>>
    BY <1>1 DEF Connect
  <2>3. reply'[c] = "none"
    BY <2>1, <2>2 DEF ConnInv, Clean
  <2> QED
    BY <1>0, <2>1, <2>2, <2>3 DEF ConnInv, Clean, InBatch, Booked, OfBody, Finished
<1>2. CASE Request(c)
  <2>0. conn[c] = "idle" /\ context[c] = NoContext /\ reply[c] = "none"
    BY <1>2 DEF Request, ConnInv, Clean
  <2>1. ASSUME NEW b \in Bodies, NEW n \in 1..MaxPieces,
               sent' = [sent EXCEPT ![c] = [body |-> b, pieces |-> n]],
               left' = [left EXCEPT ![c] = n],
               context' = [context EXCEPT ![c] = IF @ = NoContext THEN 0 ELSE @],
               Move(c, "reading"), UNCHANGED progressVars
        PROVE  ConnInv(c)'
    <3>0. n \in Int
      BY PiecesType
    <3>1. /\ conn'[c] = "reading" /\ context'[c] = 0 /\ left'[c] = n
          /\ sent'[c].pieces = n /\ n \in Int
      BY <2>0, <2>1, <3>0 DEF ServerTypes
    <3>2. next'[c] = 1 /\ asked'[c] = <<>> /\ out'[c] = <<>> /\ reply'[c] = "none"
      BY <2>0, <2>1 DEF ConnInv, Clean
    <3> QED
      BY <1>0, <3>1, <3>2 DEF ConnInv, Clean, InBatch, Booked, OfBody, Finished
  <2>2. CASE /\ reply' = [reply EXCEPT ![c] = "not POST"]
             /\ Move(c, "replied") /\ UNCHANGED <<bodyVars, next, asked, out>>
    <3>1. conn'[c] = "replied" /\ reply'[c] = "not POST" /\ UNCHANGED <<sent, next, asked>>
      BY <2>2 DEF ServerTypes
    <3> QED
      BY <1>0, <2>0, <3>1 DEF ConnInv, Clean, InBatch, Booked, OfBody, Finished
  <2> QED
    BY <1>2, <2>1, <2>2 DEF Request
<1>3. CASE Piece(c)
  <2>1. /\ conn[c] = "reading" /\ left[c] > 0
        /\ left'[c] = left[c] - 1 /\ context'[c] = context[c] + 1
        /\ UNCHANGED <<conn, sent, next, asked, out, reply>>
    BY <1>3 DEF Piece, ServerTypes
  <2>2. /\ context[c] \in Nat /\ left[c] \in Nat
        /\ context[c] + left[c] = sent[c].pieces /\ reply[c] = "none"
    BY <2>1 DEF ConnInv, Clean, ServerTypes
  <2>3. context'[c] \in Nat /\ context'[c] + left'[c] = sent'[c].pieces
    <3>1. context'[c] + left'[c] = context[c] + left[c] /\ context'[c] \in Nat
      BY <2>1, <2>2
    <3> QED
      BY <2>1, <2>2, <3>1
  <2> QED
    BY <1>0, <2>1, <2>2, <2>3 DEF ConnInv, Clean, InBatch, Booked, OfBody, Finished
<1>4. ASSUME NEW pc \in {"idle", "closed"}, RequestOver(c, pc)
      PROVE  ConnInv(c)'
  <2>1. /\ conn'[c] = pc /\ context'[c] = NoContext /\ next'[c] = 1
        /\ asked'[c] = <<>> /\ out'[c] = <<>> /\ reply'[c] = "none"
    BY <1>4 DEF RequestOver, ForgetBody, ServerTypes
  <2> QED
    BY <1>0, <2>1 DEF ConnInv, Clean, InBatch, Booked, OfBody, Finished
<1> QED
  BY <1>1, <1>2, <1>3, <1>4 DEF Completed, Closed

LEMMA CodeTypes ==
  /\ \A outcome \in Outcomes : CodeOf(outcome) \in Int
  /\ \A q : RefusalCode(q) \in Int
  /\ \A q \in Requests : q.id \in STRING /\ ParamsSent(q) \in Nat \cup {Named}
  /\ \A code \in Int : <<Answer(NoId, code)>> \in Seq(Answers)
  /\ ParseError \in Int /\ InvalidRequest \in Int /\ InternalError \in Int
<1>1. \A outcome \in Outcomes : CodeOf(outcome) \in Int
  BY DEF Outcomes, CodeOf, Result, MethodNotFound, ServerError
<1>2. \A q : RefusalCode(q) \in Int
  BY DEF RefusalCode, Result, InvalidRequest, InvalidParams
<1>3. \A q \in Requests : q.id \in STRING /\ ParamsSent(q) \in Nat \cup {Named}
  BY DEF Requests, ParamsSent
<1>4. ASSUME NEW code \in Int
      PROVE  <<Answer(NoId, code)>> \in Seq(Answers)
  <2> DEFINE a == Answer(NoId, code)
  <2>1. a \in Answers
    BY DEF Answer, Answers
  <2> HIDE DEF a
  <2>2. <<a>> \in Seq(Answers)
    BY <2>1
  <2> QED
    BY <2>2 DEF a
<1>5. ParseError \in Int /\ InvalidRequest \in Int /\ InternalError \in Int
  BY DEF ParseError, InvalidRequest, InternalError
<1> QED
  BY <1>1, <1>2, <1>3, <1>4, <1>5, Zenon

\* The accumulator of a kept-alive connection holds this request and no other.
LEMMA BodyIsSent ==
  ASSUME ServerTypes, NEW c \in Connections, ConnInv(c), conn[c] = "reading", left[c] = 0
  PROVE  Received(c) = sent[c].body
<1>1. context[c] \in Nat /\ context[c] + left[c] = sent[c].pieces
  BY DEF ConnInv, Clean
<1>2. context[c] = sent[c].pieces
  BY <1>1
<1> QED
  BY <1>2 DEF Received

LEMMA SentTypes ==
  ASSUME ServerTypes, NEW c \in Connections
  PROVE  LET b == sent[c].body
         IN  /\ b.kind = "garbage" => b.requests = <<>>
             /\ Len(b.requests) \in Nat
             /\ b.requests = <<>> <=> Len(b.requests) = 0
             /\ \A i \in 1..Len(b.requests) : b.requests[i] \in Requests
<1>1. sent[c].body \in Bodies \cup {Nothing.body}
  BY DEF ServerTypes, Wire
<1> QED
  BY <1>1, BodyTypes

LEMMA Refused ==
  ASSUME ServerTypes, NEW c \in Connections, ConnInv(c), BodyRefused(c) \/ Throws(c)
  PROVE  ServerTypes' /\ ConnInv(c)' /\ \A d \in Connections \ {c} : UNCHANGED View(d)
<1> USE DEF Move, Queued, bodyVars, serverVars
<1>1. \E code \in Int, what \in {"object", "failed"} :
        /\ out' = [out EXCEPT ![c] = <<Answer(NoId, code)>>]
        /\ reply' = [reply EXCEPT ![c] = what]
        /\ what = "object" => BodyRefused(c)
  <2>1. CASE BodyRefused(c)
    BY <2>1, CodeTypes DEF BodyRefused
  <2>2. CASE Throws(c)
    BY <2>2, CodeTypes DEF Throws
  <2> QED
    BY <2>1, <2>2
<1>2. PICK code \in Int, what \in {"object", "failed"} :
        /\ out' = [out EXCEPT ![c] = <<Answer(NoId, code)>>]
        /\ reply' = [reply EXCEPT ![c] = what]
        /\ what = "object" => BodyRefused(c)
  BY <1>1
<1>3. /\ conn' = [conn EXCEPT ![c] = "replied"]
      /\ UNCHANGED <<sent, left, context, next, asked>>
  BY Zenon DEF BodyRefused, Throws
<1>4. ServerTypes' /\ \A d \in Connections \ {c} : UNCHANGED View(d)
  <2>1. <<Answer(NoId, code)>> \in Seq(Answers)
    BY CodeTypes
  <2> QED
    BY <1>2, <1>3, <2>1 DEF ServerTypes, ConnPlaces, View
<1>5. conn'[c] = "replied" /\ reply'[c] = what
  BY <1>2, <1>3 DEF ServerTypes
<1>6. ~Replied(c)'
  <2>1. CASE what = "object"
    <3>1. /\ conn[c] = "reading" /\ left[c] = 0
          /\ Received(c).kind = "garbage" \/ Received(c).requests = <<>>
      BY <1>2, <2>1, Zenon DEF BodyRefused
    <3>2. sent[c].body.requests = <<>>
      BY <3>1, BodyIsSent, SentTypes
    <3> QED
      BY <1>3, <3>2 DEF Replied
  <2> QED
    BY <1>5, <2>1 DEF Replied
<1> QED
  BY <1>3, <1>4, <1>5, <1>6 DEF ConnInv, Clean, InBatch, Booked, OfBody, Finished

LEMMA Accepted ==
  ASSUME ServerTypes, NEW c \in Connections, ConnInv(c), BodyAccepted(c) \/ Dispatch(c)
  PROVE  ServerTypes' /\ ConnInv(c)' /\ \A d \in Connections \ {c} : UNCHANGED View(d)
<1> USE DEF Move, bodyVars, serverVars, progressVars
<1>1. UNCHANGED <<sent, left, context, next, asked, out, reply>>
  BY Zenon DEF BodyAccepted, Dispatch
<1>2. CASE BodyAccepted(c)
  <2>1. /\ conn[c] = "reading" /\ left[c] = 0 /\ Received(c).requests # <<>>
        /\ conn' = [conn EXCEPT ![c] = "handling"]
    BY <1>2, Zenon DEF BodyAccepted
  <2>2. ServerTypes' /\ conn'[c] = "handling"
        /\ \A d \in Connections \ {c} : UNCHANGED View(d)
    BY <1>1, <2>1 DEF ServerTypes, ConnPlaces, View
  <2>3. sent[c].body.requests # <<>>
    BY <2>1, BodyIsSent
  <2>4. /\ next[c] = 1 /\ asked[c] = <<>> /\ out[c] = <<>> /\ reply[c] = "none"
    BY <2>1 DEF ConnInv, Clean
  <2>5. next[c] <= Len(sent[c].body.requests) + 1
    BY <2>4, SentTypes
  <2>6. AskedUpTo(sent[c].body, <<>>, 1) /\ AnsweredUpTo(sent[c].body, <<>>, <<>>, 1)
    BY NothingYet
  <2> QED
    BY <1>1, <2>2, <2>3, <2>4, <2>5, <2>6
    DEF ConnInv, Clean, InBatch, Booked, OfBody, Finished, Replied
<1>3. CASE Dispatch(c)
  <2>1. /\ conn[c] = "handling" /\ next[c] <= Len(sent[c].body.requests)
        /\ WellFormed(sent[c].body, next[c])
        /\ conn' = [conn EXCEPT ![c] = "calling"]
    BY <1>3, Zenon DEF Dispatch, More, WellFormed, Current
  <2>2. ServerTypes' /\ conn'[c] = "calling"
        /\ \A d \in Connections \ {c} : UNCHANGED View(d)
    BY <1>1, <2>1 DEF ServerTypes, ConnPlaces, View
  <2>3. /\ AskedUpTo(sent[c].body, asked[c], next[c])
        /\ AnsweredUpTo(sent[c].body, asked[c], out[c], next[c])
        /\ sent[c].body.requests # <<>> /\ reply[c] = "none"
        /\ next[c] <= Len(sent[c].body.requests) + 1
    BY <2>1 DEF ConnInv, Clean, InBatch, Booked
  <2> QED
    BY <1>1, <2>1, <2>2, <2>3 DEF ConnInv, Clean, InBatch, Booked, OfBody, Finished, Replied
<1> QED
  BY <1>2, <1>3

\* handleOne() for one element: refused, or dispatched and back.
LEMMA Handled ==
  ASSUME ServerTypes, NEW c \in Connections, ConnInv(c), Refuse(c) \/ Returned(c)
  PROVE  ServerTypes' /\ ConnInv(c)' /\ \A d \in Connections \ {c} : UNCHANGED View(d)
<1> USE DEF Move, bodyVars, serverVars
<1> DEFINE batch == sent[c].body
           here == next[c]
           q == batch.requests[here]
<1>1. /\ conn[c] \in {"handling", "calling"} /\ here <= Len(batch.requests) /\ here \in Nat \ {0}
      /\ conn' = [conn EXCEPT ![c] = "handling"]
      /\ next' = [next EXCEPT ![c] = here + 1]
      /\ UNCHANGED <<sent, left, context, reply>>
  <2>1. here \in Nat \ {0}
    BY DEF ServerTypes
  <2>2. CASE Refuse(c)
    <3>1. conn = [conn EXCEPT ![c] = "handling"]
      BY <2>2 DEF Refuse, More, ServerTypes
    <3> QED
      BY <2>1, <2>2, <3>1 DEF Refuse, More
  <2>3. CASE Returned(c)
    BY <2>1, <2>3 DEF Returned, ConnInv, InBatch
  <2> QED
    BY <2>2, <2>3
<1>2. /\ AskedUpTo(batch, asked[c], here) /\ AnsweredUpTo(batch, asked[c], out[c], here)
      /\ asked[c] \in Seq(Dispatches) /\ out[c] \in Seq(Answers)
      /\ batch.requests # <<>> /\ reply[c] = "none" /\ Len(batch.requests) \in Nat
      /\ q \in Requests
  <2>1. here \in 1..Len(batch.requests) /\ Len(batch.requests) \in Nat
    BY <1>1, SentTypes
  <2>2. q \in Requests
    BY <2>1, SentTypes
  <2> QED
    BY <1>1, <2>1, <2>2 DEF ServerTypes, ConnInv, Clean, InBatch, Booked
<1>3. /\ q.id \in STRING /\ ParamsSent(q) \in Nat \cup {Named}
  BY <1>2, CodeTypes
<1>4. \E told \in Seq(Dispatches), code \in Int :
        /\ asked' = [asked EXCEPT ![c] = told]
        /\ Respond(c, code)
        /\ AskedUpTo(batch, told, here + 1)
        /\ CodeFor(batch, told, here, code)
        /\ \A k \in DOMAIN asked[c] : k \in DOMAIN told /\ told[k] = asked[c][k]
  <2>1. CASE Refuse(c)
    <3>1. /\ ~WellFormed(batch, here) /\ Respond(c, RefusalCode(q)) /\ asked' = asked
      BY <2>1, Zenon DEF Refuse, WellFormed, Current
    <3>2. asked' = [asked EXCEPT ![c] = asked[c]]
      BY <3>1 DEF ServerTypes
    <3>3. AskedUpTo(batch, asked[c], here + 1)
      BY <1>1, <1>2, <3>1, AskedRefused
    <3>4. CodeFor(batch, asked[c], here, RefusalCode(q)) /\ RefusalCode(q) \in Int
      BY <3>1, CodeTypes DEF CodeFor
    <3> QED
      BY <1>2, <3>1, <3>2, <3>3, <3>4, Zenon
  <2>2. CASE Returned(c)
    <3>1. WellFormed(batch, here)
      BY <2>2 DEF Returned, ConnInv, InBatch
    <3>2. PICK outcome \in Outcomes :
            /\ asked' = [asked EXCEPT ![c] =
                           Append(asked[c], <<here, ParamsSent(q), outcome>>)]
            /\ Respond(c, CodeOf(outcome))
      BY <2>2 DEF Returned, Current
    <3> DEFINE told == Append(asked[c], <<here, ParamsSent(q), outcome>>)
    <3> DEFINE new == <<here, ParamsSent(q), outcome>>
    <3>3. new \in Dispatches /\ new[1] = here /\ new[2] = ParamsSent(q) /\ new[3] = outcome
      BY <1>1, <1>3 DEF Dispatches
    <3>4. /\ told \in Seq(Dispatches) /\ AskedUpTo(batch, told, here + 1)
          /\ Len(asked[c]) + 1 \in DOMAIN told
          /\ told[Len(asked[c]) + 1] = new
          /\ \A k \in DOMAIN asked[c] : k \in DOMAIN told /\ told[k] = asked[c][k]
      <4>1. /\ asked[c] \in Seq(Dispatches) /\ here \in Nat \ {0}
            /\ AskedUpTo(batch, asked[c], here) /\ WellFormed(batch, here)
            /\ new[2] = ParamsSent(batch.requests[here])
        BY <1>1, <1>2, <3>1, <3>3
      <4> HIDE DEF new
      <4>2. /\ told \in Seq(Dispatches) /\ Len(told) = Len(asked[c]) + 1
            /\ \A k \in 1..Len(asked[c]) : told[k] = asked[c][k]
            /\ told[Len(asked[c]) + 1] = new
        BY <3>3, <4>1, AppendProperties DEF new
      <4>3. PICK b, n, e, t : b = batch /\ n = here /\ e = new /\ t = told
        OBVIOUS
      <4>4. /\ n \in Nat \ {0} /\ AskedUpTo(b, asked[c], n) /\ WellFormed(b, n)
            /\ e \in Dispatches /\ e[1] = n /\ e[2] = ParamsSent(b.requests[n])
        BY <3>3, <4>1, <4>3
      <4>5. /\ asked[c] \in Seq(Dispatches) /\ t \in Seq(Dispatches)
            /\ Len(t) = Len(asked[c]) + 1 /\ t[Len(asked[c]) + 1] = e
            /\ \A k \in 1..Len(asked[c]) : t[k] = asked[c][k]
        BY <4>1, <4>2, <4>3
      <4>6. AskedUpTo(b, t, n + 1)
        BY ONLY <4>4, <4>5, AskedDispatched
      <4>7. /\ Len(asked[c]) + 1 \in DOMAIN t
            /\ \A k \in DOMAIN asked[c] : k \in DOMAIN t /\ t[k] = asked[c][k]
        <5>1. /\ Len(asked[c]) \in Nat /\ DOMAIN asked[c] = 1..Len(asked[c])
              /\ DOMAIN t = 1..Len(t)
          BY ONLY <4>5, LenProperties
        <5> QED
          BY ONLY <4>5, <5>1
      <4> HIDE DEF batch, here, q, told
      <4> QED
        BY <4>2, <4>3, <4>6, <4>7
    <3>5. asked' = [asked EXCEPT ![c] = told]
      BY <3>2
    <3> HIDE DEF told, new
    <3>6. CodeFor(batch, told, here, CodeOf(outcome))
      BY <3>1, <3>4, <3>3 DEF CodeFor
    <3>7. CodeOf(outcome) \in Int
      BY CodeTypes
    <3> QED
      BY <3>2, <3>4, <3>5, <3>6, <3>7
  <2> QED
    BY <2>1, <2>2
<1>5. PICK told \in Seq(Dispatches), code \in Int :
        /\ asked' = [asked EXCEPT ![c] = told]
        /\ Respond(c, code)
        /\ AskedUpTo(batch, told, here + 1)
        /\ CodeFor(batch, told, here, code)
        /\ \A k \in DOMAIN asked[c] : k \in DOMAIN told /\ told[k] = asked[c][k]
  BY <1>4
<1> DEFINE answers == IF IsNotification(q) THEN out[c] ELSE Append(out[c], Answer(q.id, code))
<1>6. answers \in Seq(Answers) /\ AnsweredUpTo(batch, told, answers, here + 1)
  BY <1>1, <1>2, <1>3, <1>5, AnsweredNext
<1>7. out' = [out EXCEPT ![c] = answers]
  BY <1>5 DEF Respond, Current
<1> HIDE DEF answers
<1>8. ServerTypes' /\ \A d \in Connections \ {c} : UNCHANGED View(d)
  <2>1. here + 1 \in Nat \ {0}
    BY <1>1
  <2> QED
    BY <1>1, <1>5, <1>6, <1>7, <2>1 DEF ServerTypes, ConnPlaces, View
<1>9. /\ conn'[c] = "handling" /\ next'[c] = here + 1 /\ asked'[c] = told /\ out'[c] = answers
      /\ sent'[c].body = batch /\ reply'[c] = "none"
  BY <1>1, <1>2, <1>5, <1>7 DEF ServerTypes
<1>10. here + 1 <= Len(batch.requests) + 1
  BY <1>1, <1>2
<1> HIDE DEF batch, here
<1> QED
  BY <1>2, <1>5, <1>6, <1>8, <1>9, <1>10
  DEF ConnInv, Clean, InBatch, Booked, OfBody, Finished, Replied

LEMMA HandledAll ==
  ASSUME ServerTypes, NEW c \in Connections, ConnInv(c), BodyHandled(c)
  PROVE  ServerTypes' /\ ConnInv(c)' /\ \A d \in Connections \ {c} : UNCHANGED View(d)
<1> USE DEF Move, Queued, bodyVars, serverVars
<1> DEFINE what == IF out[c] = <<>> THEN "empty"
                   ELSE IF sent[c].body.kind = "batch" THEN "array" ELSE "object"
<1>1. /\ conn[c] = "handling" /\ ~(next[c] <= Len(sent[c].body.requests))
      /\ conn' = [conn EXCEPT ![c] = "replied"]
      /\ reply' = [reply EXCEPT ![c] = what]
      /\ UNCHANGED <<sent, left, context, next, asked, out>>
  BY DEF BodyHandled, More
<1>2. /\ what \in {"empty", "array", "object"}
      /\ what = "empty" <=> out[c] = <<>>
  OBVIOUS
<1> HIDE DEF what
<1>3. ServerTypes' /\ \A d \in Connections \ {c} : UNCHANGED View(d)
  BY <1>1, <1>2 DEF ServerTypes, ConnPlaces, View
<1>4. conn'[c] = "replied" /\ reply'[c] = what
  BY <1>1 DEF ServerTypes
<1>5. next[c] = Len(sent[c].body.requests) + 1
  <2>1. next[c] \in Nat /\ Len(sent[c].body.requests) \in Nat
    BY SentTypes DEF ServerTypes
  <2>2. next[c] <= Len(sent[c].body.requests) + 1
    BY <1>1 DEF ConnInv, InBatch
  <2> QED
    BY <1>1, <2>1, <2>2
<1>6. /\ AskedUpTo(sent[c].body, asked[c], next[c])
      /\ AnsweredUpTo(sent[c].body, asked[c], out[c], next[c])
  BY <1>1 DEF ConnInv, Booked
<1> QED
  BY <1>1, <1>2, <1>3, <1>4, <1>5, <1>6
  DEF ConnInv, Clean, InBatch, Booked, OfBody, Finished, Replied

LEMMA StepServerInv == ServerInv /\ [Next]_vars => ServerInv'
<1> SUFFICES ASSUME ServerInv, [Next]_vars PROVE ServerInv'
  OBVIOUS
<1>1. ServerTypes /\ \A c \in Connections : ConnInv(c)
  BY DEF ServerInv
<1>2. CASE UNCHANGED connVars
  <2>1. UNCHANGED <<conn, sent, left, context, next, asked, out, reply>>
    BY <1>2 DEF connVars, bodyVars, progressVars
  <2>2. ServerTypes'
    BY <1>1, <2>1 DEF ServerTypes
  <2>3. \A c \in Connections : UNCHANGED View(c)
    BY <2>1 DEF View
  <2> QED
    BY <1>1, <2>2, <2>3, ConnStays DEF ServerInv
<1>3. ASSUME NEW c \in Connections, Handler(c) \/ Client(c)
      PROVE  ServerInv'
  <2>1. ServerTypes' /\ ConnInv(c)' /\ \A d \in Connections \ {c} : UNCHANGED View(d)
    <3>1. CASE Connect(c) \/ Request(c) \/ Piece(c) \/ Completed(c) \/ Closed(c)
      BY <1>1, <3>1, RequestTypes, CleanRequest
    <3>2. CASE BodyRefused(c) \/ Throws(c)
      BY <1>1, <3>2, Refused
    <3>3. CASE BodyAccepted(c) \/ Dispatch(c)
      BY <1>1, <3>3, Accepted
    <3>4. CASE Refuse(c) \/ Returned(c)
      BY <1>1, <3>4, Handled
    <3>5. CASE BodyHandled(c)
      BY <1>1, <3>5, HandledAll
    <3> QED
      BY <1>3, <3>1, <3>2, <3>3, <3>4, <3>5, Zenon DEF Handler, Client
  <2>2. \A d \in Connections \ {c} : ConnInv(d)'
    BY <1>1, <2>1, ConnStays
  <2> QED
    BY <2>1, <2>2 DEF ServerInv
<1>4. ASSUME NEW w \in Workers, Worker(w)
      PROVE  UNCHANGED connVars
  BY <1>4, Zenon DEF Worker, Use, Start, StartRefused, Stop, StopReturns, Look
<1> QED
  BY <1>2, <1>3, <1>4, Zenon DEF Next, vars

-----------------------------------------------------------------------------
(* What it comes to *)

\* Once stop() has returned, no connection, no accumulated body and no handler
\* is left, for any number of connections and workers: MHD_stop_daemon has
\* joined every thread, and nobody gets in before the next start().
\* (RpcHttpServer::stop().)
THEOREM NothingIsLeft == Spec => []NothingAfterStop
<1> DEFINE Shut == ~daemon => \A c \in Connections : conn[c] = "closed"
<1>1. Init => ServerInv /\ Shut
  BY InitServerInv DEF Init
<1>2. ServerInv /\ Shut /\ [Next]_vars => ServerInv' /\ Shut'
  <2> SUFFICES ASSUME ServerInv, Shut, [Next]_vars PROVE Shut'
    BY StepServerInv
  <2>1. CASE UNCHANGED vars
    BY <2>1 DEF vars, serverVars, connVars
  <2>2. ASSUME NEW w \in Workers, Worker(w)
        PROVE  Shut'
    <3>1. conn' = conn
      BY <2>2, Zenon
      DEF Worker, Use, Start, StartRefused, Stop, StopReturns, Look, connVars
    <3>2. daemon' = daemon \/ daemon' = TRUE \/ \A c \in Connections : conn[c] = "closed"
      BY <2>2, Zenon DEF Worker, Use, Start, StartRefused, Stop, StopReturns, Look
    <3> QED
      BY <3>1, <3>2
  <2>3. ASSUME NEW c \in Connections, Handler(c) \/ Client(c)
        PROVE  Shut'
    <3>1. daemon' = daemon
      BY <2>3, Zenon
      DEF Handler, BodyRefused, BodyAccepted, Refuse, Dispatch, Returned, Throws,
          BodyHandled, Client, Connect, Request, Piece, Completed, Closed, RequestOver,
          serverVars
    <3>2. daemon \/ conn[c] # "closed"
      BY <2>3
      DEF Handler, BodyRefused, BodyAccepted, Refuse, Dispatch, Returned, Throws, More,
          BodyHandled, Client, Connect, Request, Piece, Completed, Closed
    <3> QED
      BY <3>1, <3>2
  <2> QED
    BY <2>1, <2>2, <2>3 DEF Next
<1>3. ServerInv /\ Shut => NothingAfterStop
  BY DEF ServerInv, ConnInv, Clean, NothingAfterStop
<1> QED
  BY <1>1, <1>2, <1>3, PTL DEF Spec

\* What json::parse is given is the body of this request, whole, however many
\* requests the connection has carried and however they ended.
ParsedIsSent ==
  \A c \in Connections :
    conn[c] = "reading" /\ left[c] = 0 => Received(c) = sent[c].body

\* A kept-alive connection never mixes the bodies of two requests. (onRequest()
\* and onRequestCompleted(), *con_cls.)
THEOREM BodiesAreNotMixed == Spec => []ParsedIsSent
<1>1. ServerInv => ParsedIsSent
  BY BodyIsSent DEF ServerInv, ParsedIsSent
<1> QED
  BY <1>1, InitServerInv, StepServerInv, PTL DEF Spec

\* The dispatches of a body, however far it has got.
CalledInOrder(requests, dispatches) ==
  /\ \A k, l \in DOMAIN dispatches :
       k < l => dispatches[k][1] < dispatches[l][1]
  /\ \A k \in DOMAIN dispatches :
       LET i == dispatches[k][1]
           q == requests[i]
           given == dispatches[k][2]
       IN /\ i \in 1..Len(requests) /\ RefusalCode(requests[i]) = Result
          /\ \A j \in 1..i : RefusalCode(requests[j]) = Result =>
               \E l \in DOMAIN dispatches : dispatches[l][1] = j
          /\ IF q.method = "state" THEN given >= 3 \/ q.params < 2
                                   ELSE given = q.params
          /\ q.params # 2 => given = q.params

LEMMA AskedInOrder ==
  ASSUME NEW b, NEW d, NEW n \in Nat \ {0}, AskedUpTo(b, d, n),
         Len(b.requests) \in Nat, n <= Len(b.requests) + 1,
         \A i \in 1..Len(b.requests) : b.requests[i] \in Requests
  PROVE  CalledInOrder(b.requests, d)
<1>1. ASSUME NEW k \in DOMAIN d
      PROVE  LET i == d[k][1]
                 q == b.requests[i]
                 given == d[k][2]
             IN /\ i \in 1..Len(b.requests) /\ RefusalCode(b.requests[i]) = Result
                /\ \A j \in 1..i : RefusalCode(b.requests[j]) = Result =>
                     \E l \in DOMAIN d : d[l][1] = j
                /\ IF q.method = "state" THEN given >= 3 \/ q.params < 2
                                         ELSE given = q.params
                /\ q.params # 2 => given = q.params
  <2> DEFINE i == d[k][1]
             q == b.requests[i]
  <2>1. i \in 1..(n - 1) /\ RefusalCode(q) = Result /\ d[k][2] = ParamsSent(q)
    BY DEF AskedUpTo, WellFormed
  <2>2. i \in 1..Len(b.requests) /\ \A j \in 1..i : j \in 1..(n - 1)
    BY <2>1
  <2>3. \A j \in 1..i : RefusalCode(b.requests[j]) = Result => \E l \in DOMAIN d : d[l][1] = j
    BY <2>2 DEF AskedUpTo, WellFormed
  <2>4. q.params \in Nat
    BY <2>1, <2>2 DEF Requests, RefusalCode, InvalidParams, InvalidRequest, Result
  <2>5. /\ IF q.method = "state" THEN d[k][2] >= 3 \/ q.params < 2 ELSE d[k][2] = q.params
        /\ q.params # 2 => d[k][2] = q.params
    BY <2>1, <2>4 DEF ParamsSent
  <2> QED
    BY <2>1, <2>2, <2>3, <2>5
<1> QED
  BY <1>1 DEF CalledInOrder, AskedUpTo

\* A batch of any length, on any number of connections, is dispatched request by
\* request, once and in order, with its own parameters. (handleBody(),
\* handleOne().)
THEOREM BatchIsDispatchedOnce == Spec => []OneCallPerRequest
<1>1. ASSUME ServerInv, NEW c \in Connections
      PROVE  CalledInOrder(sent[c].body.requests, asked[c])
  <2>1. CASE asked[c] = <<>>
    BY <2>1 DEF CalledInOrder
  <2>2. CASE asked[c] # <<>>
    <3>1. /\ AskedUpTo(sent[c].body, asked[c], next[c])
          /\ next[c] <= Len(sent[c].body.requests) + 1 /\ next[c] \in Nat \ {0}
      BY <1>1, <2>2 DEF ServerInv, ServerTypes, ConnInv, OfBody
    <3> QED
      BY <1>1, <3>1, SentTypes, AskedInOrder DEF ServerInv
  <2> QED
    BY <2>1, <2>2
<1>2. ASSUME ServerInv, NEW c \in Connections, reply[c] \in {"object", "array", "empty"}
      PROVE  \A j \in 1..Len(sent[c].body.requests) : WellFormed(sent[c].body, j) =>
               \E l \in DOMAIN asked[c] : asked[c][l][1] = j
  <2>0. /\ Len(sent[c].body.requests) \in Nat
        /\ sent[c].body.requests = <<>> <=> Len(sent[c].body.requests) = 0
    BY <1>2, SentTypes DEF ServerInv
  <2>1. CASE sent[c].body.requests = <<>>
    BY <2>0, <2>1
  <2>2. CASE sent[c].body.requests # <<>>
    <3>1. AskedUpTo(sent[c].body, asked[c], next[c])
      BY <1>2, <2>2 DEF ServerInv, ConnInv, Booked, Replied
    <3>2. next[c] - 1 = Len(sent[c].body.requests)
      BY <1>2, <2>0, <2>2 DEF ServerInv, ConnInv, Finished, Replied
    <3> QED
      BY <3>1, <3>2 DEF AskedUpTo
  <2> QED
    BY <2>1, <2>2
<1>3. ServerInv => OneCallPerRequest
  BY <1>1, <1>2 DEF CalledInOrder, OneCallPerRequest, WellFormed
<1> QED
  BY <1>3, InitServerInv, StepServerInv, PTL DEF Spec

\* A batch of any length is answered in place: each request with an id once,
\* where the order of the batch puts it, under its own id and with what it was
\* refused for or its own dispatch came back with. (handleBody(), handleOne().)
THEOREM BatchIsAnsweredInPlace == Spec => []OneAnswerPerRequest
<1>1. ServerInv => OneAnswerPerRequest
  <2> SUFFICES ASSUME ServerInv, NEW c \in Connections,
                      reply[c] \in {"object", "array", "empty"}, sent[c].body.requests # <<>>
               PROVE  LET b == sent[c].body
                          owed == OwedBefore(b, Len(b.requests) + 1)
                      IN /\ Len(out[c]) = Cardinality(owed)
                         /\ \A i \in owed :
                              LET answer == out[c][Cardinality(OwedBefore(b, i)) + 1]
                              IN  /\ answer.id = b.requests[i].id
                                  /\ CodeFor(b, asked[c], i, answer.code)
                         /\ (reply[c] = "empty") = (owed = {})
    BY DEF OneAnswerPerRequest
  <2> DEFINE b == sent[c].body
             owed == OwedBefore(b, Len(b.requests) + 1)
  <2>1. /\ next[c] = Len(b.requests) + 1
        /\ AnsweredUpTo(b, asked[c], out[c], next[c])
        /\ reply[c] = "empty" <=> out[c] = <<>>
    BY DEF ServerInv, ConnInv, Finished, Booked, Replied
  <2>2. out[c] = <<>> <=> Len(out[c]) = 0
    BY EmptySeq, LenProperties DEF ServerInv, ServerTypes
  <2>3. Cardinality(owed) = 0 <=> owed = {}
    BY OwedFinite, SentTypes, FS_EmptySet DEF ServerInv
  <2> QED
    BY <2>1, <2>2, <2>3 DEF AnsweredUpTo
<1> QED
  BY <1>1, InitServerInv, StepServerInv, PTL DEF Spec
=============================================================================
