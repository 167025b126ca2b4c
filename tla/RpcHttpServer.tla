--------------------------- MODULE RpcHttpServer ---------------------------
(***************************************************************************)
(* RpcHttpServer: a libmicrohttpd daemon with one thread per connection,   *)
(* request bodies that arrive in pieces, handlers that block inside the    *)
(* runtime's call(), and workers that start, stop and look at the server.  *)
(*                                                                         *)
(* m_impl->mu needs no variable: only stop() holds it across a wait, while *)
(* some worker is "joining".  One callback of MHD is one action, except    *)
(* that the last one of a request, onRequest() into handleBody(), may be   *)
(* overtaken where handleOne() blocks: before and after each dispatch.     *)
(***************************************************************************)
EXTENDS JsonRpc, FiniteSets

CONSTANTS
  Connections,   \* client connections
  Workers,       \* threads that use the server object
  Bodies,        \* request bodies: what json::parse makes of them
  MaxPieces      \* most pieces MHD delivers a body in

Kinds    == {"garbage", "single", "batch"}
Outcomes == {"value", "unknown", "failure"}

ASSUME HttpAssumption ==
  /\ MaxPieces \in Nat \ {0}
  /\ \A b \in Bodies :
       /\ b.kind \in Kinds /\ b.requests \in Seq(Requests)
       /\ b.kind = "garbage" => b.requests = <<>>
       /\ b.kind = "single" => Len(b.requests) = 1

VARIABLES
  daemon,    \* m_impl->daemon # nullptr
  api,       \* where each worker is; "joining" is inside MHD_stop_daemon
  conn,      \* where each connection is
  sent,      \* the request on the wire: its body, and in how many pieces
  left,      \* pieces still to be delivered
  context,   \* *con_cls: pieces in the accumulator, NoContext for nullptr
  next,      \* the batch element handleOne() is at
  asked,     \* dispatches of this request: element, parameters, outcome
  out,       \* answers collected so far
  reply      \* what was queued as the response, "none" before

progressVars == <<next, asked, out, reply>>
bodyVars     == <<sent, left, context>>
serverVars   == <<daemon, api>>
connVars     == <<conn, bodyVars, progressVars>>
vars         == <<serverVars, connVars>>

NoContext == -1
Nothing   == [body |-> [kind |-> "garbage", requests |-> <<>>], pieces |-> 0]

Init ==
  /\ daemon = FALSE
  /\ api = [w \in Workers |-> "free"]
  /\ conn = [c \in Connections |-> "closed"]
  /\ sent = [c \in Connections |-> Nothing]
  /\ left = [c \in Connections |-> 0]
  /\ context = [c \in Connections |-> NoContext]
  /\ next = [c \in Connections |-> 1]
  /\ asked = [c \in Connections |-> <<>>]
  /\ out = [c \in Connections |-> <<>>]
  /\ reply = [c \in Connections |-> "none"]

-----------------------------------------------------------------------------
(* The server object: start(), stop(), running() and endpoint() *)

Joining == \E w \in Workers : api[w] = "joining"    \* m_impl->mu is held

Onto(w, pc) == api' = [api EXCEPT ![w] = pc]

Use(w) ==
  /\ api[w] = "free"
  /\ \E what \in {"starting", "stopping", "looking"} : Onto(w, what)
  /\ UNCHANGED <<daemon, connVars>>

Start(w) ==
  /\ api[w] = "starting" /\ ~Joining /\ ~daemon
  /\ daemon' = TRUE
  /\ Onto(w, "free")
  /\ UNCHANGED connVars

\* A second start is refused; so are a limit of zero, a bad address and a port
\* that is taken.  None of them changes anything.
StartRefused(w) ==
  /\ api[w] = "starting" /\ ~Joining
  /\ Onto(w, "free")
  /\ UNCHANGED <<daemon, connVars>>

Stop(w) ==
  /\ api[w] = "stopping" /\ ~Joining
  /\ Onto(w, IF daemon THEN "joining" ELSE "free")
  /\ UNCHANGED <<daemon, connVars>>

\* Mutant of StopReturns: the handlers' threads are not joined.
StopReturnsAtOnce(w) ==
  /\ api[w] = "joining"
  /\ daemon' = FALSE
  /\ Onto(w, "free")
  /\ UNCHANGED connVars

StopReturns(w) ==
  /\ api[w] = "joining"
  /\ \A c \in Connections : conn[c] = "closed"
  /\ daemon' = FALSE
  /\ Onto(w, "free")
  /\ UNCHANGED connVars

\* running() and endpoint(), as status() and localEndpoint() call them.
Look(w) ==
  /\ api[w] = "looking" /\ ~Joining
  /\ Onto(w, "free")
  /\ UNCHANGED <<daemon, connVars>>

Worker(w) ==
  \/ Use(w)
  \/ Start(w) \/ StartRefused(w)
  \/ Stop(w) \/ StopReturns(w)
  \/ Look(w)

-----------------------------------------------------------------------------
(* MHD: connections, and the pieces of a body *)

Move(c, pc) == conn' = [conn EXCEPT ![c] = pc]

Connect(c) ==
  /\ conn[c] = "closed" /\ daemon /\ ~Joining
  /\ Move(c, "idle")
  /\ UNCHANGED <<serverVars, bodyVars, progressVars>>

\* onRequestCompleted(): delete the accumulator, *con_cls = nullptr.
ForgetBody(c) == context' = [context EXCEPT ![c] = NoContext]

\* The first callback of a request; for anything but POST, the only one.
Request(c) ==
  /\ conn[c] = "idle" /\ ~Joining
  /\ \/ /\ \E b \in Bodies, n \in 1..MaxPieces :
             /\ sent' = [sent EXCEPT ![c] = [body |-> b, pieces |-> n]]
             /\ left' = [left EXCEPT ![c] = n]
        /\ context' = [context EXCEPT ![c] = IF @ = NoContext THEN 0 ELSE @]
        /\ Move(c, "reading")
        /\ UNCHANGED progressVars
     \/ /\ reply' = [reply EXCEPT ![c] = "not POST"]
        /\ Move(c, "replied")
        /\ UNCHANGED <<bodyVars, next, asked, out>>
  /\ UNCHANGED serverVars

Piece(c) ==
  /\ conn[c] = "reading" /\ left[c] > 0
  /\ left' = [left EXCEPT ![c] = @ - 1]
  /\ context' = [context EXCEPT ![c] = @ + 1]
  /\ UNCHANGED <<serverVars, conn, sent, progressVars>>

\* What json::parse sees: the body, if the accumulator holds it and no more.
Received(c) ==
  IF context[c] = sent[c].pieces THEN sent[c].body ELSE Nothing.body

\* The request is over, answered or not; the connection may serve another.
RequestOver(c, pc) ==
  /\ Move(c, pc)
  /\ ForgetBody(c)
  /\ sent' = [sent EXCEPT ![c] = Nothing]
  /\ left' = [left EXCEPT ![c] = 0]
  /\ next' = [next EXCEPT ![c] = 1]
  /\ asked' = [asked EXCEPT ![c] = <<>>]
  /\ out' = [out EXCEPT ![c] = <<>>]
  /\ reply' = [reply EXCEPT ![c] = "none"]
  /\ UNCHANGED serverVars

Completed(c) ==
  /\ conn[c] = "replied"
  /\ \E pc \in {"idle", "closed"} : RequestOver(c, pc)

\* The client hangs up, or MHD_stop_daemon closes the connection, while no
\* callback is running.
Closed(c) ==
  /\ conn[c] \in {"idle", "reading"}
  /\ RequestOver(c, "closed")

-----------------------------------------------------------------------------
(* The last callback: handleBody() *)

Queued(c, what) ==
  /\ reply' = [reply EXCEPT ![c] = what]
  /\ Move(c, "replied")

\* json::parse fails, or the batch is empty: one error that names no request.
BodyRefused(c) ==
  LET b == Received(c)
      code == IF b.kind = "garbage" THEN ParseError ELSE InvalidRequest
  IN /\ conn[c] = "reading" /\ left[c] = 0
     /\ b.kind = "garbage" \/ b.requests = <<>>
     /\ out' = [out EXCEPT ![c] = <<Answer(NoId, code)>>]
     /\ Queued(c, "object")
     /\ UNCHANGED <<serverVars, bodyVars, next, asked>>

BodyAccepted(c) ==
  /\ conn[c] = "reading" /\ left[c] = 0
  /\ Received(c).requests # <<>>
  /\ Move(c, "handling")
  /\ UNCHANGED <<serverVars, bodyVars, progressVars>>

Current(c) == sent[c].body.requests[next[c]]

\* Mutant of Respond: a notification is answered like any other request.
RespondAlways(c, code) ==
  out' = [out EXCEPT ![c] = Append(@, Answer(Current(c).id, code))]

Respond(c, code) ==
  out' = [out EXCEPT ![c] =
            IF IsNotification(Current(c)) THEN @
            ELSE Append(@, Answer(Current(c).id, code))]

More(c) == conn[c] = "handling" /\ next[c] <= Len(sent[c].body.requests)

\* handleOne() up to its early returns.
Refuse(c) ==
  /\ More(c)
  /\ RefusalCode(Current(c)) # Result
  /\ Respond(c, RefusalCode(Current(c)))
  /\ next' = [next EXCEPT ![c] = @ + 1]
  /\ UNCHANGED <<serverVars, conn, bodyVars, asked, reply>>

\* Mutant of Dispatch: the handler takes m_impl->mu before it uses the server.
DispatchUnderMutex(c) ==
  /\ More(c) /\ ~Joining
  /\ RefusalCode(Current(c)) = Result
  /\ Move(c, "calling")
  /\ UNCHANGED <<serverVars, bodyVars, progressVars>>

\* handleOne() into the runtime's call().
Dispatch(c) ==
  /\ More(c)
  /\ RefusalCode(Current(c)) = Result
  /\ Move(c, "calling")
  /\ UNCHANGED <<serverVars, bodyVars, progressVars>>

\* Mutant of Returned: a notification is skipped instead of dispatched.
ReturnedUnlessNotification(c) ==
  /\ conn[c] = "calling"
  /\ \E outcome \in Outcomes :
       /\ asked' = [asked EXCEPT ![c] =
            IF IsNotification(Current(c)) THEN @
            ELSE Append(@, <<next[c], ParamsSent(Current(c)), outcome>>)]
       /\ Respond(c, CodeOf(outcome))
  /\ next' = [next EXCEPT ![c] = @ + 1]
  /\ Move(c, "handling")
  /\ UNCHANGED <<serverVars, bodyVars, reply>>

\* The call comes back, with a value or an error.
Returned(c) ==
  /\ conn[c] = "calling"
  /\ \E outcome \in Outcomes :
       /\ asked' = [asked EXCEPT ![c] =
                      Append(@, <<next[c], ParamsSent(Current(c)), outcome>>)]
       /\ Respond(c, CodeOf(outcome))
  /\ next' = [next EXCEPT ![c] = @ + 1]
  /\ Move(c, "handling")
  /\ UNCHANGED <<serverVars, bodyVars, reply>>

\* Dispatch throws: the answers collected so far are dropped with the batch.
Throws(c) ==
  /\ conn[c] = "calling"
  /\ out' = [out EXCEPT ![c] = <<Answer(NoId, InternalError)>>]
  /\ Queued(c, "failed")
  /\ UNCHANGED <<serverVars, bodyVars, next, asked>>

BodyHandled(c) ==
  /\ conn[c] = "handling" /\ ~More(c)
  /\ Queued(c, IF out[c] = <<>> THEN "empty"
               ELSE IF sent[c].body.kind = "batch" THEN "array" ELSE "object")
  /\ UNCHANGED <<serverVars, bodyVars, next, asked, out>>

Handler(c) ==
  \/ BodyRefused(c) \/ BodyAccepted(c)
  \/ Refuse(c) \/ Dispatch(c)
  \/ Returned(c) \/ Throws(c)
  \/ BodyHandled(c)

Client(c) == Connect(c) \/ Request(c) \/ Piece(c) \/ Completed(c) \/ Closed(c)

Next ==
  \/ \E w \in Workers : Worker(w)
  \/ \E c \in Connections : Handler(c) \/ Client(c)

Spec == Init /\ [][Next]_vars

\* MHD_stop_daemon closes what is not inside a callback, handlers run, and
\* call() comes back in the end (its waits are bounded).  Nothing is asked of
\* clients, and none of the handlers need be served before another.
FairSpec ==
  /\ Spec
  /\ WF_vars(\E w \in Workers : StopReturns(w))
  /\ WF_vars(\E c \in Connections : Handler(c))
  /\ WF_vars(Joining /\ \E c \in Connections : Completed(c) \/ Closed(c))

-----------------------------------------------------------------------------
(* Properties *)

WellFormed(b, i) == RefusalCode(b.requests[i]) = Result

\* The requests before the n-th that have an answer coming.
OwedBefore(b, n) == {j \in 1..(n - 1) : ~IsNotification(b.requests[j])}

\* What a request is told: its refusal, or what its own dispatch came back with.
CodeFor(b, dispatches, i, code) ==
  IF WellFormed(b, i)
  THEN \E k \in DOMAIN dispatches :
         dispatches[k][1] = i /\ code = CodeOf(dispatches[k][3])
  ELSE code = RefusalCode(b.requests[i])

\* The response to a body holds one answer for each request that has an id, in
\* the order of the batch, each under its own id and with what the runtime said
\* about that very request; nothing else is in it, and a body of notifications
\* alone gets no response body.  (handleBody() and handleOne(); a dispatch that
\* throws is the exception.)
OneAnswerPerRequest ==
  \A c \in Connections :
    LET b == sent[c].body
        owed == OwedBefore(b, Len(b.requests) + 1)
    IN reply[c] \in {"object", "array", "empty"} /\ b.requests # <<>> =>
         /\ Len(out[c]) = Cardinality(owed)
         /\ \A i \in owed :
              LET answer == out[c][Cardinality(OwedBefore(b, i)) + 1]
              IN  /\ answer.id = b.requests[i].id
                  /\ CodeFor(b, asked[c], i, answer.code)
         /\ (reply[c] = "empty") = (owed = {})

\* The runtime is asked for every well-formed request of the body, once and in
\* order, notifications included, and for nothing else: at any time for all
\* those before the last one it was asked for, and by the time the response is
\* queued for all of them.  A state call of two parameters gets its third, one
\* that has it keeps it.  (handleOne(), 83-107.)
OneCallPerRequest ==
  \A c \in Connections :
    LET requests == sent[c].body.requests
        dispatches == asked[c]
        AskedUntil(n) == \A j \in 1..n :
          WellFormed(sent[c].body, j) => \E l \in DOMAIN dispatches : dispatches[l][1] = j
    IN /\ \A k, l \in DOMAIN dispatches :
            k < l => dispatches[k][1] < dispatches[l][1]
       /\ \A k \in DOMAIN dispatches :
            LET i == dispatches[k][1]
                q == requests[i]
                given == dispatches[k][2]
            IN /\ i \in 1..Len(requests) /\ WellFormed(sent[c].body, i)
               /\ AskedUntil(i)
               /\ IF q.method = "state" THEN given >= 3 \/ q.params < 2
                                        ELSE given = q.params
               /\ q.params # 2 => given = q.params
       /\ reply[c] \in {"object", "array", "empty"} => AskedUntil(Len(requests))

\* Once stop() has returned nothing of the server is left: no connection, no
\* accumulated body, and nobody inside the runtime on behalf of a client, so
\* that the runtime can be stopped next.  (RpcHttpServer::stop(), and
\* VerifiedProxyImpl::stop(), which relies on it.)
NothingAfterStop ==
  ~daemon =>
    \A c \in Connections : conn[c] = "closed" /\ context[c] = NoContext

\* stop() comes back and lets go of the mutex, whatever the clients do, once the
\* calls it waits for do: no handler waits for what stop() holds.  (stop() joins
\* under m_impl->mu.)
StopEnds == []<>~Joining
=============================================================================
