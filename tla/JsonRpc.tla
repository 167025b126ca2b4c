------------------------------ MODULE JsonRpc ------------------------------
(***************************************************************************)
(* The JSON-RPC rules of rpc_http_server.cpp: what a request object is     *)
(* refused for, what is passed on to the runtime, who gets an answer.      *)
(*                                                                         *)
(* A request is a record.  `id' is NoId when the member is missing or null *)
(* (the code treats both as a notification); `method' is "missing" when it *)
(* is absent or no string, "state" for the six methods that take           *)
(* optimisticStateFetch, "other" for the rest; `params' is the number of   *)
(* positional parameters, or Named.                                        *)
(***************************************************************************)
EXTENDS Integers, Sequences

NoId  == "none"
Named == -1

ParseError     == -32700
InvalidRequest == -32600
MethodNotFound == -32601
InvalidParams  == -32602
InternalError  == -32603
ServerError    == -32000
Result         == 0        \* not an error: the envelope carries a result

Methods == {"state", "other", "missing"}

Requests ==
  [object : BOOLEAN, id : STRING, method : Methods, params : Nat \cup {Named}]

\* A request the code never answers: its refusal is dropped as well, so that a
\* value that is no object is never told so.
IsNotification(q) == ~q.object \/ q.id = NoId

\* The error a request is refused with before any call, Result if it is not.
RefusalCode(q) ==
  IF ~q.object \/ q.method = "missing" THEN InvalidRequest
  ELSE IF q.params = Named THEN InvalidParams
  ELSE Result

\* The parameters the runtime gets: a stock client's two become three.
ParamsSent(q) == IF q.method = "state" /\ q.params = 2 THEN 3 ELSE q.params

\* How the runtime's outcome is shown to the client.
CodeOf(outcome) ==
  [value |-> Result, unknown |-> MethodNotFound, failure |-> ServerError][outcome]

Answer(id, code) == [id |-> id, code |-> code]
=============================================================================
