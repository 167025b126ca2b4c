---------------------------- MODULE MCHttpServer ----------------------------
(***************************************************************************)
(* RpcHttpServer for TLC.  The requests are one of each sort the code      *)
(* tells apart; the batches put notifications and refused requests next to *)
(* answered ones, first and last.                                          *)
(***************************************************************************)
EXTENDS RpcHttpServer

Req(id, method, params) ==
  [object |-> TRUE, id |-> id, method |-> method, params |-> params]

Plain   == Req("a", "other", 2)
State   == Req("b", "state", 2)
Notify  == Req(NoId, "state", 3)
ByName  == Req("c", "state", Named)
NoName  == Req("d", "missing", 0)
Number  == [object |-> FALSE, id |-> NoId, method |-> "missing", params |-> 0]

Batch(s)  == [kind |-> "batch", requests |-> s]
Single(q) == [kind |-> "single", requests |-> <<q>>]

MCBodies ==
  {[kind |-> "garbage", requests |-> <<>>], Batch(<<>>), Single(Number),
   Batch(<<Notify, Plain>>), Batch(<<ByName, State, NoName>>)}
=============================================================================
