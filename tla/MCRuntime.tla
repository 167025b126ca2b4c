----------------------------- MODULE MCRuntime -----------------------------
(***************************************************************************)
(* ProxyRuntime for TLC.  A limit of 24 with a reserve of 16 leaves 8      *)
(* descriptors: a quiet process has room for two calls, one with 8 open    *)
(* for none.                                                               *)
(***************************************************************************)
EXTENDS ProxyRuntime, TLC

MCOpenCounts == {0, 8}

\* A process whose budget never is the obstacle.
QuietProcess == {0}

RuntimeSymmetry == Permutations(Calls) \cup Permutations(Clients)
=============================================================================
