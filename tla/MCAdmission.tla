----------------------------- MODULE MCAdmission -----------------------------
(***************************************************************************)
(* Admission for TLC.  A limit of 24 with a reserve of 16 leaves 8         *)
(* descriptors, two calls of four; a query answers "unknown", a quiet      *)
(* process, one with room for a single call and one with room for none.    *)
(***************************************************************************)
EXTENDS Admission

MCOpenCounts == {Unknown, 0, 3, 8}
=============================================================================
