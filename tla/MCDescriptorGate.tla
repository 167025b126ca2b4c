-------------------------- MODULE MCDescriptorGate --------------------------
(***************************************************************************)
(* DescriptorGate for TLC: two parallel block downloads, so that the       *)
(* estimate sits on its floor of four descriptors per call.                *)
(***************************************************************************)
EXTENDS DescriptorGate

MCPerCall == PerCallEstimate(2, 2147483647)
=============================================================================
