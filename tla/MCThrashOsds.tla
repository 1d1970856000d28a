---------------------------- MODULE MCThrashOsds ----------------------------
(* Instances of ThrashOsds for TLC. *)
EXTENDS ThrashOsds
=============================================================================
