--------------------------- MODULE MCMonThrasher ---------------------------
(* Instances of MonThrasher for TLC.                                       *)
EXTENDS MonThrasher
=============================================================================
