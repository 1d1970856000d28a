--------------------------- MODULE MCOsdThrasher ---------------------------
(* Instances of OsdThrasher for TLC.                                       *)
EXTENDS OsdThrasher
=============================================================================
