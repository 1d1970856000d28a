------------------------------ MODULE MCPgMove ------------------------------
EXTENDS PgMove

CONSTANTS o1, o2, o3, h1, h2

(* Two OSDs share a host, so that a pg moves within a host and between     *)
(* hosts.                                                                  *)
TwoHosts == [o \in Osds |-> IF o = o3 THEN h2 ELSE h1]

=============================================================================
