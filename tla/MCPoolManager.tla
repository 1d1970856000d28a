--------------------------- MODULE MCPoolManager ---------------------------
(* Instances of PoolManager for TLC. *)
EXTENDS PoolManager

CONSTANTS r1, b1, rbd

\* A rados task has two clients, a radosbench task one.
TwoAndOne == [t \in Tasks |-> IF t \in RadosTasks THEN 2 ELSE 1]

\* Both tasks in a cluster without pools, or one of them beside a pool of
\* the cluster.
MCPoolJobs == {[tasks |-> {r1, b1}, pools |-> {}], [tasks |-> {r1}, pools |-> {rbd}],
               [tasks |-> {b1}, pools |-> {rbd}]}
=============================================================================
