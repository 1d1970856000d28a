--------------------------- MODULE MCMdsThrasher ---------------------------
(* Instances of MdsThrasher for TLC.                                       *)
EXTENDS MdsThrasher, TLC

CONSTANTS a, b, c, d, f1, f2

(* One filesystem of two ranks, with thrash_weights; two of one rank each  *)
(* that share a standby.                                                   *)
MCClusters ==
    {[mds |-> {a, b, c, d}, fs |-> {f1}, max_mds |-> 2, weights |-> TRUE],
     [mds |-> {a, b, c}, fs |-> {f1, f2}, max_mds |-> 1, weights |-> FALSE]}

ThreeRanks == {[mds |-> {a, b, c, d}, fs |-> {f1}, max_mds |-> 3, weights |-> FALSE]}

(* mds.a: 0.7, mds.b: 0.0, and nothing said of the others.                 *)
SomeWeights == [m \in AllMds |-> IF m = a THEN "positive" ELSE IF m = b THEN "zero"
                                                          ELSE "unspecified"]

AllPositive == [m \in AllMds |-> "positive"]

MdsSymmetry == Permutations({a, b, c, d})

=============================================================================
