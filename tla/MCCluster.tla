------------------------------ MODULE MCCluster ------------------------------
(* Instances of Cluster: two or three shards, tokens of different hashes.   *)
EXTENDS Cluster

CONSTANTS t1, t2, c1, c2

MCHash == [t \in Tokens |-> IF t = t1 THEN 1 ELSE 2]
=============================================================================
