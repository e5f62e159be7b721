-------------------------- MODULE MCRequestLogQueue --------------------------
(* Instances of RequestLogQueue: three logs of two models, batches of two.   *)
EXTENDS RequestLogQueue, TLC

CONSTANTS l1, l2, l3, m1, m2, w1, w2

MCModelOf == (l1 :> m1) @@ (l2 :> m1) @@ (l3 :> m2)
=============================================================================
