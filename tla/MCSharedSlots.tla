---------------------------- MODULE MCSharedSlots ----------------------------
(* Instances of SharedSlots: two workers, the first with two requests.      *)
EXTENDS SharedSlots, TLC

CONSTANTS w1, w2, r1, r2, r3

MCWorkerOf == (r1 :> w1) @@ (r2 :> w1) @@ (r3 :> w2)
MCWorkerOf2 == (r1 :> w1) @@ (r2 :> w2)
=============================================================================
