--------------------------- MODULE MCRequestSlots ---------------------------
(* Instances of RequestSlots for TLC: three requests, the first two of one  *)
(* user, with trace ids of their own or a trace id shared by two of them.   *)
EXTENDS RequestSlots, TLC

CONSTANTS r1, r2, r3, u1, u2, a1, a2

MCUserOf == (r1 :> u1) @@ (r2 :> u1) @@ (r3 :> u2)
MCUserOf2 == (r1 :> u1) @@ (r2 :> u1)
OwnId == [r \in Requests |-> r]
SharedId == [r \in Requests |-> r1]
AccountSymmetry == Permutations(Accounts)
=============================================================================
