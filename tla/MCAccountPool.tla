--------------------------- MODULE MCAccountPool ---------------------------
(***************************************************************************)
(* Two requests of one session on two workers: the shard of one holds both *)
(* accounts, that of the other a2 only, so its selections fall back to a1  *)
(* when a2 is out, and a binding to a1 is foreign to it.  The session is   *)
(* named by the user's identity, so that retries find it too.              *)
(***************************************************************************)
EXTENDS AccountPool

CONSTANTS r1, r2, a1, a2, session

Session == [r \in Requests |-> session]
Shards == [r \in Requests |-> IF r = r1 THEN {a1, a2} ELSE {a2}]
=============================================================================
