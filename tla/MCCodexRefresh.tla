--------------------------- MODULE MCCodexRefresh ---------------------------
(* Instances of CodexRefresh: a process with two service instances of the  *)
(* account (two proxy settings) and a process with one.                    *)
EXTENDS CodexRefresh, TLC

CONSTANTS p1, p2, i1, i2, i3, c1, c2, c3, c4

MCProcOf == (i1 :> p1) @@ (i2 :> p1) @@ (i3 :> p2)
MCInstOf == (c1 :> i1) @@ (c2 :> i2) @@ (c3 :> i3) @@ (c4 :> i3)

MCProcOf2 == (i1 :> p1) @@ (i3 :> p2)
MCInstOf2 == (c1 :> i1) @@ (c3 :> i3)
=============================================================================
