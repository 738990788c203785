---- MODULE MCSearch ----
EXTENDS SearchTree, TLC
CONSTANTS R, A, B, C
MCValue == (R :> 10) @@ (A :> 15) @@ (B :> 18) @@ (C :> 4)
MCPenalty == [t \in Texts |-> 0]
====
