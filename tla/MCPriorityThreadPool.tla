------------------------ MODULE MCPriorityThreadPool ------------------------
(***************************************************************************)
(* Instances of PriorityThreadPool for TLC.                                *)
(***************************************************************************)
EXTENDS PriorityThreadPool, TLC

CONSTANTS w1, w2, w3

ThreeItems == {w1, w2, w3}
=============================================================================
