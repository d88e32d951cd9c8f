------------------------- MODULE MCWpoConstruction -------------------------
(***************************************************************************)
(* Every graph over four nodes: the least irreducible loops, loops with    *)
(* two ways out and nests three deep are among them.                       *)
(***************************************************************************)
EXTENDS WpoConstruction, TLC

AllGraphs == SUBSET (Node \X Node)
Renamings == Permutations(Node \ {Root})
=============================================================================
