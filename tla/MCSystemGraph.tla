--------------------------- MODULE MCSystemGraph ---------------------------
(* Nodes are alike: no definition of SystemGraph names one.                *)
EXTENDS SystemGraph, TLC
NodesAlike == Permutations(Nodes)
=============================================================================
