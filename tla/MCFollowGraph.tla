--------------------------- MODULE MCFollowGraph ---------------------------
(***************************************************************************)
(* Small instances of FollowGraph.                                         *)
(***************************************************************************)
EXTENDS FollowGraph, TLC

Symmetry == Permutations(Request)
=============================================================================
