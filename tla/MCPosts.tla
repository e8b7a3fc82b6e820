------------------------------ MODULE MCPosts ------------------------------
(***************************************************************************)
(* Small instances of Posts.  One post is enough: no step of one post      *)
(* reads or writes another.                                                *)
(***************************************************************************)
EXTENDS Posts, TLC

Symmetry == Permutations(Deletion) \cup Permutations(Save)
=============================================================================
