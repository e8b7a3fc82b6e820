------------------------------- MODULE MCRepo -------------------------------
(***************************************************************************)
(* A small instance of Repo: pages of one row, two keys, two days.         *)
(***************************************************************************)
EXTENDS RepoTree
=============================================================================
