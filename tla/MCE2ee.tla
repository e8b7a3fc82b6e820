------------------------------- MODULE MCE2ee -------------------------------
(***************************************************************************)
(* A small instance of E2ee: material and requests are interchangeable.    *)
(***************************************************************************)
EXTENDS E2ee, TLC

Symmetry == Permutations(Request) \cup Permutations(Material)
=============================================================================
