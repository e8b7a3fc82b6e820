----------------------------- MODULE MCInbound -----------------------------
(***************************************************************************)
(* A small instance of Moderation, and of Inbound with it: one note, two   *)
(* inbox requests and two of the owner's.                                  *)
(***************************************************************************)
EXTENDS Moderation, TLC

Symmetry == Permutations(Handler) \cup Permutations(Job)
=============================================================================
