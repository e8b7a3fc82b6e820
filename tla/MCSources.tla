----------------------------- MODULE MCSources -----------------------------
(***************************************************************************)
(* A small instance of Sources: one feed and one watch compete for a batch *)
(* of one.                                                                 *)
(***************************************************************************)
EXTENDS Sources, TLC

=============================================================================
