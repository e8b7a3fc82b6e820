----------------------------- MODULE MCDelivery -----------------------------
(***************************************************************************)
(* Small instances of Delivery.  One row is enough for what the runs ask:  *)
(* no step of one row reads or writes another.                             *)
(***************************************************************************)
EXTENDS Delivery, TLC

Symmetry == Permutations(Message) \cup Permutations(Worker)
=============================================================================
