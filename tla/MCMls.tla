------------------------------- MODULE MCMls -------------------------------
(***************************************************************************)
(* Mls for TLC: senders, readers and messages are interchangeable.         *)
(***************************************************************************)
EXTENDS Mls, TLC

Symmetry ==
  Permutations(MlsMessage) \cup Permutations(Sender) \cup Permutations(Reader)

=============================================================================
