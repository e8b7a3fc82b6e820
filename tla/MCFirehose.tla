---------------------------- MODULE MCFirehose ----------------------------
(***************************************************************************)
(* Small instances of Firehose.                                            *)
(***************************************************************************)
EXTENDS Firehose, TLC

Symmetry == Permutations(Conn)
=============================================================================
