-------------------------- MODULE MCProgressBroker --------------------------
(* ProgressBroker on small sets. *)
EXTENDS ProgressBroker, TLC

CONSTANTS l1, l2

MCListener == {l1, l2}
Symmetry == Permutations(MCListener)
=============================================================================
