---------------------------- MODULE MCThreadAnswer ----------------------------
(* ThreadAnswer on small sets. *)
EXTENDS ThreadAnswer, TLC

CONSTANTS c1, c2

MCClient == {c1, c2}
MCModes == BOOLEAN
=============================================================================
