-------------------------- MODULE MCCurrentVerdict --------------------------
(* CurrentVerdict on small sets. *)
EXTENDS CurrentVerdict, TLC

CONSTANTS c1, c2

TwoClients == {c1, c2}
Symmetry == Permutations(Client)
=============================================================================
