----------------------------- MODULE MCOwnerSeat -----------------------------
(* OwnerSeat on small sets. *)
EXTENDS OwnerSeat, TLC

CONSTANTS p1, p2, p3, c1, c2

MCProcess == {p1, p2, p3}
MCCall == {c1, c2}
Symmetry == Permutations(MCProcess) \cup Permutations(MCCall)
==============================================================================
