--------------------------- MODULE MCWaiverStream ---------------------------
(* A small instance of WaiverStream for TLC. *)
EXTENDS WaiverStream, TLC

CONSTANTS u1, u2, u3

MCSymmetry == Permutations(User)
=============================================================================
