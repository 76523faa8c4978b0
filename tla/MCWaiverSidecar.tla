--------------------------- MODULE MCWaiverSidecar ---------------------------
(* Small instances of WaiverSidecar for TLC. *)
EXTENDS WaiverSidecar, TLC

CONSTANTS h1, h2, x1, x2, a1, t1, t2, u1, u2

MCSymmetry == Permutations(Handler) \cup Permutations({x1, x2}) \cup Permutations(User)
=============================================================================
