--------------------------- MODULE MCBundleFolder ---------------------------
(* BundleFolder on small sets. *)
EXTENDS BundleFolder, TLC

CONSTANTS c1, c2, d1, d2

TwoClients == {c1, c2}
TwoDocs == {d1, d2}
Symmetry == Permutations(Client) \cup Permutations(Doc)
=============================================================================
