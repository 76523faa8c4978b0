---------------------------- MODULE MCGitHubSource ----------------------------
(* GitHubSource on small sets. *)
EXTENDS GitHubSource, TLC

CONSTANTS h1, h2, f1, f2, t1, t2

MCHandler == {h1, h2}
MCFile == {f1, f2}
MCText == {t1, t2}
MCFirstTree == [f \in MCFile |-> t1]
Symmetry == Permutations(MCHandler) \cup Permutations(MCFile)
=============================================================================
