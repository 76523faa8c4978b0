------------------------------- MODULE MCPrBatch -------------------------------
(* PrBatch on small sets. *)
EXTENDS PrBatch, TLC

CONSTANTS b1, b2, p1, p2, f1, h1, h2, h3

MCBatch == {b1, b2}
MCStarted == {b2}
MCPlainBatch == {b1}
MCPull == {p1, p2}
MCPlanned == (b1 :> {p1, p2}) @@ (b2 :> {p1})
MCPosition == [b \in MCBatch |-> (p1 :> 1) @@ (p2 :> 2)]
MCFinding == {f1}
MCFindings == (p1 :> {f1}) @@ (p2 :> {})
MCStarter == {h1, h2}
MCCanceller == {h3}
Symmetry == Permutations(MCStarter)
=============================================================================
