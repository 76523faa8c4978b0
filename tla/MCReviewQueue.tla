--------------------------- MODULE MCReviewQueue ---------------------------
(* ReviewQueue on small sets. *)
EXTENDS ReviewQueue, MCEngines

CONSTANTS c1, c2, d1

MCClient == {c1, c2}
MCDoc == {d1}
=============================================================================
