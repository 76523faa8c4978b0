---------------------------- MODULE DivergenceEngine ----------------------------
(***************************************************************************)
(* The answers of the readers to one build question                        *)
(* (internal/engine/divergence/divergence.go).  A judge groups the answers *)
(* that mean the same; Groups repairs its grouping, and Classify says      *)
(* whether the readers agree.                                              *)
(*                                                                         *)
(* n answers are numbered from 0, and a grouping is a sequence of          *)
(* sequences of numbers, in which the judge may write anything.            *)
(***************************************************************************)
EXTENDS Integers, Sequences, FiniteSets

Answer(n) == 0 .. n - 1

\* Classify: answered is a function on the readers, FALSE for NOT SPECIFIED.
Classify(answered, groups) ==
    CASE \A r \in DOMAIN answered : ~answered[r] -> "gap"
      [] OTHER ->
           IF (\A r \in DOMAIN answered : answered[r]) /\ groups <= 1 THEN "agree" ELSE "diverge"

\* The numbers that the judge wrote into group k.
Said(raw, k) == {raw[k][j] : j \in DOMAIN raw[k]}

\* Group k keeps what is an answer and was in no group before it.
Kept(n, raw, k) == {i \in Answer(n) \cap Said(raw, k) : \A j \in DOMAIN raw : j < k => i \notin Said(raw, j)}

LeftOut(n, raw) == {i \in Answer(n) : \A k \in DOMAIN raw : i \notin Said(raw, k)}

\* Groups: without the empty groups, and a group of its own for each answer left out.
Groups(n, raw) ==
    ({Kept(n, raw, k) : k \in DOMAIN raw} \ {{}}) \cup {{i} : i \in LeftOut(n, raw)}
=============================================================================
