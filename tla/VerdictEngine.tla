----------------------------- MODULE VerdictEngine -----------------------------
(***************************************************************************)
(* The verdict of a run (internal/engine/verdict/verdict.go): Decide says  *)
(* whether a doc is ready to build and gives its score, from the findings, *)
(* the scored items, the open blocking threads and the upstream link.  It  *)
(* is a pure function, and so is every operator here.                      *)
(*                                                                         *)
(* A list of findings or of items is a function on the ids of its entries, *)
(* because no result depends on their order but the order of the blocking  *)
(* findings, which is that of their ids.                                   *)
(***************************************************************************)
EXTENDS Integers, FiniteSets

Level == {"must", "should", "info"}
Category == {"structure", "clarity", "completeness", "evidence", "precision", "coherence"}
Result == {"build_ready", "not_build_ready", "stale"}

\* waiting: an approved request to the linked doc.  advice: the judge found no material gap.
Finding == [level : Level, waived : BOOLEAN, waiting : BOOLEAN, advice : BOOLEAN]

Item == [category : Category, level : Level, passed : BOOLEAN, waived : BOOLEAN, applicable : BOOLEAN]

\* What Decide reads besides the findings and the items.
Setting == [openThreads : Nat, upstreamRequired : BOOLEAN, hasUpstream : BOOLEAN]

Blocks(f) == f.level = "must" /\ ~f.waived /\ ~f.waiting /\ ~f.advice

BlockingFindings(findings) == {i \in DOMAIN findings : Blocks(findings[i])}

WaiverCount(findings) == Cardinality({i \in DOMAIN findings : findings[i].waived})

\* The Result of Decide.
DecideResult(findings, s) ==
    IF \/ BlockingFindings(findings) # {}
       \/ s.openThreads > 0
       \/ s.upstreamRequired /\ ~s.hasUpstream
    THEN "not_build_ready"
    ELSE "build_ready"

Counted(items) == {i \in DOMAIN items : items[i].applicable /\ items[i].level # "info"}

PassedOf(items) == {i \in Counted(items) : items[i].passed \/ items[i].waived}

\* math.Round(100 * passed / applicable): a half is rounded up.
Score(passed, applicable) ==
    IF applicable = 0 THEN 100 ELSE (200 * passed + applicable) \div (2 * applicable)

DecideScore(items) == Score(Cardinality(PassedOf(items)), Cardinality(Counted(items)))

InCategory(items, ids, c) == {i \in ids : items[i].category = c}

\* The Radar of Decide has an axis for each category with an item that counts.
Radar(items) ==
    [c \in {items[i].category : i \in Counted(items)} |->
        Score(Cardinality(InCategory(items, PassedOf(items), c)),
              Cardinality(InCategory(items, Counted(items), c)))]

\* For: the verdict to show for a run.
For(result, runVersionIsCurrent) == IF runVersionIsCurrent THEN result ELSE "stale"
=============================================================================
