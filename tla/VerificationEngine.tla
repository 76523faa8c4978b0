--------------------------- MODULE VerificationEngine ---------------------------
(***************************************************************************)
(* The outcome of one trace ID and of a verification run                   *)
(* (internal/engine/verify/verify.go).  A target is code or a test that a  *)
(* claim, a literal or the mapper names; it holds when its quote is in the *)
(* file exactly once.  A judge reads the requirement and the cited code,   *)
(* and a second one confirms a contradiction.                              *)
(***************************************************************************)
EXTENDS Integers, FiniteSets

Level == {"must", "should", "info"}
Kind == {"code", "test"}
Judgement == {"affirmed", "contradicted", "silent"}
Outcome == {"implemented", "untested", "unproven", "missing", "breached"}

\* occurrences: how often the quote is in the file, without overlap.  read: Speccy read the file at the commit.
Target == [kind : Kind, empty : BOOLEAN, read : BOOLEAN, occurrences : Nat]

\* confirmed: a second judge agreed with the contradiction.  parsed: the definition parses as
\* a requirement.
Item == [level : Level, parsed : BOOLEAN, targets : SUBSET Target, judgement : Judgement,
         confirmed : BOOLEAN, waived : BOOLEAN]

\* Check: a quote that is in the file twice names no one place.
Holds(t) == ~t.empty /\ t.read /\ t.occurrences = 1

Held(it, kind) == \E t \in it.targets : t.kind = kind /\ Holds(t)

OutcomeOf(it) ==
    CASE ~Held(it, "code") /\ ~Held(it, "test") -> "missing"
      [] OTHER ->
           IF it.judgement = "contradicted" /\ it.confirmed THEN "breached"
           ELSE IF it.judgement # "affirmed" THEN "unproven"
           ELSE IF Held(it, "test") THEN "implemented" ELSE "untested"

\* The level at which an outcome reports: what was not proved is no MUST, nor is a breach
\* of a definition that promised no shape.
LevelOf(it) ==
    CASE OutcomeOf(it) = "unproven" -> "should"
      [] OutcomeOf(it) = "breached" /\ ~it.parsed /\ it.level = "must" -> "should"
      [] OTHER -> it.level

Blocks(it) == ~it.waived /\ LevelOf(it) = "must" /\ OutcomeOf(it) \in {"missing", "breached"}

\* Tally: items is a function on trace IDs.
Tally(items, outcome) == Cardinality({i \in DOMAIN items : OutcomeOf(items[i]) = outcome})
Blocking(items) == Cardinality({i \in DOMAIN items : Blocks(items[i])})

RunVerdict(items) == IF Blocking(items) > 0 THEN "not_verified" ELSE "verified"
=============================================================================
