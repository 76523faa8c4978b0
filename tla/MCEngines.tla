------------------------------- MODULE MCEngines -------------------------------
(***************************************************************************)
(* The operators of the engine modules on small inputs, against the loops  *)
(* of the code and the comments beside it.                                 *)
(***************************************************************************)
EXTENDS Integers, Sequences, SequencesExt, FiniteSets

Verdict == INSTANCE VerdictEngine
Verification == INSTANCE VerificationEngine
Divergence == INSTANCE DivergenceEngine
Fix == INSTANCE FixEngine

\* The loop of divergence.Groups: the groups so far, and the answers seen.
Keep(n, state, group) ==
    LET one(kept, i) ==
            IF i \in Divergence!Answer(n) \ (state.seen \cup ToSet(kept)) THEN Append(kept, i) ELSE kept
        kept == FoldLeft(one, <<>>, group)
    IN  [groups |-> IF kept = <<>> THEN state.groups ELSE state.groups \cup {ToSet(kept)},
         seen |-> state.seen \cup ToSet(kept)]

LoopGroups(n, raw) ==
    LET step(state, group) == Keep(n, state, group)
        last == FoldLeft(step, [groups |-> {}, seen |-> {}], raw)
    IN  last.groups \cup {{i} : i \in Divergence!Answer(n) \ last.seen}

\* Groups is what the loop of the code makes of up to two groups of up to two numbers.
ASSUME GroupsAsTheLoop ==
    \A n \in 0 .. 2 : \A raw \in SeqOf(SeqOf(-1 .. 2, 2), 2) : Divergence!Groups(n, raw) = LoopGroups(n, raw)

\* Score is the whole number that is nearest to the percentage, and a half is rounded up.
ASSUME ScoreIsNearest ==
    \A n \in 1 .. 40 : \A p \in 0 .. n :
        LET twice == 2 * n * Verdict!Score(p, n) - 200 * p IN -n < twice /\ twice <= n

Evidence == [kind : Verification!Kind, empty : {FALSE}, read : {TRUE}, occurrences : 0 .. 2]

Items ==
    [level : Verification!Level, parsed : BOOLEAN, targets : SUBSET Evidence,
     judgement : Verification!Judgement, confirmed : BOOLEAN, waived : BOOLEAN]

\* A trace ID may be implemented with a test that holds and no code that does: Decide asks
\* for a test there, and not for code.
ASSUME ImplementedByATest ==
    \E it \in Items : Verification!OutcomeOf(it) = "implemented" /\ ~Verification!Held(it, "code")

\* Every outcome occurs.
ASSUME EveryOutcome ==
    {Verification!OutcomeOf(it) : it \in Items} = Verification!Outcome

File == SeqOf({"a", "b"}, 3)

FileEdit == {Fix!Edit(s, e, t) : s \in 0 .. 2, e \in 0 .. 3, t \in SeqOf({"c"}, 2)}

Replaced(src, e) == Fix!Slice(src, 0, e.start) \o e.text \o Fix!Slice(src, e.end, Len(src))

Apart(src, e, f) == e.start <= e.end /\ f.start <= f.end /\ f.end <= Len(src) /\ e.end <= f.start

\* Two accepted rewrites that do not overlap make the file that the later one and then the
\* earlier one make, in whatever order they are named, and each text is where placed says;
\* two that overlap make nothing (applyEdits).
ASSUME EditsAtOnce ==
    \A src \in File : \A e, f \in FileEdit : e.start < f.start =>
        \A edits \in {<<e, f>>, <<f, e>>} :
            LET done == Fix!ApplyEdits(src, edits)
            IN  /\ done.ok <=> Apart(src, e, f)
                /\ done.ok => /\ done.file = Replaced(Replaced(src, f), e)
                              /\ \A i \in 1 .. 2 : Fix!Slice(done.file, done.placed[i].start, done.placed[i].end) = edits[i].text

Patches == {pt \in Fix!Patch({"a", "b", Fix!Blank}, 2) : pt.start <= pt.end}

\* A patch that finds its place replaces the text that it was written for, and nothing else;
\* and it finds its place whenever that text is there once (edit).
ASSUME PatchHitsItsText ==
    \A src \in File : \A pt \in Patches : pt.insert = "replace" /\ pt.old # <<>> =>
        /\ \A e \in Fix!PatchEdit(pt, src) : Fix!Slice(src, e.start, e.end) = pt.old
        /\ Cardinality(Fix!Places(src, pt.old)) = 1 => Fix!PatchEdit(pt, src) # {}

\* A patch that adds text finds its place again in the file that it changed: AcceptFix, which
\* takes the patch off its finding after the change, must not be answered twice.
ASSUME InsertIsNeverStale ==
    \A src \in File : \A pt \in Patches : pt.insert \in {"start", "end"} =>
        \A e \in Fix!PatchEdit(pt, src) : Fix!PatchEdit(pt, Fix!ApplyEdits(src, <<e>>).file) # {}
================================================================================
