---------------------------- MODULE CurrentVerdict ----------------------------
(***************************************************************************)
(* The verdict that a doc shows (review.Summary) while people edit it,     *)
(* decide on it, and review it.                                            *)
(*                                                                         *)
(* Each change is followed by a lint pass (EnsureLinted) under the mutex   *)
(* of the review service.  A lint run takes over the AI findings of the    *)
(* last full review (carry).  A full review runs beside all this on the    *)
(* version that was current when it was asked for; when it ends and the    *)
(* doc has another version, the worker lints that version too.  Summary    *)
(* shows the complete run that started last.                               *)
(*                                                                         *)
(* Settings stand for what a run reads besides the doc's text and can      *)
(* change without a new version: the sidecar of a local doc, the requests  *)
(* of the docs that link to it, and .speccy.yaml.  One full review at a    *)
(* time: ReviewQueue checks that.                                          *)
(***************************************************************************)
EXTENDS Naturals, Sequences, FiniteSetsExt

CONSTANTS
    Client,         \* the requests that the process handles at one time
    Worker,         \* the process's one worker
    NoOne,
    MaxEdits,       \* bound on the new versions
    MaxSettings,    \* bound on the changes of settings
    MaxReviews      \* bound on the full reviews

ASSUME ActorAssumption == Worker \notin Client /\ NoOne \notin Client \cup {Worker}
ASSUME BoundsAssumption == MaxEdits \in Nat /\ MaxSettings \in Nat /\ MaxReviews \in Nat

VARIABLES
    head,       \* the doc's current version
    settings,   \* the generation of the settings
    runs,       \* the review runs in the order in which they started
    mu,         \* who holds the mutex of the lint passes
    pc,         \* where each actor is
    seen,       \* the version each actor read as the current one
    mine,       \* the run each actor makes, or 0
    races       \* history: the moments at which changes met reviews

doc == <<head, settings>>
actors == <<pc, seen, mine>>
vars == <<doc, runs, mu, actors, races>>

Actor == Client \cup {Worker}

\* "begun" is a lint run in memory; "active" is queued or running.
Statuses == {"begun", "active", "complete", "failed"}

Steps == {"idle", "changed", "check", "lint", "carry", "save",
          "asked", "insert", "load", "judge", "ended", "relint"}

NewRun(kind, version, now) ==
    [kind |-> kind, status |-> "begun", version |-> version,
     recorded |-> now,  \* the hash of the settings in its row
     read |-> now,      \* the settings that its verdict applies
     carried |-> 0]     \* the full review whose findings it carries

\* The doc was created and linted.
Init ==
    /\ head = 1
    /\ settings = 1
    /\ runs = <<[NewRun("lint", 1, 1) EXCEPT !.status = "complete"]>>
    /\ mu = NoOne
    /\ pc = [a \in Actor |-> "idle"]
    /\ seen = [a \in Actor |-> 0]
    /\ mine = [a \in Actor |-> 0]
    /\ races = {}

Races == {"start", "settings", "relint"}

\* A change begins: while a review is put in the queue ("start"); a change of
\* settings while one runs ("settings"); an edit after the worker read the
\* version that it will lint ("relint").
ChangeMeets(kind) ==
    races' = races \cup {race \in Races :
        CASE race = "start" -> pc[Worker] \in {"asked", "insert"}
          [] race = "settings" -> kind = "settings" /\ pc[Worker] # "idle"
          [] race = "relint" -> kind = "edit" /\ pc[Worker] = "relint"}

\* A review is asked for while a change waits for its lint pass.
ReviewMeets ==
    races' = races \cup {race \in {"start"} : \E c \in Client : pc[c] # "idle"}

GoTo(a, step) == pc' = [pc EXCEPT ![a] = step]

Return(a) ==
    /\ GoTo(a, "idle")
    /\ seen' = [seen EXCEPT ![a] = 0]
    /\ mine' = [mine EXCEPT ![a] = 0]

-----------------------------------------------------------------------------
(* What the store answers. *)

RunsThat(Test(_)) == {i \in DOMAIN runs : Test(runs[i])}

Latest(S) == IF S = {} THEN 0 ELSE Max(S)

InStore(r) == r.status # "begun"

\* LatestFullReview.
LatestFull == LET Test(r) == r.kind = "full" /\ r.status = "complete"
              IN  Latest(RunsThat(Test))

\* Mutant: the last run of the doc, whatever its version.
LatestRunForDoc(v) == LET Test(r) == InStore(r) IN Latest(RunsThat(Test))

\* LatestRunFor, for one version.
LatestRunFor(v) == LET Test(r) == InStore(r) /\ r.version = v
                   IN  Latest(RunsThat(Test))

-----------------------------------------------------------------------------
(* Changes. *)

\* bundle.Change records a version.
Edit(c) ==
    /\ pc[c] = "idle"
    /\ head <= MaxEdits
    /\ head' = head + 1
    /\ GoTo(c, "changed")
    /\ ChangeMeets("edit")
    /\ UNCHANGED <<settings, runs, mu, seen, mine>>

\* A local sidecar or .speccy.yaml is written: no version.
Decide(c) ==
    /\ pc[c] = "idle"
    /\ settings <= MaxSettings
    /\ settings' = settings + 1
    /\ GoTo(c, "changed")
    /\ ChangeMeets("settings")
    /\ UNCHANGED <<head, runs, mu, seen, mine>>

-----------------------------------------------------------------------------
(* The lint pass after a change: EnsureLinted and lintIfNeeded. *)

\* Mutant: the pass reads the doc before it waits for the mutex.
PassBeginsStale(c) ==
    \/ /\ pc[c] = "changed"
       /\ seen[c] = 0
       /\ seen' = [seen EXCEPT ![c] = head]
       /\ UNCHANGED <<doc, runs, mu, pc, mine, races>>
    \/ /\ pc[c] = "changed"
       /\ seen[c] # 0
       /\ mu = NoOne
       /\ mu' = c
       /\ GoTo(c, "check")
       /\ UNCHANGED <<doc, runs, seen, mine, races>>

\* The pass takes the mutex, then reads the docs.
PassBegins(c) ==
    /\ pc[c] = "changed"
    /\ mu = NoOne
    /\ mu' = c
    /\ seen' = [seen EXCEPT ![c] = head]
    /\ GoTo(c, "check")
    /\ UNCHANGED <<doc, runs, mine, races>>

BeginLint(a, v) ==
    /\ runs' = Append(runs, NewRun("lint", v, settings))
    /\ mine' = [mine EXCEPT ![a] = Len(runs) + 1]
    /\ GoTo(a, "lint")

\* The version has a run, and it recorded these settings.
UpToDate(v) == LatestRunFor(v) # 0 /\ runs[LatestRunFor(v)].recorded = settings

LintIfNeeded(c) ==
    /\ pc[c] = "check"
    /\ IF UpToDate(seen[c])
         THEN Return(c) /\ mu' = NoOne /\ UNCHANGED runs
         ELSE BeginLint(c, seen[c]) /\ UNCHANGED <<mu, seen>>
    /\ UNCHANGED <<doc, races>>

\* Lint loads the doc and the settings.
LintLoads(a) ==
    /\ pc[a] = "lint"
    /\ runs' = [runs EXCEPT ![mine[a]].recorded = settings, ![mine[a]].read = settings]
    /\ GoTo(a, "carry")
    /\ UNCHANGED <<doc, mu, seen, mine, races>>

\* carry takes over the findings of the last full review.
Carry(a) ==
    /\ pc[a] = "carry"
    /\ runs' = [runs EXCEPT ![mine[a]].carried = LatestFull]
    /\ GoTo(a, "save")
    /\ UNCHANGED <<doc, mu, seen, mine, races>>

\* save inserts the run with its verdict; the mutex is released.
LintSaves(a) ==
    /\ pc[a] = "save"
    /\ runs' = [runs EXCEPT ![mine[a]].status = "complete"]
    /\ mu' = NoOne
    /\ Return(a)
    /\ UNCHANGED <<doc, races>>

-----------------------------------------------------------------------------
(* A full review: StartRun, execute. *)

Reviews == LET Test(r) == r.kind = "full" IN RunsThat(Test)

\* The handler reads the doc.
AskReview ==
    /\ pc[Worker] = "idle"
    /\ Cardinality(Reviews) < MaxReviews
    /\ seen' = [seen EXCEPT ![Worker] = head]
    /\ GoTo(Worker, "asked")
    /\ ReviewMeets
    /\ UNCHANGED <<doc, runs, mu, mine>>

\* StartRun takes the time and the hash of the settings.
StartRun ==
    /\ pc[Worker] = "asked"
    /\ runs' = Append(runs, NewRun("full", seen[Worker], settings))
    /\ mine' = [mine EXCEPT ![Worker] = Len(runs) + 1]
    /\ GoTo(Worker, "insert")
    /\ UNCHANGED <<doc, mu, seen, races>>

Becomes(status) == runs' = [runs EXCEPT ![mine[Worker]].status = status]

InsertRun ==
    /\ pc[Worker] = "insert"
    /\ Becomes("active")
    /\ GoTo(Worker, "load")
    /\ UNCHANGED <<doc, mu, seen, mine, races>>

\* load reads the settings again; the row keeps the hash of StartRun.
Load ==
    /\ pc[Worker] = "load"
    /\ runs' = [runs EXCEPT ![mine[Worker]].read = settings]
    /\ GoTo(Worker, "judge")
    /\ UNCHANGED <<doc, mu, seen, mine, races>>

ReviewSaves ==
    /\ pc[Worker] = "judge"
    /\ Becomes("complete")
    /\ GoTo(Worker, "ended")
    /\ UNCHANGED <<doc, mu, seen, mine, races>>

ReviewFails ==
    /\ pc[Worker] \in {"load", "judge"}
    /\ Becomes("failed")
    /\ Return(Worker)
    /\ UNCHANGED <<doc, mu, races>>

\* Mutant: the worker does not lint the version that is current now.
ReadHeadNoLint ==
    /\ pc[Worker] = "ended"
    /\ Return(Worker)
    /\ UNCHANGED <<doc, runs, mu, races>>

\* execute reads the doc once more: did it get a version during the review?
ReadHead ==
    /\ pc[Worker] = "ended"
    /\ IF head = runs[mine[Worker]].version
         THEN Return(Worker)
         ELSE /\ seen' = [seen EXCEPT ![Worker] = head]
              /\ GoTo(Worker, "relint")
              /\ UNCHANGED mine
    /\ UNCHANGED <<doc, runs, mu, races>>

\* Then it waits for the mutex, and lints the version that it read.
Relint ==
    /\ pc[Worker] = "relint"
    /\ mu = NoOne
    /\ mu' = Worker
    /\ BeginLint(Worker, seen[Worker])
    /\ UNCHANGED <<doc, seen, races>>

-----------------------------------------------------------------------------

AtRest == \A a \in Actor : pc[a] = "idle"

\* Nobody asks for anything.
Quiet == AtRest /\ UNCHANGED vars

Next ==
    \/ \E c \in Client : Edit(c) \/ Decide(c) \/ PassBegins(c) \/ LintIfNeeded(c)
    \/ \E a \in Actor : LintLoads(a) \/ Carry(a) \/ LintSaves(a)
    \/ AskReview
    \/ StartRun
    \/ InsertRun
    \/ Load
    \/ ReviewSaves
    \/ ReviewFails
    \/ ReadHead
    \/ Relint
    \/ Quiet

Spec == Init /\ [][Next]_vars

-----------------------------------------------------------------------------
(* What the doc shows. *)

\* Summary: the complete run that started last.
Shown == LET Test(r) == r.status = "complete" IN Latest(RunsThat(Test))

\* REQ-024: a run on the current version that failed after it makes it stale.
FailedAfter == \E i \in DOMAIN runs :
    i > Shown /\ runs[i].status = "failed" /\ runs[i].version = head

\* The full review whose findings a run shows: AiRunId.
Source(i) == IF runs[i].kind = "full" THEN i ELSE runs[i].carried

-----------------------------------------------------------------------------
(* Properties. *)

\* Every variable has its type, and the mutex is held exactly by the actor
\* that lints.
TypeOK ==
    /\ head \in 1 .. MaxEdits + 1
    /\ settings \in 1 .. MaxSettings + 1
    /\ \A i \in DOMAIN runs :
         /\ runs[i].kind \in {"full", "lint"}
         /\ runs[i].status \in Statuses
         /\ runs[i].version \in 1 .. head
         /\ runs[i].recorded \in 1 .. settings
         /\ runs[i].read \in 1 .. settings
         /\ runs[i].carried \in 0 .. Len(runs)
    /\ pc \in [Actor -> Steps]
    /\ seen \in [Actor -> 0 .. head]
    /\ mine \in [Actor -> 0 .. Len(runs)]
    /\ races \subseteq Races
    /\ \A a \in Actor : mu = a <=> pc[a] \in {"check", "lint", "carry", "save"}

currentShown ==
    \/ runs[Shown].version = head /\ runs[Shown].read = settings
    \/ FailedAfter

\* When no change and no review is under way, the doc shows a verdict on its
\* current version under its current settings, or a failed review of this
\* version makes it stale: no lint pass is lost between two changes.  This needs
\* that no change met the start of a review, and that none came between the
\* worker's read of the doc and its lint of the version it read.
ShownIsCurrent == AtRest /\ races \cap {"start", "relint"} = {} => currentShown

\* "Lint the current version again now, so that it carries this review's
\* findings at once and not after the next save" (execute): when no change met
\* the start of a review, the doc shows its current version at rest.
ReviewLeavesCurrentShown == AtRest /\ "start" \notin races => currentShown

\* When no change and no review is under way, the verdict that is shown holds
\* the findings of the last full review: they reach it when the review ends,
\* and not after the next save (execute).  This needs that no change met the
\* start of a review, and that no settings changed while one ran.
ReviewReachesVerdict ==
    AtRest /\ races \cap {"start", "settings"} = {} => Source(Shown) = LatestFull

\* When no change and no review is under way, the current version has a
\* verdict: lint runs on every new version (DEC-027).  This needs that no
\* change met the start of a review.
EveryVersionLinted ==
    AtRest /\ "start" \notin races =>
        \E i \in DOMAIN runs : runs[i].version = head /\ runs[i].status = "complete"

\* A complete lint run carries a complete full review that started before it
\* ended, so AiRunId always leads to a review with a verdict.
CarriesACompleteReview ==
    \A i \in DOMAIN runs :
        runs[i].status = "complete" /\ Source(i) # 0 =>
            runs[Source(i)].kind = "full" /\ runs[Source(i)].status = "complete"
=============================================================================
