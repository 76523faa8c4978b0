# Verification of Speccy

TLA+ models of the stateful core of Speccy: the event store, waivers, full
reviews and the verdict a doc shows, run progress, approvals, the versions of a
bundle's docs, GitHub sources, batches of pull requests, answers of a model in a
thread, verifications, and the seat of the process that owns a folder; and its pure
functions that decide a verdict. TLC checks each model on small instances, and TLAPS
proves what the runs check of safety, of all of these models, for every value of the
constants; liveness stays with TLC (section 6).

Paths are relative to the repository, for example `internal/es/es.go`.

1. [The system](#1-the-system)
2. [Modules](#2-modules)
3. [What each module models, and what its runs show](#3-what-each-module-models-and-what-its-runs-show)
4. [Where the code and its comments disagree](#4-where-the-code-and-its-comments-disagree)
5. [Fairness](#5-fairness)
6. [Proofs](#6-proofs)
7. [What is not modelled](#7-what-is-not-modelled)
8. [Plan](#8-plan)

## 1. The system

Speccy is one Go process with a SQLite store. It runs in *local mode*, where it
owns a folder of markdown specs on disk that people also edit with their own tools,
or in *hosted mode*, where bundles live in the database or come from GitHub. People
edit specs, ask for reviews by models, waive findings, and approve docs.

| Component | Source | State it keeps | Operations | What makes it correct |
|---|---|---|---|---|
| Event store | `internal/es`, `internal/store` | `es_streams` (snapshot row), `es_events`, read models | `Run`, `Load`, `Append` | nothing decided on a stale stream; row, events and read model commit together; bounded retries |
| Waiver aggregate | `internal/features/waiver/waiver.go` | one stream per waiver | `DecideRequest`, `DecideApprove`, `DecideReject`, `DecideInvalidate`, `DecideRestore`, `DecideWithdraw`, `DecideNoLongerNeeded` | approved only as the policy says; final states are final |
| Waiver handlers | `internal/features/waiver/api.go` | the stream and the sidecar `.speccy/decisions` of the bundle | request, approve, reject, the sweep `Invalidate` | the sidecar and the streams agree; no decision or edit is lost |
| Review queue | `internal/features/review/pipeline.go`, `orphans.go` | `review_run`, `job`, `verdict` | `StartRun`, `RunNext`, `execute`, `EndOrphans` | one active review per doc; each review ends once; a verdict belongs to a complete run |
| Lint runs, current verdict | `internal/features/review/lint_run.go`, `carry.go`, `api.go` | `review_run`, `verdict`, the mutex `s.mu` | `EnsureLinted`, `Lint`, `carry`, `Summary` | a doc at rest shows a verdict on what it is now, with the last review's findings |
| Run progress | `internal/features/review/broker.go`, `run_api.go` | history and channels in memory | `Publish`, `Subscribe`, `WriteEvents` | no panic, no lost or doubled event, every stream ends |
| Doc approval | `internal/features/approval` | one status stream per doc | `RequestReview`, `ApproveBundle`, `OnNewVersions`, `Supersede` | approved means: enough non-authors approved exactly this version |
| Bundles and versions | `internal/features/bundle`, `internal/features/version`, `internal/source/local` | versions and heads of docs, the folder on disk | `Sync`, `Change`, `Watch` | every external edit is recorded; a save overwrites nothing unseen |
| Threads | `internal/features/thread` | one stream per thread | open, reply, resolve, reopen, dismiss | a status change is decided on the last status |
| Answers in threads | `internal/features/review/answer.go`, `thread/api.go` | jobs on the review queue, the flags `s.answering` | `AskAI`, `RunNext`, `answerThread`, `PostAI` | every question is answered by something that read it; no job answers twice |
| GitHub sources and publish | `internal/features/bundle/github*.go` | draft, published and ahead refs, head of the source | add, sync, change, publish, discard, remove | a draft is never lost; a pull request is the draft; the doc follows the branch |
| Verification jobs | `internal/features/verify` | `verification_run`, its outcomes, jobs on the review queue, blocking threads | `Start`, `Execute`, `EndOrphan` | every one ends; the outcomes and their threads are made once |
| Pull request batches | `internal/features/prreview/batch.go` | `pr_batch`, `pr_batch_item`, the marks in `pr_review_comment`, the pending review on GitHub | start, cancel, execute, post, recover | one comment for a finding; nothing starts after a cancel; every batch ends |
| Share links, guests | `internal/features/share`, `internal/hostauth`, `internal/authinvite` | links, guests, sessions | share, revoke, redeem | a revoked link gives nothing |
| Owner lock | `internal/owner`, `cmd/speccy/seat.go` | the seat of a state folder | take, open, publish, call, hand over, release | one owner; a call is handled once; the queue is finished before the seat is left |
| Engines | `internal/engine/*` | none: pure functions | verdict, divergence, verification, lint, anchors | more trouble never makes a doc ready; a judge merges nothing by omission; evidence never blocks |
| Fixes of a review | `internal/features/review/fix.go`, `fix_all.go` | the patch on a finding | suggest, accept | a patch replaces the text it was written for and nothing else |
| Model gateway | `internal/model`, `internal/features/admin` | configuration, token budget | calls, retries | the budget holds |
| Front ends | `internal/http`, `internal/mcpserver`, `internal/tui`, `internal/action`, `web`, `cmd/speccy` | none of their own | calls of the above | — |

How they interact: a command of an aggregate (waiver, approval, thread) runs in
`es.Run`, the one way to a stream. A save (`bundle.Change`) or a scan of the folder
(`bundle.Sync`) makes a version; `internal/app` wires what follows a new version:
a lint pass (`EnsureLinted`), the waiver sweep (`Invalidate`), the approval sweep
(`OnNewVersions`) and `Supersede`. A waiver's approval is itself a save, of the
sidecar, so it starts the same chain from within a handler. A full review runs in
one background worker beside all this, and ends with a lint of what the doc became
meanwhile. Progress of a run goes through the broker to the browsers that watch.

What is hard here: handlers read in one transaction and write in another; a handler
writes two stores (sidecar, then stream; disk, then database) with no transaction
over both; sweeps of different changes overlap; the mutex of the lint passes is
taken after some reads and before others; the process may stop anywhere, and what
repairs it differs between the modes; a person writes to the folder at any moment.

## 2. Modules

| Module | Kind | Extends, instances |
|---|---|---|
| `AtomicStream` | abstract specification of `es.Run` | |
| `EventStore` | the event store | implements `AtomicStream` |
| `EventStoreProofs` | proofs about the store, and about the stream of a waiver | extends `EventStore`, `WaiverStream` |
| `Waiver` | the aggregate's decide and evolve as operators | |
| `WaiverStream` | one stream under every order of commands | extends `Waiver` |
| `WaiverSidecar` | handlers, sidecar, versions and sweep together | extends `Waiver` |
| `WaiverSidecarProofs` | proofs | extends `WaiverSidecar` |
| `ReviewLifecycle` | abstract specification of the reviews | |
| `ReviewQueue` | queue, worker, reviews and verifications, stops, both modes | implements `ReviewLifecycle` |
| `ReviewQueueProofs` | proofs, also about the engines that runs decide with | extends `ReviewQueue`, instances of the four engines |
| `CurrentVerdict` | lint passes, reviews, and what a doc shows | |
| `CurrentVerdictProofs` | proofs | extends `CurrentVerdict` |
| `ProgressBroker` | broker and listeners | |
| `Approval` | status stream, approve command, sweeps | |
| `BundleFolder` | disk, scans, saves, versions, both modes | |
| `BundleFolderProofs` | proofs | extends `BundleFolder` |
| `GitHubSource` | two sources of one repository, their doc, and GitHub | |
| `OwnerSeat` | the processes of one folder, their locks and calls | |
| `ProcessProofs` | proofs about the seats of processes, and about the broker of a run | extends `OwnerSeat`, `ProgressBroker` |
| `PrBatch` | batches, their runs, and pending reviews on GitHub | |
| `GitHubProofs` | proofs about GitHub sources, and about batches of pull request reviews | extends `GitHubSource`, `PrBatch` |
| `ThreadAnswer` | a thread, its questions, and the jobs that answer | |
| `DocProofs` | proofs about the approval of a doc, and about answers in its threads | extends `Approval`, `ThreadAnswer` |
| `VerdictEngine`, `VerificationEngine`, `DivergenceEngine` | pure functions as operators | |
| `FixEngine` | patches and edits of a file as operators | |
| `MCEngines` | the engines on small inputs, against the loops of the code | instances of the four engines |
| `MC*` | instances for TLC | one for each component; `MCReviewQueue` extends `MCEngines` |

The modules build on each other by what they promise. `WaiverStream`,
`WaiverSidecar` and `Approval` take a command of an aggregate as one step, because
`EventStore` implements `AtomicStream`. `WaiverSidecar` and `CurrentVerdict` take a
save as one step based on the head, or no step, because of `ChangeIsOneFile` of
`BundleFolder`. `CurrentVerdict` runs one full review at a time, because of
`OneActiveRun` of `ReviewQueue` (a doc is not started again before its review ends, which
`ReviewLifecycle` says). `ProgressBroker` lets the run end, because of
`RunsEnd`. `GitHubSource` takes the saves and syncs under the mutex of the folder
for what `BundleFolder` shows them to be. `ThreadAnswer` has the claim, the lock and
the end of a job from `ReviewQueue`, and appends as `AtomicStream` does. `OwnerSeat`
says when the one process that every other module speaks of exists.

Conventions: an operator that starts with the comment `Mutant:` is a plausible bug
in the operator after it; no specification uses it. For each property of a passing
run there is one that makes TLC report the property as violated. A variable marked
`history` records something the code does not store, only for a property.

## 3. What each module models, and what its runs show

### EventStore (`internal/es/es.go`)

`row`, `events` and `view` are the committed tables. The row lock of the open
transaction is `lock`, and what it will commit is `tx`. Each writer is a call of
`Run` at a step of its loop: `Load`, `Decide` (or `Refuse`), then the transaction of
`Append`: `WriteRow` checks the version and takes the lock, `InsertEvents`,
`RunProjections`, `Commit`; `Conflict` loads again while `attempt < LastAttempt`.
Every statement may fail, a commit's answer may be lost, and a writer's process may
stop anywhere (`Crash`). An aggregate's `evolve` is a pure function, so a snapshot
is represented by the events it was made from.

Run `event_store` (2 writers, batches of one and two events, streams up to version 4): `CommittedTogether`, `DecidedOnTheWholeStream`,
`RunIsAtomic` (it implements `AtomicStream`) and `EveryCallEnds`. Two writers are
enough for each pair of interleaved transactions, because a third can only do to one
of them what the other does; version 4 lets one writer lose three times and
still leaves a batch of two that crosses the bound.

### Waiver, WaiverStream (`waiver.go`)

Each decide function is an operator from a state and a command to events, and
`Evolve` applies an event. All scopes, policies, roles and reasons are there; a
reason is only which of the two minimum lengths it reaches. `WaiverStream` gives one
stream every command in every order, and each command comes with its own roles: a
person may become or stop being an author or a maintainer in between.

Run `waiver_stream` (3 people, up to 3 needed approvals): `PolicyMet`,
`FinalStaysFinal`, `DecisionIsKept`. Three people and N up to 3 give a policy that
just can be met and, with an author among them, one that cannot. There is no deadlock
check: a stream may end in a final state.

### WaiverSidecar (`api.go` of the waivers, `decisions.go`, `sidecar.go`)

One section of one doc, one check, and one trace ID. `versions` are the doc's versions
with the section's text and the sidecar, which has an entry or none for the check and
for the trace ID; `waivers` the streams. `mode` is the kind of app and bundle: in
`"hosted"` and `"github"` a sidecar is a file of each version, in `"local"` it is `file`,
in the folder, with no version; outside `"hosted"` there is one person (`MayAct`), who
decides alone.

A handler reads (`Ask`, `Approve`, `ReadDoc`, `Withdraw`), reads the sidecar
(`ReadDecisions`), and writes what it makes of it: as a version based on the one it read
(`WriteSidecar`, or `WriteSidecarRefused`) or over the file (`WriteFile`). It runs
the sweep (`SweepDoc`, `SweepList`, `SweepOne` for each waiver, `SweepEnd`), and appends
(`ApproveWaiver`, `RequestWaiver`, `WithdrawOne` for each acknowledgement); `Edit` is a
save with its sweep. Another handler runs between any two, and `Fail` stops one anywhere.
`overlap` records the approvals that another one has overtaken between their preview and
their append, and the waivers that such an approval closed.

Run `waiver_sidecar` (2 handlers, 2 people, 2 waivers of the check, 1 acknowledgement, 2
texts, 4 versions, or 3 of a local bundle, two needed approvals; `MaxVoted`: of hosted
mode, one request that waits for others): `NoLostUpdate` and
`EntryFitsItsText` hold of versions under all interleavings and failures, and
`ApprovedWasWritten` in every mode, also when approvals fail and are tried again. Two
approvals at once may each take itself for the first of the two; `overlap.waivers` names
the waiver that such a pair closes, and without it TLC finds the pair at once (section
4). `SidecarAgreesInTurn` holds as long as no
handler failed and each that writes began with no other under way; without this
condition TLC finds counterexamples at once (section 4). Two texts are enough for a
section that changes and comes back; four versions hold an approval, a change and its
return. The bounds end behaviours, so deadlock is not checked.

### ReviewLifecycle, ReviewQueue (`pipeline.go`, `orphans.go`, `pipeline.sql`)

`status`, `verdict`, `job` and `locked` are the rows; an action is one statement or
one transaction. `CheckNoRun` and `InsertRun` are `StartRun` under `startMu`; the
worker goes through `ClaimJob`, `Execute`, `RunStages`, `Save` or `Fail`, `Abort`,
`Finish`; `Stop` and `Start` end and start the process, with `EndOrphanRun` and
`EndOrphanJob` in local mode and `LockRunsOut` for the lock of a job. `hosted` is
chosen at the start. Any statement may fail.

A verification is a job of the same queue (`InsertVerification`): the worker goes
through `ExecuteVerification`, which ends the job of one that has ended,
`JudgeRequirements`, `StoreOutcomes`, `OpenThread`, and `FinishVerification` or
`FailVerification`. It either fails or finds one outcome that blocks, the case in which
something is made besides rows. `VerificationStatementFails` is any statement of it:
`RunNext` does not end a verification as it ends a review, so one whose start or end was
not stored is `stranded`.

Run `review_queue` (both modes, 2 clients, one doc, 3 runs of which two may be
verifications; two troubles, each a stop or a failed statement, of which one failed
statement): `ImplementsLifecycle`, `OneThreadOfAnOutcome`, `RunsEnd`.
`ReviewLifecycle` refuses a second start of a doc, so the refinement holds
`OneActiveRun` too. In hosted mode a review that ended can be executed again; `before`
records the end it had, and the properties count it as it first ended: this is the only
way in which the queue leaves the lifecycle, and section 4 shows that it does. A
verification that ended is never executed again: `OneThreadOfAnOutcome` says that
outcomes and threads are made once more only for a stop of the process while it runs
(`cut`). `RunsEnd` leaves out the `stranded` verifications, and fails for reviews with
two failed statements (section 4). Three runs put one behind another and a third after
both; two clients race for the one doc, and different docs share nothing but the worker,
for which a verification, which has no doc here, stands too. Two stops let the process
stop again while it ends orphans.

### CurrentVerdict (`lint_run.go`, `carry.go`, `pipeline.go`, `api.go` of reviews)

`runs` is the list of review runs in the order in which they *started*, which is the
order `Summary` goes by. Clients change the doc (`Edit`) or what a verdict reads
besides its text (`Decide`), then run the lint pass under the mutex (`PassBegins`,
`LintIfNeeded`, `LintLoads`, `Carry`, `LintSaves`). The worker is a full review from
`AskReview` to `ReadHead` and `Relint`.

Run `current_verdict` (2 clients, 3 edits, 1 change of settings, 2 reviews): when
nothing is under way, `ShownIsCurrent`, `ReviewReachesVerdict` and
`EveryVersionLinted`. The code does not keep them
without conditions. `races` records three moments at which a change
meets a review, and each property excludes exactly those that break it; each condition
is needed:

| Race | What happens | Breaks |
|---|---|---|
| `start` | a change is under way while a review is put in the queue | all three |
| `settings` | settings change while a review runs | `ReviewReachesVerdict` |
| `relint` | an edit comes after the worker read the version it will lint | `ShownIsCurrent` |

Two clients and the worker give each mutex wait somebody to wait for and somebody
to overtake; three edits give an edit before, during and after a review.

### ProgressBroker (`broker.go`, `run_api.go`)

`Publish`, `PublishEnd`, `Subscribe` and `Cancel` are one step each, under the
broker's mutex. A listener reads the run's row, subscribes, writes the history, then
what its channel holds, until the channel is closed or its client leaves. A send or
a close on a closed channel sets `panicked`.

Run `progress` (2 listeners, channels of 2, 4 events): `NoPanic`,
`NothingElseIsLost`, `KeepingUpSeesTheEnd`, `StreamsEnd`. Capacity 2 with 4 events
fills a channel and empties it again; the code's 64 differs in nothing else.
Behaviours end when the run has, so deadlock is not checked.

### Approval (`status.go`, `api.go` of approvals)

`ApproveOf`, `ContentChangedOf`, `RequestReviewOf` and `SupersedeOf` are decide and
evolve of the status stream. The approve command reads the doc's version and verdict
(`Approve`) and is decided later (`DecideApprove`); a sweep reads the status and the
version (`ListStatus`) and revokes later (`Revoke`). The pass that follows a change
lints, sweeps the waivers, then sweeps the approvals; any of these may fail
(`PassFails`), and then the version stays and the sweep is not done.

Run `approval` (2 reviewers and an author, 2 editors, 3 versions, 2 approvals
required): `ApprovedWithEnough` always; `ApprovedIsCurrent` unless an approval was
under way at a new version or a pass failed and none has swept since (`missed`): a
failed pass is made up for by the next one. `CurrentApprovalStays` unless a sweep was
under way. Three versions let a sweep be two versions late, or one pass fail and the
next one make up for it.

### BundleFolder (`bundle.go`, `record.go`, `local.go`, `watch.go`, `seat.go`, `app.go`)

`disk` is the folder, `versions` and `archived` the store. Two docs, each with a main
file, and one asset that both hold. `Scan`, `RecordDoc` and `Archive` are a sync;
`Begin`, `Check`, `Persist`, `Commit` and a second sync are a save; `EditDisk` is
a person with another tool, at any moment. `Start` syncs, then `Watch` begins.
`Stop` ends the process, and a transaction may fail. `local` is chosen at the start.

Run `bundle_folder` (both modes, 2 clients, 2 docs, 3 writes, 2 troubles):
`ChangeIsOneFile` and `AssetsAgree` always; `RecordedAtRest` unless the folder
changed unheard between the first scan and the watch, or a sync of the watch failed;
`ScannedIsNotOverwritten` unless somebody wrote between the scan of a save and its
write. `unheard` records these moments. Three writes give two saves and an edit, or
an edit, a save and a restore. A scan is one read of the folder; a person who writes
two files while it reads is like one who writes the second after it.

### GitHubSource (`github.go`, `github_api.go` of bundles)

`repo` is the branch, commit by commit, and `pulls` the open pull requests. The store
has the sources (one for each depth of folder, with the last commit it synced), the
doc's `versions` and its row: the current version and the reference with the published
version, its commit, and `ahead`. A sync is `ReadHead`, `Apply` under the mutex (with
`KeepDraft` where the doc is a draft), `StoreSynced`; a publish is `StartPublish`,
`OpenPull`, `RecordPull`; then `StartDiscard`, `DiscardDraft`, `AddSource`, and the
removal `ArchiveDocs`, `DeleteSource`. `Change` is a save under the mutex. `Push` and
`Merge` are other people on GitHub. `Fail` ends a handler anywhere. The list and the
insert of `AddSource` are one step.

Run `github_source` (2 handlers, 2 depths, 2 files and texts, 3 commits, 3 versions, 4
requests, one failure): `DraftIsKept` and `PullRequestIsTheDraft` always; `FollowsGitHub`
when nothing is under way, unless `races` holds one of three moments: a scan that was
read before another one and applied after it, a reference that was written back after
it had changed, and a sync of a source that was removed meanwhile (or a removal that
stopped half way). Each is needed. Three
commits and versions hold a draft, a commit that goes ahead of it, and its merge; two
depths let a deeper source take a doc over and give it back.

### OwnerSeat (`internal/owner`, `cmd/speccy/seat.go`)

`holder` is the lock of the lock file and `file` its text. A process starts (`Start`,
`Take`, `Read`, `WriteStarting`, `OpenApp`, `Listen`), serves, and ends (`Close`,
`ReadIdle`, `ReadIdleFails`, `ReadCalls`, `Interrupt`, `Stop`, `LetGo`, `Release`, `Exit`); `Kill` ends
it anywhere. A call goes from its client (`Ask`, `ServeHTTP`, `Dial`, and `TakeOver` of
the seat) to the owner's handler (`Begin`, `Handle`, `Answer`), or the connection breaks
(`Broken`); `Work` ends a queued job.

Run `owner_seat` (3 processes, 2 calls, 3 tries, one failed start, and one cut, which is
a kill, a signal to a process that is closing, or a failed query of its queue):
`CalledOnce` always; `OneOwner` but for a handler that outlived the wait of the owner that ended
(`overtime`); `FinishesItsQueue` but for the jobs of an owner that was killed or told
to stop (`cut`), of calls that ended after the queue was found idle (`late`), and those
that waited when the last query of the queue failed, which `close` takes for an idle
queue (`unread`).
Three processes are an owner, one that takes over, and one that races it; three tries
are the code's.

### PrBatch (`batch.go`, `marks.go` of pull request reviews, `pending.go` of the action)

`batch` and `item` are the rows, `pending` the pending review on each pull request,
`marks` the local state that says which plain comments are Speccy's, `live` the map
`API.running`. `Create` makes a batch and may launch it. A later start reads it
(`StartRead`), sets it running (`StartSet`) and launches it (`StartLaunch`); a cancel reads
it (`CancelRead`), looks for its run (`CancelLook`), and then either reaches that run
(`CancelReach`) or, of a batch that was planned, stops the items (`CancelItems`) and sets the
status (`CancelFinish`). Each is a step, as the code holds no lock from one to the next. A
run goes through `ExecuteList`, `ExecuteCheck`, `ExecuteStart` or `ExecuteSpent`,
`ExecuteStop` and `ExecuteFinish`; each of its workers posts one pull request: `PostRead`,
then `PostCreate` and `PostMark`, or `PostDelete`, `PostAdd` and `PostKeep`; `PostTrouble` is
a call to GitHub that fails and `MarkFails` a mark that is not stored. `EndItem` is the last
update of the item. `ReviewerActs` is the person on GitHub, `Restart` a stop with its
`EndOrphans`.

Every statement of the store that the code's outcome depends on may fail: the insert of an
item (what was inserted stays), the reads, the stop of the items and the statuses of the
handlers and of a run, which answer an error or end the run where it is, and the updates of
an item, which are only logged. `unstored` has the batches that such a failure concerns, until
`EndOrphans` ends them. A call that fails before it has changed anything is left out where it
leaves all as it was (the first read of each handler).

Run `pr_batch` (2 batches over 2 pull requests, of which one may have a finding, one batch
launched when it is made and one planned, 2 starts, 1 cancel, 1 worker of a run at a time,
2 runs, and one event: a failed call or statement, an act of the reviewer or a restart; 3 million states):
- `OneCommentOfAFinding` unless two posts to one pull request were under way together or
  a mark was not written;
- `CancelIsFinal` unless two starts both launched the batch (`twice`), the cancel came
  between the status and the launch (`launch`), or a start launched the batch, and its run
  listed the items, between the look for a run and the stop of the items (`start`);
- `EndsItsItems` unless a statement about the batch failed and `EndOrphans` has not ended it
  since, or the process stopped while a run still worked on a batch that had its end status.

Two runs are enough, as a batch that starts twice is two runs, and so are two batches on
one pull request. One event is what the time of a run allows; the theorems of section 6 are
for any number of them. The position of a pull request in its batch is a constant, as is the
set of findings that a review of it may have: with one pull request that may have none, both
kinds of post are there.

### ThreadAnswer (`answer.go`, `pipeline.go`, `api.go` of threads)

One thread that is addressed to the AI. `messages` is its stream, `job` the rows of the
queue, `answering` the flag that a browser asks for. A request is `PostMessage`,
`InsertJob` (or none, when a job waits), `StoreFlag`, or `AskFails`. The worker is
`ClaimJob`, `ReadThread`, `PostAI` (or `AnswerFails`), `ClearFlag`, `FinishJob` (or
`FinishFails`). `SetThreadStatus` resolves and reopens the thread at any moment;
`Restart` stops the process, in local mode with its orphans; `LockRunsOut` frees a job.

Run `thread_answer` (both modes, 2 requests at a time, 2 questions, 2 changes of status,
one failure, one stop): `QuestionIsAnswered` under the fairness of section 5, but for the
questions in `lost`, each with its cause; `OneAnswerOfAJob` counts the times a job stayed
running after its worker was gone; `FlagEnds` unless the flag was set after its job was
over (`early`). Two questions are one that is answered and one that comes meanwhile.

### The engines (`verdict.go`, `verify.go`, `divergence.go`, `fix.go`)

Operators, with no state. A list is a function on the ids of its entries where the order
has no effect; a grouping of answers is what a judge wrote, any numbers in any order; a
file is a sequence of pieces of text. `Decide` of a verdict is `DecideResult`,
`DecideScore`, `Radar` and `WaiverCount`; `Decide` of a trace ID is `OutcomeOf`,
`LevelOf` and `Blocks`.

`MCEngines` has no run of its own: its assumptions are evaluated in run `review_queue`.
They compare `Groups` with the loop of the code on every grouping of up to two groups of
up to two numbers, `Score` with the nearest whole number, and `ApplyEdits` with one edit
after the other on every two edits of files of up to three pieces; that a patch hits the
text it was written for is checked on the same files (`PatchHitsItsText`).

## 4. Where the code and its comments disagree

No run is spent on a divergence: each is the reason for a condition in a property that
a run checks, or for a definition that none checks and that TLC refutes at once when it
is added to the cfg. To see one, remove the condition, or check the definition.

- `WaiverSidecar.ApprovedWasWritten` without `overlap.waivers`: of a policy of two
  approvals, two people approve at once. Both handlers decide from a state in which theirs is the first, so neither
  writes the sidecar, and `es.Run` makes the second one final. The waiver is approved
  and no version holds its entry, against the comment at
  `internal/features/waiver/api.go:221`.
- `ReviewQueue.FailedHasNoVerdict`: in hosted mode the process stops after `save` and
  before `FinishJob`. The lock runs out, the job is claimed again, the complete run is
  set to running, its second verdict is refused by the key, and the run becomes failed
  with a verdict, against `internal/features/review/pipeline.go:267`.
- `CurrentVerdict.ReviewLeavesCurrentShown`: the race `relint` of section 3. The doc
  shows a lint run of an old version, although a newer one is linted
  (`internal/features/review/pipeline.go:351-353`).
- `ProgressBroker.EveryListenerSeesTheEnd`: the last event is sent like every other one,
  so a listener whose channel is full misses it
  (`internal/features/review/broker.go:71` says it does not).
- `OwnerSeat.NoJobFailsAtTheEnd`, `OwnerSeat.TakenOver`: see the comments at
  `cmd/speccy/seat.go:348-350` and `41-42`. A call that ends between the read of the
  queue and the read of the calls leaves its job to a process that is about to end, and
  a query of the queue that fails ends the wait with jobs queued (`seat.go:369-370`); and
  a request to take over that meets an owner which is ending is lost.
- `CancelIsFinal`, against "No new pull request starts" (`prreview/batch.go:292`): a cancel
  between the status of a batch and its launch finds no run to end (`batch.go:281-284`); two
  starts of a planned batch both launch it (`batch.go:278`), and the cancel reaches one run;
  and a cancel that found no run (`batch.go:302-304`) stops the items later (`419`), where a
  start may have launched a run in between that goes on with the items it has listed.
- `EndsItsItems`: an error of a run is only logged (`batch.go:341-343`), and so is one of an
  item's update (`449-451`). After one failed statement a batch stays running, or an item
  waiting or reviewing, with nothing at work on it; a handler that fails between two of its
  statements (`177-185`, `419-424`) leaves the same. `EndOrphans` ends the batches that are planned or
  running (`batch.go:610`); an item of a batch that is done stays unfinished for good.
- `OneCommentOfAFinding`: two batches that share a pull request both post what neither
  has seen (`batch.go:538`).
- `FlagEnds`: the flag is set after the job is stored (`review/answer.go:40`), so a job
  that ends first leaves it set until another job of the thread ends
  (`answer.go:26-27`).
- `FollowsGitHub`: the three races of `GitHubSource` in section 3.
- `SidecarAgreesInTurn`: a rejection between an approval's sidecar write and its
  append leaves an entry that applies with no approved waiver
  (`internal/features/waiver/api.go:514`). A withdrawal in that place leaves an approved
  acknowledgement with no entry. And of two decisions at once on a local bundle, the
  file keeps the second only (`bundle/decisions.go:88`).
- `RunsEnd` with two failed statements: `execute` returns an error and
  `FailActiveRun` fails too. `RunNext` still ends the job, and no one ends the run:
  its doc refuses every later review (`pipeline.go:213-216`).
- `ReviewReachesVerdict`: a change of settings during a review makes a lint run
  that started after it, which hides its findings (`lint_run.go:685-686`).
- `EveryVersionLinted`: a queued review counts as the run of a version, so the pass
  after an edit does not lint it; if the review fails, nothing does
  (`lint_run.go:1-2`).
- `ApprovedIsCurrent`, `CurrentApprovalStays`: an approval, or a sweep, that read the
  doc before a new version and is recorded after it (`approval/api.go:108`,
  `approval/status.go:161-162`).
- `ScannedIsNotOverwritten`: an edit on disk after the scan of a save and before
  its write is gone (`bundle.go:302`).
- `RecordedAtRest`: an edit between the first sync and the watch has no event
  (`cmd/speccy/seat.go:181-182`); a sync of the watch that fails is not tried again.

- `VerificationEngine.OutcomeOf`: the comment at `internal/engine/verify/verify.go:17`
  says that implemented means a code target and a test target that hold; a test alone is
  enough (`MCEngines!ImplementedByATest`).
- `FixEngine.PatchEdit`: `AcceptFix` takes the patch off its finding after the change
  (`review/fix.go:593`). A second accept in between, or after a failure there, finds a
  patch that adds text never stale (`MCEngines!InsertIsNeverStale`) and adds it twice.
- `RunsEnd`, `stranded`: the start or the failure of a verification is not stored
  (`verify/run.go:187`, `197`), where "a run that fails stores its cause on the run" (line 169)
  does not hold, and nothing ends the run.

## 5. Fairness

- `EventStore`: weak fairness of `Progress(w)`. A goroutine that can step does, and
  SQLite's wait for a lock ends, in a success or an error. Calls and crashes are not
  fair.
- `ReviewQueue`: weak fairness of the worker's steps, of the start of a stopped
  process, and of each lock's end. `Work` loops while the process lives,
  `RunTimeout` bounds the stages, `jobLock` is a fixed time, and a host (or the next
  person who opens the folder) starts the process. Failures and stops are not fair,
  and bounded.
- `ThreadAnswer`: weak fairness of each request that began, of the worker, and of the
  end of a job's lock, for the reasons of `ReviewQueue`.
- `ProgressBroker`: weak fairness of the row's end (`RunsEnd`), of the last
  event, which follows it in the same function, and of each listener.

## 6. Proofs

Proved for any sets and bounds, from the assumptions named in the modules: batches
are non-empty sequences of events; `NoWriter`, `Nobody`, `NoOne`, `NoClient`, `NoDoc` and
`NoEntry` are none of what they stand beside, `NoFile` is no content that a write has, and
`Asset` is no doc; the bounds are naturals; `Speccy` and
`NoUser` are not people. One theorem, `ApprovalsAreWrittenFirst`, has a condition on a
constant of its own. Each proof goes by an inductive invariant that TLC checked on the
component's instance first; each conjunct has its lemma, with one step for each action
that can disturb it.

**`EventStoreProofs`.** The inductive invariant is `TypeOK`, `CommittedTogether`,
`DecidedOnTheWholeStream` and three facts that make them inductive. `OneTransaction`:
a writer is in the transaction exactly when it holds the lock.
`SeenIsAPrefix`: each loaded snapshot is a prefix of the stream, so one with the
row's version *is* the row (`SameVersionIsTheRow`): this is where the version check
is used. `TransactionExtendsRow`: what the open transaction will commit
is the row with the batch at its end. Without the third, nothing connects `tx` at
`Commit` with the snapshot that was decided on. Theorems: `TypeCorrect`, `CommitsTogether`, `NoStaleDecision`,
`StreamOnlyGrows` (a committed event is never changed or removed) and
`RunImplementsAtomicStream`, a refinement in which `Commit` is `TakeEffect`, the
other ways a call ends are `CloseWithoutEffect`, and all else stutters.
Its second half is about `WaiverStream` (`StreamInv`). One lemma for each decide function says what a step of it
demands and does. The invariant joins `StreamTypeOK` with what holds of a
waiver that waits (its approvals are `signed`, by different people whom the policy
allowed, and fewer than needed), of one that was decided, and of who decided it.
Theorems: `StreamTypeCorrect`, `ApprovedMeetsPolicy`, `FinalIsFinal`, and `DecisionStays`.

**`WaiverSidecarProofs`.** The invariant has two parts. `Always` holds under every
interleaving and failure. Its heart is three facts about time. `Asked`: a new waiver is
in the hands of the one handler that asks for it, so its hash cannot change once
another handler can see it. `Reads`: what a handler holds is the sidecar of the version
it goes by, and at the write its waiver still fits that version's text, because versions
and hashes in use never change; with the check against the head, a new version then
differs from the last in one entry. `WrittenFirst`: what one person's decision closes was
written, because the preview of an approval can only be overtaken by further approvals.
`Turn` holds as long as the handlers that write come one after another. It says what the
one handler at work read is what there is (`ReadsNow`), that its preview is still true
(`Previewed`), and that the streams follow the sidecar *but for what this handler has
yet to append, to sweep or to withdraw* (`Told`, `CheckAgrees`, `TraceAgrees`). Each
action moves one piece of work, and at rest none is left, which is
`SidecarAgreesInTurn`. A request that others decide may run beside all this, since
nobody goes by what it changes (`AsksInTurn`). Theorems: `TypeCorrect`, `SavesAreKept`,
`EntriesFit`, `OneDecisionIsWrittenFirst`, `SidecarAgrees`, and
`ApprovalsAreWrittenFirst`, for every number of needed approvals: an approval that wrote
no entry is not the last one unless another has appended since its preview
(`Overtaken`), and those that another has overtaken are the ones that the property names.

**`ReviewQueueProofs`.** `Starts` says that the client which holds `startMu` has seen no
active review of its doc, and that a doc has one at most; the exception are the reviews
that a hosted process executes again (`ExecutedAgain`), which `before` keeps out of the
lifecycle. `Rows` ties a run's job to its status and kind, `Works` ties the worker's
step to the run that it claimed. Every step then is a step of `ReviewLifecycle` or a
stutter (`QueueImplementsLifecycle`), and `OneActive` follows. `ThreadsOfOutcomes` needs
`Outcomes`: a verification that is active with stored outcomes is at one of three steps
of the worker, or was cut off by a stop, or is `stranded`. The bound of the counters in
`TypeOK` is proved from it, not assumed. Theorems: `TypeCorrect`,
`QueueImplementsLifecycle`, `OneActive`, `ThreadsOfOutcomes`.
At its end are the engines, with no induction: each theorem is about one call. `MoreNeverReadies`,
`ScoreRounds` and `ScoreIsMonotone` are about the verdict; the last two need the quotient
and product lemmas, because the score is rounded. `EvidenceNeverBlocks` follows from
`BlocksForCause`, which says what a blocking outcome needs. `GroupsPartition` shows that
an answer is in the group that first named it (`LeastElement`) or alone, and
`AgreementIsSaid` follows: with one group, some group of the judge names all answers.
`PatchHitsOldText` and `InsertsTakeNothing` are about a stored patch in a file that changed since.

**`CurrentVerdictProofs`.** `Holding`: a lint pass holds the mutex from its read of the
doc to its save, so a change that it has not seen waits for the mutex yet. `Calm`: with no
change at the start of a review, a lint pass saves the run that started last, so what it
saves is shown. The three properties have a conjunct each, which says what is left to do
when something is under way. `Linted`: the version has a verdict or a change goes on. Its
core is the pass that skips (`SkipShowsCurrent`): the run it found may be a review that
has not ended, or that failed, and then an earlier run has judged the version.
`Current`: the runs are in the order of the versions (`Ordered`), and what is shown is
current, or a change or the review under way will make it so. `Reaches`: the verdict that
is shown, and the one that is to be saved, carry the last full review, or the worker has
its second lint before it (`WillRelint`). For that, a change during a review must have
made a version (`settings` in `races` is the case where it did not). Theorems:
`TypeCorrect`, `ShowsCurrent`, `ReachesVerdict`, `LintsEveryVersion`.

**`ProcessProofs`.** First `OwnerSeat` (`IInv`). `Seats`: a process that has the store has the lock, which gives
`OneOwner` for the process itself. `Calls`: a call runs in an owner that still has its
lock, or it outlived the owner's wait (`overtime`). `Counts`: a call that is tried again
was never begun, so a lost answer is not a second try. `Waits`: a job in the queue has
an owner that works on it and has not found it empty, unless that owner was ended
(`cut`), the call ended too late (`late`), or a query of the queue failed (`unread`).
Theorems: `TypeCorrect`, `OneOwnerAtATime`,
`HandledOnce`, `QueueIsFinished`.
Then `ProgressBroker` (`BrokerInv`). `InStep`: the map of the broker and the open channels are the
same set, which is why no send and no close meets a closed channel. `Streams`: what a
listener wrote, holds and has in its channel, put together, is in order and is the
history without what it missed. The two are about the sequence as a whole, so a
listener's step moves an event within it (`WriteMovesOne`) and a publish appends to it.
Theorems: `BrokerTypeCorrect`, `NeverPanics`, `HistoryThenChannel`, `EndIsSeen`.

**`DocProofs`.** First `Approval` (`ApprovalInv`). All three properties of the run, for any people, editors and
number of approvals. `DecideApprove` counts votes and `ApprovedWithEnough` counts
people: `VotesCounted` shows the two agree, by a bijection that needs that no author
has a vote. With that (`GoodVotes`), one lemma for each command shows it keeps
`Counted`. The other two properties are not inductive without what is still under way.
`SweptAtHead`: as long as no sweep met a new version, each one revokes for the current
version. `Pending`: as long as no approval met a new version and no pass failed since
the last sweep began, a doc that is approved for an older one has a sweep to come that
will read a version other than that one.
Theorems: `ApprovalTypeCorrect`, `ApprovedHasEnough`, `NothingOldIsApproved`, `CurrentVotesStay`.
Then `ThreadAnswer` (`IInv`). `Claims`: the worker's job is running, and who is under way has
a question and a job. `Posted`: a job has no more posts than claims, where a claim that
has posted is over, or at one of the steps after the post (`MayHavePosted`); a job that may be
claimed again after its post is one whose worker was gone, which `again` counts.
`Flagged`: while the flag is up a job is active whose end will delete it
(`WillClear`), unless the flag came too late (`early`). Theorems: `TypeCorrect`,
`JobsAnswerOnce`, `FlagGoes`.

**`BundleFolderProofs`.** What a change compared stays true because only the actor in
`Service.mu` changes the store (`Asked`, `Synced`). A version that a change made is then
the head with one file changed. `Unseen`: the folder is still as the change's first sync
found it, unless somebody wrote in between, so the write goes over what the head holds.
`PickedUp` is why nothing gets lost: as long as the folder holds something that the store
does not, the process is down or starts, an event waits, the watch syncs, or a change has
its second sync before it. What breaks this is what `unheard` records, and the property
names: an edit before the watch runs, or a failed transaction that leaves nobody to look. Theorems: `TypeCorrect`, `ChangesAreOneFile`,
`NoUnseenOverwrite`, `HostedAssetsAgree`, `FolderIsRecorded`.

**`GitHubProofs`.** First `GitHubSource` (`IInv`). `RowFits`: every row, the doc's and the ones that handlers have
read, refers to a version and to the commit that holds just that version, or to nothing.
Both only grow, so this stays true of a row however late it is written back, and of the
reference that `Publish` and `DiscardDraft` hold over their calls to GitHub. It gives
`PullRequestIsTheDraft` and `DraftIsKept`, with no condition on races. `FollowsGitHub`
needs what the sources do: one is there at a time (`OneLiveSource`), because a folder is
covered once; and its row names a commit without an error only when that commit was applied
(`HeadWasApplied`). While `races` is empty the applied commits only get newer, the doc of a
source that leaves is archived and stays so (`RemovedIsArchived`), and the doc of a source
with an applied commit shows the newest one (`AppliedIsShown`), or a draft ahead of which
GitHub is, or the sync that the end of such a draft starts is on its way (`Resyncing`).
Theorems: `TypeCorrect`, `PullRequestMakesTheDraft`, `DraftStays`, `FollowsItsSource`.
Then `PrBatch` (`BatchInv`), in two halves that meet in `raced`. `RowsInv` is about the rows, batch
by batch (`BatchHolds`); a step touches one batch, and the others are framed
(`BatchFrame`), so each action has one lemma about its batch. `WaitsHold`: a pull request that
waits is at hand in every run of its batch that has read the items, or the run's goroutine is
at work on it, until a statement of the batch fails (`unstored`); and nothing waits once the items
were stopped, whatever failed. With `RunningHolds` (a running batch has a run, a launch,
or a failed statement) and `ReviewingHolds` (so has an item under review) it gives
`EndsItsItems`. `CancelHolds`: a batch is `Settled`, so that no run of it starts
a pull request any more, or it is `InReach`: its one run or launch is the one that
`live` gives to a cancel, also to one that looked and has not reached it, until one
of the three races happens. A cancel that has stopped the items leaves the batch settled
or raced. `CancelIsFinal` follows. `PostInv` is about one pull request. `IdsGrow`: a
review gets an id that none had, so what a post still deletes or adds goes to a review
that is there, or to none. `Tidy`: while its posts come one at a time and no mark is lost,
every plain comment has its mark, or the goroutine that will write it
(`MarkComes`). So the next post finds it, deletes it before it adds its own, and a
finding has one comment. A delete that fails part way takes the mark after its comment, so it
leaves none without one. A post at rest has no mark to
write, so a stop between two posts loses none; one within a post is what `raced` records.
Theorems: `BatchInvariance`, `OneComment`, `CancelFinal`, `ItemsEnd`.

Only model-checked: the file that several patches make (`EditsAtOnce`), which is a
fold over the edits, and `Groups` against the loop of the code (`GroupsAsTheLoop`); and every
liveness property (`EveryCallEnds`, `RunsEnd`, `StreamsEnd`, `QuestionIsAnswered`).
Liveness under fairness, `ENABLED`, and induction over data are beyond the provers used here, and stay with TLC.

## 7. What is not modelled

- Pure functions of text (`internal/engine/anchor`, `ears`, `lint`, `section`,
  `sourcepolicy`, the parsers of `internal/source`) and the prompts and answers of
  model stages: there is no state to go wrong; their tables are tested. A stage is a
  step that ends or fails.
- Queries, generated code (`internal/http/api`, `db`), front ends and the web app.
- Verifications outside the queue (`Verify`), the stale mark of earlier runs, and what
  the mapper and the judges answer.
- Of the modelled components: renames, new folders, titles and refs of versions;
  waivers on another doc's changes, of verifications and of whole-doc checks in the
  handlers (the aggregate has them); edits of a sidecar by hand; the links that `save`
  stores; a lint pass that fails half way, but for the sweep of approvals it skips.
- Everything marked planned below.

## 8. Plan

Done: the modules above, in this order: event store, waiver, waiver handlers, review
queue, current verdict, progress, approval, bundle.

Then GitHub sources, the seat, batches, answers, verifications, and the engines.

Next, to model:

1. The chain after a change (`app.go`): lint, waiver sweep and approval sweep of
   several changes in one model: so far `Approval` alone has a pass that fails, and the
   docs that it leaves unlinted are in none. Composes `CurrentVerdict`,
   `WaiverSidecar` and `Approval`.
2. Upstream requests and send-backs (`conflict.go`): the sidecars of two docs.
3. Accepting a fix: the change and the patch on its finding, as two steps of two requests.
4. Share links and guests; the model gateway's budget.

A run is for one component: the passing run covers both modes and all failures at
once. New questions about a component go into its run, and a divergence whose condition a
passing property already states may give up its own run.

Next, to prove:

1. A lifecycle of batches: the statuses of a batch and of its items as an abstract
   specification that `PrBatch` implements, but for the batches that raced or that a statement failed.
2. The invariants of the modules above, when they are there: that a doc which a failed
   pass left without a lint, or approved, has a pass to come.
