----------------------------- MODULE ReviewQueue -----------------------------
(***************************************************************************)
(* The queue of full reviews of internal/features/review: StartRun queues  *)
(* a run with its job, one worker claims the jobs in turn and executes     *)
(* them, and each run ends in a row that is complete, with a verdict, or   *)
(* failed.                                                                 *)
(*                                                                         *)
(* Each action is one statement or one transaction of the store.  The      *)
(* process may stop between any two of them.  In local mode a process that *)
(* starts ends the jobs it finds (EndOrphans); in hosted mode a job whose  *)
(* lock ran out is claimed again.  A statement may fail, MaxErrors times   *)
(* in a behaviour.                                                         *)
(*                                                                         *)
(* The worker also executes the verifications of internal/features/verify. *)
(* A verification stores its outcomes, opens a blocking thread for the     *)
(* outcomes that block, and only then is done (StatusDone is "complete"    *)
(* here).                                                                  *)
(*                                                                         *)
(* A run has one job, so the job bears the run's number: runs are numbered *)
(* in the order in which they are created.  What the stages find is in     *)
(* CurrentVerdict; here a review ends well or badly, and a verification    *)
(* finds an outcome that blocks, or fails.                                 *)
(***************************************************************************)
EXTENDS Naturals, FiniteSets

CONSTANTS
    Client,     \* the requests that the process handles at one time
    NoClient,
    Doc,        \* the spec docs
    NoDoc,
    Modes,      \* the modes of the process: whether it is hosted, or local
    MaxRuns,    \* bound on the runs, reviews and verifications together
    MaxVerifications,
    MaxErrors,  \* bound on the statements of the store that fail
    MaxTroubles \* bound on these and the stops of the process together

ASSUME NoClientAssumption == NoClient \notin Client
ASSUME NoDocAssumption == NoDoc \notin Doc
ASSUME ModesAssumption == Modes \subseteq BOOLEAN
ASSUME BoundsAssumption == MaxRuns \in Nat /\ MaxVerifications \in Nat /\ MaxErrors \in Nat /\ MaxTroubles \in Nat

VARIABLES
    hosted,     \* the mode, which does not change
    verifies,   \* the runs that are verifications; the others are reviews
    status,     \* review_run.status, verification_run.status; "none" is no row
    docOf,      \* review_run.spec_doc_id
    verdict,    \* the runs with a row in verdict
    outcomes,   \* how often a verification stored its outcomes
    threads,    \* how often it opened its blocking thread
    job,        \* job.status
    locked,     \* the running jobs whose locked_until is not over
    process,    \* the process: down, starting, up
    starting,   \* the doc that each client's StartRun checked
    startMu,    \* the client that holds startMu
    worker,     \* where the worker is in RunNext and execute
    claimed,    \* the run of the job the worker claimed, or 0
    stops,      \* how often the process stopped
    errors,     \* how many statements failed
    before,     \* history: the end that a run had when it was executed again
    cut,        \* history: how often the process stopped while a verification ran
    stranded    \* history: the verifications whose start or end was not stored

verification == <<verifies, outcomes, threads, cut, stranded>>
rows == <<status, docOf, verdict, job, locked, before>>
requests == <<starting, startMu>>
counters == <<stops, errors>>
vars == <<hosted, verification, rows, process, requests, worker, claimed, counters>>

Run == 1 .. MaxRuns

Active == {"queued", "running"}

Ended == {"complete", "failed"}

Steps == {"idle", "execute", "judge", "save", "fail", "abort", "finish",
          "store", "open", "done", "give up", "list orphans", "end orphan"}

\* The rows RunningRunFor looks for.
ActiveOf(d) == {r \in Run : docOf[r] = d /\ status[r] \in Active}

Init ==
    /\ hosted \in Modes
    /\ status = [r \in Run |-> "none"]
    /\ docOf = [r \in Run |-> NoDoc]
    /\ verdict = {}
    /\ verifies = {}
    /\ outcomes = [r \in Run |-> 0]
    /\ threads = [r \in Run |-> 0]
    /\ cut = [r \in Run |-> 0]
    /\ stranded = {}
    /\ job = [r \in Run |-> "none"]
    /\ locked = {}
    /\ process = "up"
    /\ starting = [c \in Client |-> NoDoc]
    /\ startMu = NoClient
    /\ worker = "idle"
    /\ claimed = 0
    /\ stops = 0
    /\ errors = 0
    /\ before = [r \in Run |-> "none"]

StatementFails ==
    /\ errors < MaxErrors
    /\ stops + errors < MaxTroubles
    /\ errors' = errors + 1

-----------------------------------------------------------------------------
(* StartRun. *)

\* Mutant: StartRun does not take startMu.
CheckNoRunUnlocked(c, d) ==
    /\ process = "up"
    /\ starting[c] = NoDoc
    /\ ActiveOf(d) = {}
    /\ \E r \in Run : status[r] = "none"
    /\ starting' = [starting EXCEPT ![c] = d]
    /\ UNCHANGED <<hosted, verification, rows, process, startMu, worker, claimed, counters>>

\* StartRun takes startMu and finds no active run of the doc.  When it finds
\* one it returns ErrRunActive and changes nothing.  (Bound: a run is left.)
CheckNoRun(c, d) ==
    /\ process = "up"
    /\ starting[c] = NoDoc
    /\ startMu = NoClient
    /\ ActiveOf(d) = {}
    /\ \E r \in Run : status[r] = "none"
    /\ startMu' = c
    /\ starting' = [starting EXCEPT ![c] = d]
    /\ UNCHANGED <<hosted, verification, rows, process, worker, claimed, counters>>

StartReturns(c) ==
    /\ starting' = [starting EXCEPT ![c] = NoDoc]
    /\ startMu' = NoClient

\* One transaction inserts the run and its job.
InsertRun(c, r) ==
    /\ starting[c] # NoDoc
    /\ status[r] = "none"
    /\ \A q \in Run : q < r => status[q] # "none"
    /\ status' = [status EXCEPT ![r] = "queued"]
    /\ docOf' = [docOf EXCEPT ![r] = starting[c]]
    /\ job' = [job EXCEPT ![r] = "queued"]
    /\ StartReturns(c)
    /\ UNCHANGED <<hosted, verification, verdict, locked, before, process, worker, claimed, counters>>

InsertRunFails(c) ==
    /\ starting[c] # NoDoc
    /\ StatementFails
    /\ StartReturns(c)
    /\ UNCHANGED <<hosted, verification, rows, process, worker, claimed, stops>>

\* verify.Start: one transaction inserts the run and its job.  A doc may have
\* many verifications.
InsertVerification(r) ==
    /\ process = "up"
    /\ Cardinality(verifies) < MaxVerifications
    /\ status[r] = "none"
    /\ \A q \in Run : q < r => status[q] # "none"
    /\ verifies' = verifies \cup {r}
    /\ status' = [status EXCEPT ![r] = "queued"]
    /\ job' = [job EXCEPT ![r] = "queued"]
    /\ UNCHANGED <<hosted, outcomes, threads, cut, stranded, docOf, verdict, locked, before,
                   process, requests, worker, claimed, counters>>

-----------------------------------------------------------------------------
(* RunNext and execute. *)

GoTo(step) ==
    /\ worker' = step
    /\ UNCHANGED <<hosted, process, requests>>

Reviews == claimed \notin verifies

Now(r, s) == status' = [status EXCEPT ![r] = s]

\* A queued job, or a running one whose lock ran out.
Claimable(r) == job[r] = "queued" \/ (job[r] = "running" /\ r \notin locked)

\* The worker takes the oldest claimable job.
ClaimJob(r) ==
    /\ process = "up"
    /\ worker = "idle"
    /\ Claimable(r)
    /\ \A q \in Run : q < r => ~Claimable(q)
    /\ job' = [job EXCEPT ![r] = "running"]
    /\ locked' = locked \cup {r}
    /\ claimed' = r
    /\ GoTo("execute")
    /\ UNCHANGED <<verification, status, docOf, verdict, before, counters>>

\* The queue is empty: the worker waits for the wake channel or two seconds.
ClaimNothing ==
    /\ process = "up"
    /\ worker = "idle"
    /\ \A r \in Run : ~Claimable(r)
    /\ UNCHANGED vars

NoteAgain(r) ==
    before' = [before EXCEPT ![r] = IF @ = "none" /\ status[r] \in Ended
                                      THEN status[r] ELSE @]

\* execute reads the run and marks it running, whatever its status is; or the
\* doc's type has no profile any more, and the run fails.
Execute ==
    /\ worker = "execute"
    /\ Reviews
    /\ \/ Now(claimed, "running") /\ GoTo("judge")
       \/ UNCHANGED status /\ GoTo("fail")
    /\ NoteAgain(claimed)
    /\ UNCHANGED <<verification, docOf, verdict, job, locked, claimed, counters>>

\* The stages end: with a result; or with an error, which the deadline
\* RunTimeout and a cancelled context are too.
RunStages ==
    /\ worker = "judge"
    /\ Reviews
    /\ GoTo("save") \/ GoTo("fail")
    /\ UNCHANGED <<verification, rows, claimed, counters>>

\* save ends the run and inserts its verdict in one transaction.  run_id is
\* the key of verdict: a second insert rolls the transaction back.
Save ==
    /\ worker = "save"
    /\ IF claimed \in verdict
         THEN GoTo("fail") /\ UNCHANGED <<status, verdict>>
         ELSE GoTo("finish") /\ Now(claimed, "complete") /\ verdict' = verdict \cup {claimed}
    /\ UNCHANGED <<verification, docOf, job, locked, before, claimed, counters>>

\* fail: finishRun sets the row to failed, and execute returns no error.
Fail ==
    /\ worker = "fail"
    /\ Now(claimed, "failed")
    /\ GoTo("finish")
    /\ UNCHANGED <<verification, docOf, verdict, job, locked, before, claimed, counters>>

\* FailActiveRun ends a run that is queued or running.
FailActive(r) == status' = [status EXCEPT ![r] = IF @ \in Active THEN "failed" ELSE @]

\* Mutant: RunNext does not end the run of a failed job.
AbortJobOnly ==
    /\ worker = "abort"
    /\ GoTo("finish")
    /\ UNCHANGED <<verification, rows, claimed, counters>>

\* execute returned an error: RunNext ends the run that has no end yet.
Abort ==
    /\ worker = "abort"
    /\ FailActive(claimed)
    /\ GoTo("finish")
    /\ UNCHANGED <<verification, docOf, verdict, job, locked, before, claimed, counters>>

\* FinishJob: the job is done or failed, and its lock is cleared.
EndJob(r) ==
    /\ job' = [job EXCEPT ![r] = "ended"]
    /\ locked' = locked \ {r}

Finish ==
    /\ worker = "finish"
    /\ EndJob(claimed)
    /\ claimed' = 0
    /\ GoTo("idle")
    /\ UNCHANGED <<verification, status, docOf, verdict, before, counters>>

-----------------------------------------------------------------------------
(* Execute of a verification. *)

\* Mutant: a verification that ended is executed again.
ExecuteVerificationAgain ==
    /\ worker = "execute"
    /\ ~Reviews
    /\ Now(claimed, "running")
    /\ GoTo("judge")
    /\ UNCHANGED <<verification, docOf, verdict, job, locked, before, claimed, counters>>

\* A verification that is done or failed ends its job.
ExecuteVerification ==
    /\ worker = "execute"
    /\ ~Reviews
    /\ IF status[claimed] \in Ended
         THEN GoTo("finish") /\ UNCHANGED status
         ELSE GoTo("judge") /\ Now(claimed, "running")
    /\ UNCHANGED <<verification, docOf, verdict, job, locked, before, claimed, counters>>

\* The repo is read and the requirements are judged, or this fails.
JudgeRequirements ==
    /\ worker = "judge"
    /\ ~Reviews
    /\ GoTo("store") \/ GoTo("give up")
    /\ UNCHANGED <<verification, rows, claimed, counters>>

\* store: one transaction inserts the outcomes, beside those that are there.
StoreOutcomes ==
    /\ worker = "store"
    /\ outcomes' = [outcomes EXCEPT ![claimed] = @ + 1]
    /\ GoTo("open")
    /\ UNCHANGED <<verifies, threads, cut, stranded, rows, claimed, counters>>

\* openThreads: a new thread, whatever threads there are.
OpenThread ==
    /\ worker = "open"
    /\ threads' = [threads EXCEPT ![claimed] = @ + 1]
    /\ GoTo("done")
    /\ UNCHANGED <<verifies, outcomes, cut, stranded, rows, claimed, counters>>

FinishVerification ==
    /\ worker = "done"
    /\ Now(claimed, "complete")
    /\ GoTo("finish")
    /\ UNCHANGED <<verification, docOf, verdict, job, locked, before, claimed, counters>>

FailVerification ==
    /\ worker = "give up"
    /\ Now(claimed, "failed")
    /\ GoTo("finish")
    /\ UNCHANGED <<verification, docOf, verdict, job, locked, before, claimed, counters>>

\* An error after the start fails the verification.  When its start or its
\* failure is not stored, RunNext ends the job, and the run of no job ends.
VerificationStatementFails ==
    /\ StatementFails
    /\ ~Reviews
    /\ \/ /\ worker \in {"store", "open", "done"}
          /\ GoTo("give up")
          /\ UNCHANGED stranded
       \/ /\ worker \in {"execute", "give up"}
          /\ GoTo("finish")
          /\ stranded' = stranded \cup {r \in {claimed} : status[r] \in Active}
    /\ UNCHANGED <<verifies, outcomes, threads, cut, rows, claimed, stops>>

-----------------------------------------------------------------------------

\* A statement of the worker fails.  An error of save is a failure of the run;
\* one of FailActiveRun is logged; one of FinishJob leaves the job locked.
\* Every other one makes execute return an error.
WorkerStatementFails ==
    /\ StatementFails
    /\ \/ worker = "execute" /\ Reviews /\ GoTo("abort") /\ UNCHANGED claimed
       \/ worker = "fail" /\ GoTo("abort") /\ UNCHANGED claimed
       \/ worker = "save" /\ GoTo("fail") /\ UNCHANGED claimed
       \/ worker = "abort" /\ GoTo("finish") /\ UNCHANGED claimed
       \/ worker = "finish" /\ GoTo("idle") /\ claimed' = 0
    /\ UNCHANGED <<verification, rows, stops>>

\* jobLock is over for a running job.
LockRunsOut(r) ==
    /\ r \in locked
    /\ r # claimed
    /\ locked' = locked \ {r}
    /\ UNCHANGED <<hosted, verification, status, docOf, verdict, job, before, process, requests, worker, claimed, counters>>

-----------------------------------------------------------------------------
(* The process stops and starts again. *)

\* What is in memory is gone.
ProcessEnds ==
    /\ process' = "down"
    /\ starting' = [c \in Client |-> NoDoc]
    /\ startMu' = NoClient
    /\ worker' = "idle"
    /\ claimed' = 0
    /\ UNCHANGED <<hosted, verifies, outcomes, threads, stranded, rows>>

Stop ==
    /\ process # "down"
    /\ stops + errors < MaxTroubles
    /\ stops' = stops + 1
    /\ cut' = [r \in Run |-> IF r = claimed /\ r \in verifies /\ status[r] = "running" THEN cut[r] + 1 ELSE cut[r]]
    /\ ProcessEnds
    /\ UNCHANGED errors

\* app.New: in local mode EndOrphans runs before the worker starts.
Start ==
    /\ process = "down"
    /\ IF hosted
         THEN process' = "up" /\ UNCHANGED worker
         ELSE process' = "starting" /\ worker' = "list orphans"
    /\ UNCHANGED <<hosted, verification, rows, requests, claimed, counters>>

\* The jobs ListActiveJobs returns.
ActiveJobs == {r \in Run : job[r] \in Active}

\* EndOrphans takes the active jobs in turn: FailActiveRun, or EndOrphan of a
\* verification, and then FinishJob.
EndOrphanRun(r) ==
    /\ worker = "list orphans"
    /\ r \in ActiveJobs
    /\ \A q \in ActiveJobs : r <= q
    /\ FailActive(r)
    /\ claimed' = r
    /\ GoTo("end orphan")
    /\ UNCHANGED <<verification, docOf, verdict, job, locked, before, counters>>

EndOrphanJob ==
    /\ worker = "end orphan"
    /\ EndJob(claimed)
    /\ claimed' = 0
    /\ GoTo("list orphans")
    /\ UNCHANGED <<verification, status, docOf, verdict, before, counters>>

\* app.New returns an error, and the process ends.
EndOrphansFails ==
    /\ worker \in {"list orphans", "end orphan"}
    /\ StatementFails
    /\ ProcessEnds
    /\ UNCHANGED <<cut, stops>>

Serve ==
    /\ worker = "list orphans"
    /\ ActiveJobs = {}
    /\ process' = "up"
    /\ worker' = "idle"
    /\ UNCHANGED <<hosted, verification, rows, requests, claimed, counters>>

-----------------------------------------------------------------------------

WorkerStep ==
    \/ \E r \in Run : ClaimJob(r) \/ EndOrphanRun(r)
    \/ Execute
    \/ RunStages
    \/ Save
    \/ Fail
    \/ Abort
    \/ ExecuteVerification
    \/ JudgeRequirements
    \/ StoreOutcomes
    \/ OpenThread
    \/ FinishVerification
    \/ FailVerification
    \/ Finish
    \/ EndOrphanJob
    \/ Serve

Next ==
    \/ \E c \in Client : \/ \E d \in Doc : CheckNoRun(c, d)
                         \/ \E r \in Run : InsertRun(c, r)
                         \/ InsertRunFails(c)
    \/ \E r \in Run : InsertVerification(r)
    \/ WorkerStep
    \/ ClaimNothing
    \/ WorkerStatementFails
    \/ VerificationStatementFails
    \/ EndOrphansFails
    \/ \E r \in Run : LockRunsOut(r)
    \/ Stop
    \/ Start

Spec == Init /\ [][Next]_vars

\* The worker's loop runs while the process does: RunTimeout bounds the stages,
\* and nothing blocks a statement for ever.  Time passes, so a lock runs out.
\* A process that stopped is started again: by the host, or by the person who
\* opens the folder the next time.
Fairness ==
    /\ WF_vars(WorkerStep)
    /\ WF_vars(Start)
    /\ \A r \in Run : WF_vars(LockRunsOut(r))

FairSpec == Spec /\ Fairness

-----------------------------------------------------------------------------
(* Invariants. *)

\* Every row and variable has its type; a lock is on a running job; the worker
\* has a run exactly when it works on one.
TypeOK ==
    /\ hosted \in BOOLEAN
    /\ status \in [Run -> {"none"} \cup Active \cup Ended]
    /\ before \in [Run -> {"none"} \cup Ended]
    /\ docOf \in [Run -> Doc \cup {NoDoc}]
    /\ verdict \subseteq Run \ verifies
    /\ verifies \cup stranded \subseteq Run
    /\ {outcomes, threads, cut} \subseteq [Run -> 0 .. MaxTroubles + 1]
    /\ job \in [Run -> {"none", "ended"} \cup Active]
    /\ locked \subseteq {r \in Run : job[r] = "running"}
    /\ process \in {"down", "starting", "up"}
    /\ starting \in [Client -> Doc \cup {NoDoc}]
    /\ startMu \in Client \cup {NoClient}
    /\ worker \in Steps
    /\ claimed \in Run \cup {0}
    /\ claimed = 0 <=> worker \in {"idle", "list orphans"}
    /\ stops \in 0 .. MaxTroubles
    /\ errors \in 0 .. MaxErrors

ExecutedAgain == {r \in Run : before[r] # "none"}

\* A doc has one queued or running review at most, however the starts of two
\* clients interleave: RunningRunFor and the insert are two statements, and
\* startMu makes them one step.  A run that ended and is executed again, as a
\* hosted process may, is one more.
OneActiveRun == \A d \in Doc : Cardinality(ActiveOf(d) \ ExecutedAgain) <= 1

\* A verification reads as done only after its outcomes are stored and its
\* thread exists (execute).  Each stop of the process while it runs stores the
\* outcomes and opens the thread once more at most: one that is done or failed
\* is not executed again, though its job may be claimed again.
OneThreadOfAnOutcome ==
    \A r \in verifies :
        /\ threads[r] <= outcomes[r]
        /\ outcomes[r] <= 1 + cut[r] \/ r \in stranded
        /\ status[r] = "complete" => threads[r] >= 1

\* A failed run gives no verdict (REQ-024).
FailedHasNoVerdict == \A r \in verdict : status[r] # "failed"

-----------------------------------------------------------------------------
(* Action and liveness properties. *)

Lifecycle == INSTANCE ReviewLifecycle WITH
    status <- [r \in Run |-> CASE r \in verifies -> "none"
                               [] r \in ExecutedAgain -> before[r]
                               [] OTHER -> status[r]]

\* A review is queued, runs, and ends once: the queue implements the lifecycle,
\* when a run that is executed again counts as it first ended.
ImplementsLifecycle == Lifecycle!Spec

\* Every review and verification that is queued ends: the worker, the lock, or
\* the next start of the process ends it.  A review that does not end refuses
\* every later one of its doc, so RunNext ends it when execute could not; for a
\* verification whose start or end was not stored nothing does.
RunsEnd ==
    \A r \in Run : status[r] \in Active ~> status[r] \in Ended \/ r \in stranded
=============================================================================
