-------------------------------- MODULE PrBatch --------------------------------
(***************************************************************************)
(* Batches of pull request reviews (internal/features/prreview/batch.go    *)
(* and marks.go, internal/action/pending.go).  CreatePrBatch plans a       *)
(* batch, it or StartPrBatch launches a run of it, CancelPrBatch ends it.  *)
(* The run reviews the waiting pull requests, each in a goroutine of its   *)
(* own, and posts the findings into the one pending review that the        *)
(* reviewer may have on a pull request.                                    *)
(*                                                                         *)
(* Nothing is locked between a read and what it decides: the status of a   *)
(* batch, its items and the pending review on GitHub are read in one step  *)
(* and used in a later one.  A comment says that it is Speccy's by a       *)
(* marker in its text or, in a review that names no tool (plain), by a     *)
(* mark in the local state that is written after the comment.              *)
(*                                                                         *)
(* A statement of the store may fail.  A handler then answers an error, a  *)
(* run ends where it is, and the update of an item is only logged.         *)
(*                                                                         *)
(* A batch may take every pull request, and which of them its plan skips   *)
(* is open: the recorded reviews and the spec docs on GitHub decide it.    *)
(* Nobody knows the id of a batch before CreatePrBatch answers, so it is   *)
(* one step, up to the statement that fails.  The plans, the results, the  *)
(* body of the review and the reviewer's questions decide nothing here.    *)
(***************************************************************************)
EXTENDS Integers, FiniteSets

CONSTANTS
    Batch, Pull, Finding,
    Findings,           \* those that a review of each pull request may have
    Planned,            \* the pull requests that the plan of a batch takes
    Position,           \* of each pull request in a batch
    Started,            \* the batches that CreatePrBatch launches; the others are planned only
    PlainBatch,         \* the batches whose reviews name no tool
    Starter, Canceller, \* the calls of StartPrBatch and of CancelPrBatch
    Parallel,           \* pull requests of a run at a time
    MaxRuns,
    MaxEvents           \* failed calls and statements, acts of the reviewer and restarts, together

ASSUME BatchAssumption == (PlainBatch \cup Started) \subseteq Batch /\ Planned \in [Batch -> SUBSET Pull]
ASSUME PositionAssumption == Position \in [Batch -> [Pull -> Nat]]
ASSUME FindingAssumption == IsFiniteSet(Finding) /\ Findings \in [Pull -> SUBSET Finding]
ASSUME ParallelAssumption == Parallel \in Nat \ {0}
ASSUME BatchBoundsAssumption == {MaxRuns, MaxEvents} \subseteq Nat

VARIABLES
    pending,    \* GitHub: the reviewer's pending review on a pull request; review = 0 for none
    ids,        \* GitHub: the last id on a pull request
    marks,      \* the local state: the marks of plain comments
    batch,      \* the status of each batch
    item,       \* the state of its pull requests
    live,       \* API.running: the run that CancelPrBatch reaches; 0 for none
    run,        \* the goroutines of launch
    worker,     \* the goroutines of reviewItem
    request,    \* what StartPrBatch and CancelPrBatch have read
    events,     \* how many of MaxEvents happened
    raced,      \* history: the races and stops that happened, and where
    unstored,   \* history: the batches with a statement that failed, until EndOrphans ends them
    cancelled,  \* history: the batches with an answered cancel
    late        \* history: those with a pull request that passed the check after it

github == <<pending, ids>>
rows == <<batch, item>>
history == <<raced, unstored, cancelled, late>>
batchVars == <<github, marks, rows, live, run, worker, request, events, history>>

Request == Starter \cup Canceller
Run == 1 .. MaxRuns
Unfinished == {"waiting", "reviewing"}
Final == {"posted", "left"}       \* left: skipped or failed, as its reason says
Ended == {"done", "cancelled", "stopped"}

NoReview == [review |-> 0, comments |-> {}]
NoRun == [step |-> "off", batch |-> "", todo |-> {}, at |-> "", cancelled |-> FALSE]
NoWork == [step |-> "off", found |-> {}, review |-> 0, stale |-> {}, add |-> {}, kept |-> {}]
Free == [step |-> "idle", batch |-> "", status |-> "none", run |-> 0]

Over(records, none) == IF records.step = "off" THEN none ELSE [none EXCEPT !.step = "over"]

BatchInit ==
    /\ pending = [p \in Pull |-> NoReview]
    /\ ids = [p \in Pull |-> 0]
    /\ marks = [p \in Pull |-> {}]
    /\ batch = [b \in Batch |-> "none"]
    /\ item = [b \in Batch |-> [p \in Pull |-> "none"]]
    /\ live = [b \in Batch |-> 0]
    /\ run = [r \in Run |-> NoRun]
    /\ worker = [r \in Run |-> [p \in Pull |-> NoWork]]
    /\ request = [h \in Request |-> Free]
    /\ events = 0
    /\ raced = {}
    /\ unstored = {}
    /\ cancelled = {}
    /\ late = {}

Event == events < MaxEvents /\ events' = events + 1

\* A statement about this batch fails, and nobody tries it again.
Unstored(b) == Event /\ unstored' = unstored \cup {b}

SetStatus(b, status) == batch' = [batch EXCEPT ![b] = status]

\* Mutant: only what waits is left.
StoppedWaiting(items) == [p \in Pull |-> IF items[p] = "waiting" THEN "left" ELSE items[p]]

\* StopPrBatchItems: what did not finish is left.
Stopped(items) == [p \in Pull |-> IF items[p] \in Unfinished THEN "left" ELSE items[p]]

\* launch: the run is the one that a cancel reaches from now on.
Launch(b) ==
    \E r \in Run :
        /\ run[r].step = "off"
        /\ \A q \in Run : q < r => run[q].step # "off"
        /\ live' = [live EXCEPT ![b] = r]
        /\ run' = [run EXCEPT ![r] = [NoRun EXCEPT !.step = "list", !.batch = b]]

-----------------------------------------------------------------------------
(* CreatePrBatch, StartPrBatch and CancelPrBatch.                            *)

\* A batch of the pull requests that the plan takes: launched, or planned for a later
\* start.  When an item is not inserted, what was inserted before stays.
Create(b) ==
    LET planned == [p \in Pull |-> IF p \in Planned[b] THEN "waiting" ELSE "left"] IN
    /\ batch[b] = "none"
    /\ SetStatus(b, IF b \in Started THEN "running" ELSE "planned")
    /\ \/ /\ item' = [item EXCEPT ![b] = planned]
          /\ IF b \in Started THEN Launch(b) ELSE UNCHANGED <<live, run>>
          /\ UNCHANGED <<events, unstored>>
       \/ /\ \E inserted \in SUBSET Pull \ {Pull} :
               item' = [item EXCEPT ![b] = [p \in Pull |-> IF p \in inserted THEN planned[p] ELSE "none"]]
          /\ Unstored(b)
          /\ UNCHANGED <<live, run>>
    /\ UNCHANGED <<github, marks, worker, request, raced, cancelled, late>>

\* CreatePrBatch answered with the id.
Known(b) == batch[b] # "none" /\ \A p \in Pull : item[b][p] # "none"

\* GetPrBatch, the first call of both handlers; a start of a batch that is not planned is refused.
Read(h, b, call) ==
    /\ request[h].step = "idle"
    /\ Known(b)
    /\ call = "start" => batch[b] = "planned"
    /\ request' = [request EXCEPT ![h] = [Free EXCEPT !.step = call, !.batch = b, !.status = batch[b]]]
    /\ UNCHANGED <<github, marks, rows, live, run, worker, events, history>>

StartRead(h, b) == Read(h, b, "start")
CancelRead(h, b) == Read(h, b, "cancel")

Answered(h) == request' = [request EXCEPT ![h] = Over(@, Free)]

\* The status that was read decides; the batch may have started or ended since.
StartSet(h) ==
    LET b == request[h].batch IN
    /\ request[h].step = "start"
    /\ SetStatus(b, "running")
    /\ raced' = IF batch[b] \in {"running", "done"} THEN raced \cup {<<"twice", b>>} ELSE raced
    /\ request' = [request EXCEPT ![h].step = "launch"]
    /\ UNCHANGED <<github, marks, item, live, run, worker, events, unstored, cancelled, late>>

StartLaunch(h) ==
    /\ request[h].step = "launch"
    /\ Launch(request[h].batch)
    /\ Answered(h)
    /\ UNCHANGED <<github, marks, rows, worker, events, history>>

\* A statement of the handler fails, and it answers the error.
RequestFails(h) ==
    /\ request[h].step \in {"start", "stop", "finish"}
    /\ Event
    /\ Answered(h)
    /\ UNCHANGED <<github, marks, rows, live, run, worker, history>>

\* The call ends, with the answer that the batch is cancelled.
Cancels(h) == Answered(h) /\ cancelled' = cancelled \cup {request[h].batch}

Launching(b) == \E h \in Request : request[h].step = "launch" /\ request[h].batch = b

\* The run of the batch, by its id.  With no run a batch that was planned ends here; any
\* other is over, or is not launched yet and goes on.
CancelLook(h) ==
    LET b == request[h].batch IN
    /\ request[h].step = "cancel"
    /\ \/ /\ live[b] # 0
          /\ request' = [request EXCEPT ![h].step = "reach", ![h].run = live[b]]
          /\ UNCHANGED <<raced, cancelled>>
       \/ /\ live[b] = 0 /\ request[h].status = "planned"
          /\ request' = [request EXCEPT ![h].step = "stop"]
          /\ UNCHANGED <<raced, cancelled>>
       \/ /\ live[b] = 0 /\ request[h].status # "planned"
          /\ raced' = IF Launching(b) THEN raced \cup {<<"launch", b>>} ELSE raced
          /\ Cancels(h)
    /\ UNCHANGED <<github, marks, rows, live, run, worker, events, unstored, late>>

\* The run may be over by now.
CancelReach(h) ==
    LET r == request[h].run IN
    /\ request[h].step = "reach"
    /\ run' = IF run[r].step = "over" THEN run ELSE [run EXCEPT ![r].cancelled = TRUE]
    /\ Cancels(h)
    /\ UNCHANGED <<github, marks, rows, live, worker, events, raced, unstored, late>>

\* finish, its first call.  A start that read the batch planned may have launched it since,
\* and its run may hold the items already.
CancelItems(h) ==
    LET b == request[h].batch
        listed == \E r \in Run : run[r].batch = b /\ run[r].step \in {"next", "start"}
    IN
    /\ request[h].step = "stop"
    /\ item' = [item EXCEPT ![b] = Stopped(@)]
    /\ raced' = IF listed THEN raced \cup {<<"start", b>>} ELSE raced
    /\ request' = [request EXCEPT ![h].step = "finish"]
    /\ UNCHANGED <<github, marks, batch, live, run, worker, events, unstored, cancelled, late>>

CancelFinish(h) ==
    /\ request[h].step = "finish"
    /\ SetStatus(request[h].batch, "cancelled")
    /\ Cancels(h)
    /\ UNCHANGED <<github, marks, item, live, run, worker, events, raced, unstored, late>>

-----------------------------------------------------------------------------
(* launch and execute.                                                       *)

GoRun(r, next) == run' = [run EXCEPT ![r] = next]

\* The deferred deletes of launch, by the id of the batch.
RunEnds(r) ==
    /\ live' = [live EXCEPT ![run[r].batch] = 0]
    /\ GoRun(r, Over(run[r], NoRun))

\* The items, read once.  A run that cannot read them ends here, and so do those below.
ExecuteList(r) ==
    /\ run[r].step = "list"
    /\ \/ /\ GoRun(r, [run[r] EXCEPT !.step = "next", !.todo = {p \in Pull : item[run[r].batch][p] = "waiting"}])
          /\ UNCHANGED <<live, events, unstored>>
       \/ RunEnds(r) /\ Unstored(run[r].batch)
    /\ UNCHANGED <<github, marks, rows, worker, request, raced, cancelled, late>>

\* The pull request of the run that comes next.
First(r) ==
    LET position == Position[run[r].batch]
    IN  {p \in run[r].todo : \A q \in run[r].todo : position[p] <= position[q]}

Working(r) == {p \in Pull : worker[r][p].step # "off"}

\* Mutant: a cancel is not looked for.
ExecuteCheckNot(r) ==
    /\ run[r].step = "next"
    /\ Cardinality(Working(r)) < Parallel
    /\ \E p \in First(r) : GoRun(r, [run[r] EXCEPT !.step = "start", !.at = p, !.todo = @ \ {p}])
    /\ late' = late \cup (cancelled \cap {run[r].batch})
    /\ UNCHANGED <<github, marks, rows, live, worker, request, events, raced, unstored, cancelled>>

\* A slot is free and the run is not cancelled: the next pull request passes the check.
ExecuteCheck(r) ==
    /\ run[r].step = "next"
    /\ Cardinality(Working(r)) < Parallel
    /\ ~run[r].cancelled
    /\ \E p \in First(r) : GoRun(r, [run[r] EXCEPT !.step = "start", !.at = p, !.todo = @ \ {p}])
    /\ late' = late \cup (cancelled \cap {run[r].batch})
    /\ UNCHANGED <<github, marks, rows, live, worker, request, events, raced, unstored, cancelled>>

\* The budget is not spent: the goroutine of the pull request starts, and goes on when the
\* update of its item fails.
ExecuteStart(r) ==
    LET b == run[r].batch  p == run[r].at IN
    /\ run[r].step = "start"
    /\ GoRun(r, [run[r] EXCEPT !.step = "next", !.at = ""])
    /\ worker' = [worker EXCEPT ![r][p] = [NoWork EXCEPT !.step = "review"]]
    /\ \/ item' = [item EXCEPT ![b][p] = "reviewing"] /\ UNCHANGED events
       \/ Event /\ UNCHANGED item
    /\ UNCHANGED <<github, marks, batch, live, request, history>>

\* skipRest: the budget is spent or does not read, and every item that is left is skipped,
\* but for those whose update fails.
ExecuteSpent(r) ==
    LET b == run[r].batch
        rest == run[r].todo \cup {run[r].at}
        Skip(some) == item' = [item EXCEPT ![b] = [p \in Pull |-> IF p \in some THEN "left" ELSE @[p]]]
    IN
    /\ run[r].step = "start"
    /\ GoRun(r, [run[r] EXCEPT !.step = "next", !.at = "", !.todo = {}])
    /\ \/ Skip(rest) /\ UNCHANGED <<events, unstored>>
       \/ (\E some \in SUBSET rest \ {rest} : Skip(some)) /\ Unstored(b)
    /\ UNCHANGED <<github, marks, batch, live, worker, request, raced, cancelled, late>>

\* Nothing is left, or the run is cancelled; its goroutines end, and a cancel counts until then.
\* finish, its first call: a cancelled run skips what did not start.
ExecuteStop(r) ==
    LET b == run[r].batch  cancel == run[r].cancelled IN
    /\ run[r].step = "next"
    /\ run[r].todo = {} \/ cancel
    /\ Working(r) = {}
    /\ \/ /\ item' = IF cancel THEN [item EXCEPT ![b] = Stopped(@)] ELSE item
          /\ GoRun(r, [NoRun EXCEPT !.step = IF cancel THEN "cancelled" ELSE "done", !.batch = b])
          /\ UNCHANGED <<live, events, unstored>>
       \/ cancel /\ RunEnds(r) /\ Unstored(b) /\ UNCHANGED item
    /\ UNCHANGED <<github, marks, batch, worker, request, raced, cancelled, late>>

\* The end status.
ExecuteFinish(r) ==
    /\ run[r].step \in {"cancelled", "done"}
    /\ RunEnds(r)
    /\ \/ SetStatus(run[r].batch, run[r].step) /\ UNCHANGED <<events, unstored>>
       \/ Unstored(run[r].batch) /\ UNCHANGED batch
    /\ UNCHANGED <<github, marks, item, worker, request, raced, cancelled, late>>

-----------------------------------------------------------------------------
(* reviewItem and post.                                                      *)

GoWork(r, p, next) == worker' = [worker EXCEPT ![r][p] = next]

\* What is left to do is the last update of the item.
EndWork(r, p, state) == GoWork(r, p, [NoWork EXCEPT !.step = state])

\* The last update of the item, which is only logged when it fails.
EndItem(r, p) ==
    LET b == run[r].batch IN
    /\ worker[r][p].step \in Final
    /\ GoWork(r, p, NoWork)
    /\ \/ item' = [item EXCEPT ![b][p] = worker[r][p].step] /\ UNCHANGED <<events, unstored>>
       \/ Unstored(b) /\ UNCHANGED item
    /\ UNCHANGED <<github, marks, batch, live, run, request, raced, cancelled, late>>

\* RecordPrReview fails after the post, so the item fails.
RecordFails(r, p) ==
    /\ worker[r][p].step = "posted"
    /\ Event
    /\ EndWork(r, p, "left")
    /\ UNCHANGED <<github, marks, rows, live, run, request, history>>

Plain(r) == run[r].batch \in PlainBatch

\* There is no spec doc any more, or a step of the review failed.
ReviewEnds(r, p) ==
    /\ worker[r][p].step = "review"
    /\ EndWork(r, p, "left")
    /\ UNCHANGED <<github, marks, rows, live, run, request, events, history>>

\* Mutant: the marks of plain comments do not count.
NamedByMarkers(p) == {c \in pending[p].comments : ~c.plain}

\* findingKey: the comments whose key a marker or a mark names.
Named(p) == {c \in pending[p].comments : ~c.plain \/ [id |-> c.id, key |-> c.key] \in marks[p]}

\* The goroutines that are between Pending and the end of their post.
Posting(p) == {q \in Run : worker[q][p].step \in {"create", "mark", "delete", "add", "keep"}}

\* The review found some findings, and may have found that the others are gone.  Pending, and
\* with no pending review forget; else marks and Merge: what to delete and what to add.
PostRead(r, p) ==
    /\ worker[r][p].step = "review"
    /\ \E found \in SUBSET Findings[p] : \E gone \in {{}, Findings[p] \ found} :
         LET stale == {c.id : c \in {n \in Named(p) : n.key \in gone}} IN
         IF pending[p].review = 0
           THEN /\ marks' = [marks EXCEPT ![p] = {}]
                /\ GoWork(r, p, [NoWork EXCEPT !.step = "create", !.found = found])
           ELSE /\ GoWork(r, p, [NoWork EXCEPT !.step = IF stale = {} THEN "add" ELSE "delete",
                                   !.review = pending[p].review, !.stale = stale,
                                   !.add = found \ {c.key : c \in Named(p)}])
                /\ UNCHANGED marks
    /\ raced' = IF Posting(p) # {} THEN raced \cup {<<"together", p>>} ELSE raced
    /\ UNCHANGED <<github, rows, live, run, request, events, unstored, cancelled, late>>

\* A new pending review on GitHub, with a comment for each finding.
NewReview(r, p) ==
    LET found == worker[r][p].found
        nth == CHOOSE f \in [found -> 1 .. Cardinality(found)] : \A j, k \in found : f[j] = f[k] => j = k
    IN
    /\ pending[p].review = 0
    /\ pending' = [pending EXCEPT ![p] = [review |-> ids[p] + 1, comments |->
                     {[id |-> ids[p] + 1 + nth[k], key |-> k, plain |-> Plain(r)] : k \in found}]]
    /\ ids' = [ids EXCEPT ![p] = @ + 1 + Cardinality(found)]

\* CreatePendingReview.  GitHub keeps one pending review of a person, so it may refuse.
PostCreate(r, p) ==
    LET w == worker[r][p] IN
    /\ w.step = "create"
    /\ \/ /\ NewReview(r, p)
          /\ IF Plain(r) THEN GoWork(r, p, [w EXCEPT !.step = "mark"]) ELSE EndWork(r, p, "posted")
       \/ /\ pending[p].review # 0
          /\ UNCHANGED github
          /\ EndWork(r, p, "left")
    /\ UNCHANGED <<marks, rows, live, run, request, events, history>>

MarksOf(comments) == {[id |-> c.id, key |-> c.key] : c \in comments}

\* keepNew: the comments of the new review are read back, and their marks kept.
New(r, p) == MarksOf({c \in pending[p].comments : c.plain /\ c.key \in worker[r][p].found})

PostMark(r, p) ==
    /\ worker[r][p].step = "mark"
    /\ marks' = [marks EXCEPT ![p] = @ \cup New(r, p)]
    /\ EndWork(r, p, "posted")
    /\ UNCHANGED <<github, rows, live, run, request, events, history>>

\* Each comment whose finding is gone, and its mark after it.  It fails when someone deleted
\* one before, or when a call or a statement fails; a mark may then outlive its comment.
PostDelete(r, p) ==
    LET w == worker[r][p]
        there == w.stale \cap {c.id : c \in pending[p].comments}
        Delete(gone, unmarked) ==
            /\ pending' = [pending EXCEPT ![p].comments = {c \in @ : c.id \notin gone}]
            /\ marks' = [marks EXCEPT ![p] = {m \in @ : m.id \notin unmarked}]
    IN
    /\ w.step = "delete"
    /\ \/ /\ there = w.stale
          /\ Delete(there, there)
          /\ GoWork(r, p, [w EXCEPT !.step = "add", !.stale = {}])
          /\ UNCHANGED events
       \/ /\ there # w.stale
          /\ \E gone \in SUBSET there : Delete(gone, gone)
          /\ EndWork(r, p, "left")
          /\ UNCHANGED events
       \/ /\ Event
          /\ \E gone \in SUBSET there : \E last \in SUBSET gone :
               Cardinality(last) <= 1 /\ Delete(gone, gone \ last)
          /\ EndWork(r, p, "left")
    /\ UNCHANGED <<ids, rows, live, run, request, history>>

\* AddPendingComment, to the review that was read.
AddComment(r, p, key) ==
    /\ pending[p].review = worker[r][p].review
    /\ pending' = [pending EXCEPT ![p].comments = @ \cup {[id |-> ids[p] + 1, key |-> key, plain |-> Plain(r)]}]
    /\ ids' = [ids EXCEPT ![p] = @ + 1]

\* A comment that is missing.
PostAdd(r, p) ==
    LET w == worker[r][p] IN
    /\ w.step = "add"
    /\ \E key \in w.add :
         /\ AddComment(r, p, key)
         /\ GoWork(r, p, [w EXCEPT !.add = @ \ {key}, !.kept =
                IF Plain(r) THEN @ \cup {[id |-> ids[p] + 1, key |-> key]} ELSE @])
    /\ UNCHANGED <<marks, rows, live, run, request, events, history>>

\* All is added; or the review that was read is submitted by now, and GitHub takes no more.
Keeps(r, p) ==
    LET w == worker[r][p] IN
    \/ w.step = "add" /\ (w.add = {} \/ pending[p].review # w.review)
    \/ w.step = "keep"

\* keep, deferred: the marks of what was added, after all of it.
PostKeep(r, p) ==
    LET w == worker[r][p] IN
    /\ Keeps(r, p)
    /\ marks' = [marks EXCEPT ![p] = @ \cup w.kept]
    /\ EndWork(r, p, IF w.step = "add" /\ w.add = {} THEN "posted" ELSE "left")
    /\ UNCHANGED <<github, rows, live, run, request, events, history>>

\* A mark is not stored: neither it nor those after it.
MarkFails(r, p) ==
    LET w == worker[r][p] IN
    /\ w.step = "mark" \/ Keeps(r, p)
    /\ Event
    /\ LET new == IF w.step = "mark" THEN New(r, p) ELSE w.kept
       IN  \E some \in SUBSET new \ {new} : marks' = [marks EXCEPT ![p] = @ \cup some]
    /\ raced' = raced \cup {<<"unmarked", p>>}
    /\ EndWork(r, p, "left")
    /\ UNCHANGED <<github, rows, live, run, request, unstored, cancelled, late>>

\* A call to GitHub fails.  It may have done its work, and then nobody learns the id.
PostTrouble(r, p) ==
    LET w == worker[r][p] IN
    /\ w.step \in {"create", "mark", "add"}
    /\ Event
    /\ IF w.step = "add" THEN GoWork(r, p, [w EXCEPT !.step = "keep"]) ELSE EndWork(r, p, "left")
    /\ \/ /\ UNCHANGED github
          /\ raced' = IF w.step = "mark" THEN raced \cup {<<"unmarked", p>>} ELSE raced
       \/ /\ \/ w.step = "create" /\ NewReview(r, p)
             \/ w.step = "add" /\ \E key \in w.add : AddComment(r, p, key)
          /\ raced' = IF Plain(r) THEN raced \cup {<<"unmarked", p>>} ELSE raced
    /\ UNCHANGED <<marks, rows, live, run, request, unstored, cancelled, late>>

-----------------------------------------------------------------------------
(* The reviewer and the process.                                             *)

\* The reviewer submits the pending review, or starts one on the GitHub page.
ReviewerActs(p) ==
    /\ Event
    /\ IF pending[p].review = 0
         THEN /\ pending' = [pending EXCEPT ![p].review = ids[p] + 1]
              /\ ids' = [ids EXCEPT ![p] = @ + 1]
         ELSE pending' = [pending EXCEPT ![p] = NoReview] /\ UNCHANGED ids
    /\ UNCHANGED <<marks, rows, live, run, worker, request, history>>

\* The pull requests with plain comments that have no mark yet.
Unmarked == {p \in Pull : \E r \in Run : worker[r][p].step = "mark" \/ worker[r][p].kept # {}}

\* The process stops at any point; the next one runs EndOrphans before it serves.
Restart ==
    LET orphan == {b \in Batch : batch[b] \in {"planned", "running"}}
        left == {b \in Batch \ orphan : \E r \in Run : run[r].batch = b}
    IN
    /\ Event
    /\ item' = [b \in Batch |-> IF b \in orphan THEN Stopped(item[b]) ELSE item[b]]
    /\ batch' = [b \in Batch |-> IF b \in orphan THEN "stopped" ELSE batch[b]]
    /\ live' = [b \in Batch |-> 0]
    /\ run' = [r \in Run |-> Over(run[r], NoRun)]
    /\ worker' = [r \in Run |-> [p \in Pull |-> NoWork]]
    /\ request' = [h \in Request |-> IF request[h].step = "idle" THEN Free ELSE Over(request[h], Free)]
    /\ raced' = raced \cup ({"unmarked"} \X Unmarked) \cup ({"stopped"} \X left)
    /\ unstored' = unstored \ orphan
    /\ UNCHANGED <<github, marks, cancelled, late>>

-----------------------------------------------------------------------------

Handlers ==
    \/ \E b \in Batch : Create(b)
    \/ \E b \in Batch : (\E h \in Starter : StartRead(h, b)) \/ (\E h \in Canceller : CancelRead(h, b))
    \/ \E h \in Request :
         \/ StartSet(h) \/ StartLaunch(h) \/ RequestFails(h)
         \/ CancelLook(h) \/ CancelReach(h) \/ CancelItems(h) \/ CancelFinish(h)

Runs ==
    \E r \in Run :
        \/ ExecuteList(r) \/ ExecuteCheck(r) \/ ExecuteStart(r)
        \/ ExecuteSpent(r) \/ ExecuteStop(r) \/ ExecuteFinish(r)

Reviews ==
    \E r \in Run, p \in Pull :
        \/ ReviewEnds(r, p)
        \/ PostRead(r, p) \/ PostCreate(r, p) \/ PostMark(r, p) \/ PostDelete(r, p)
        \/ PostAdd(r, p) \/ PostKeep(r, p) \/ MarkFails(r, p) \/ PostTrouble(r, p)
        \/ EndItem(r, p) \/ RecordFails(r, p)

BatchNext ==
    \/ Handlers \/ Runs \/ Reviews
    \/ \E p \in Pull : ReviewerActs(p)
    \/ Restart

BatchSpec == BatchInit /\ [][BatchNext]_batchVars

-----------------------------------------------------------------------------

\* The pending review of a pull request holds one comment of a finding, also when batches
\* merge into it one after another, after a failure and after a restart (Merge, keep).  Two
\* posts at once, and a plain comment whose mark was not written, may double it.
OneCommentOfAFinding ==
    \A p \in Pull :
        \/ {<<"together", p>>, <<"unmarked", p>>} \cap raced # {}
        \/ \A c, d \in pending[p].comments : c.key = d.key => c = d

\* After CancelPrBatch answered, no pull request of the batch passes the check of its run ("No
\* new pull request starts").  The exceptions: two starts that both read the batch planned,
\* where the cancel reaches one of the runs; a cancel before the launch; and a start that
\* launches, and lists what waits, between the look for a run and the stop of the items.
CancelIsFinal ==
    \A b \in late : {<<"twice", b>>, <<"launch", b>>, <<"start", b>>} \cap raced # {}

Underway(b) == Launching(b) \/ \E r \in Run : run[r].batch = b

\* A batch that nothing works on any more has an end status, and each of its pull requests a
\* final state (finish, EndOrphans); only a planned batch waits for its start.  A statement
\* that failed may leave it running, or a pull request unfinished, until EndOrphans.
EndsItsItems ==
    \A b \in Batch :
        \/ batch[b] \in {"none", "planned"} \/ Underway(b)
        \/ <<"stopped", b>> \in raced \/ b \in unstored
        \/ batch[b] \in Ended /\ \A p \in Pull : item[b][p] \notin Unfinished
=============================================================================
