------------------------------ MODULE ThreadAnswer ------------------------------
(***************************************************************************)
(* The AI answers in a thread (internal/features/review/answer.go, and the *)
(* posts of internal/features/thread).  PostMessage appends a question to  *)
(* the thread's stream and then queues an answer job (Ask); the worker of  *)
(* the process claims the jobs in turn, reads the thread, asks the model   *)
(* and appends what it says (PostAI).                                      *)
(*                                                                         *)
(* The append, the job and the flag that an answer is under way are three  *)
(* writes, and the process may stop between any two of them.  In local     *)
(* mode a process that starts ends the jobs it finds; in hosted mode a job *)
(* whose lock ran out is claimed again.                                    *)
(*                                                                         *)
(* One thread, addressed to the AI.  An append is one step, with es.Run's  *)
(* retries in it (EventStore).  A question is a message of a person; what  *)
(* is said, who says it, the anchor, the decision and the blocking mark    *)
(* decide nothing here.                                                    *)
(***************************************************************************)
EXTENDS Integers, Sequences, FiniteSets

CONSTANTS
    Client,         \* the requests that the process handles at one time
    Modes,          \* the modes of the process: whether it is hosted, or local
    MaxQuestions, MaxStatus, MaxStops, MaxErrors

ASSUME ModesAssumption == Modes \subseteq BOOLEAN
ASSUME BoundsAssumption == {MaxQuestions, MaxStatus, MaxStops, MaxErrors} \subseteq Nat

VARIABLES
    hosted,     \* the mode, which does not change
    open,       \* the thread is not resolved
    messages,   \* the messages; an answer keeps its job and how many messages it read
    job,        \* the status of each job
    about,      \* the question that queued each job
    locked,     \* the running jobs whose locked_until is not over
    answering,  \* the flag in the memory of the process
    client,     \* where each PostMessage is
    worker,     \* where the worker is, and what it read
    statuses, stops, errors,
    lost,       \* history: the questions that lost their answer
    again,      \* history: how often a job stayed running when its worker was gone
    early       \* history: the flag was set after its job was over

thread == <<open, messages>>
queue == <<job, about, locked>>
counters == <<statuses, stops, errors>>
history == <<lost, again, early>>
vars == <<hosted, thread, queue, answering, client, worker, counters, history>>

Job == 1 .. MaxQuestions
Active == {"queued", "running"}
NoWork == [step |-> "idle", job |-> 0, read |-> 0]

Questions == {n \in DOMAIN messages : messages[n].by = "person"}
Answers == {n \in DOMAIN messages : messages[n].by = "ai"}

TypeOK ==
    /\ hosted \in Modes
    /\ open \in BOOLEAN
    /\ messages \in Seq([by : {"person", "ai"}, job : 0 .. MaxQuestions, read : Nat])
    /\ job \in [Job -> {"none", "queued", "running", "done", "failed"}]
    /\ about \in [Job -> Nat]
    /\ locked \subseteq Job
    /\ answering \in BOOLEAN
    /\ client \in [Client -> [step : {"idle", "ask", "flag"}, question : Nat, job : 0 .. MaxQuestions]]
    /\ worker \in [step : {"idle", "read", "write", "clear", "finish"}, job : 0 .. MaxQuestions, read : Nat]
    /\ statuses \in 0 .. MaxStatus /\ stops \in 0 .. MaxStops /\ errors \in 0 .. MaxErrors
    /\ lost \subseteq 1 .. Len(messages)
    /\ again \in [Job -> 0 .. MaxStops + MaxErrors]
    /\ early \in BOOLEAN

Init ==
    /\ hosted \in Modes
    /\ open = TRUE
    /\ messages = <<>>
    /\ job = [j \in Job |-> "none"]
    /\ about = [j \in Job |-> 0]
    /\ locked = {}
    /\ answering = FALSE
    /\ client = [c \in Client |-> [step |-> "idle", question |-> 0, job |-> 0]]
    /\ worker = NoWork
    /\ statuses = 0 /\ stops = 0 /\ errors = 0
    /\ lost = {}
    /\ again = [j \in Job |-> 0]
    /\ early = FALSE

-----------------------------------------------------------------------------
(* The requests.                                                             *)

\* PostMessage, and open: DecidePost refuses a resolved thread.
PostMessage(c) ==
    /\ client[c].step = "idle"
    /\ open
    /\ Cardinality(Questions) < MaxQuestions
    /\ messages' = Append(messages, [by |-> "person", job |-> 0, read |-> 0])
    /\ client' = [client EXCEPT ![c] = [step |-> "ask", question |-> Len(messages) + 1, job |-> 0]]
    /\ UNCHANGED <<hosted, open, queue, answering, worker, counters, history>>

NewJob(j) == job[j] = "none" /\ \A i \in Job : i < j => job[i] # "none"

Answered(c) == client' = [client EXCEPT ![c] = [step |-> "idle", question |-> 0, job |-> 0]]

\* Mutant: no job while an answer is under way.
InsertJobOnce(c) ==
    /\ client[c].step = "ask"
    /\ IF answering
         THEN Answered(c) /\ UNCHANGED <<job, about>>
         ELSE \E j \in Job :
                /\ NewJob(j)
                /\ job' = [job EXCEPT ![j] = "queued"]
                /\ about' = [about EXCEPT ![j] = client[c].question]
                /\ client' = [client EXCEPT ![c].step = "flag", ![c].job = j]
    /\ UNCHANGED <<hosted, thread, locked, answering, worker, counters, history>>

\* Ask: the job.
InsertJob(c) ==
    /\ client[c].step = "ask"
    /\ \E j \in Job :
         /\ NewJob(j)
         /\ job' = [job EXCEPT ![j] = "queued"]
         /\ about' = [about EXCEPT ![j] = client[c].question]
         /\ client' = [client EXCEPT ![c].step = "flag", ![c].job = j]
    /\ UNCHANGED <<hosted, thread, locked, answering, worker, counters, history>>

\* Ask: no model has the role, or the job is not stored.  The question stands.
AskFails(c) ==
    /\ client[c].step = "ask"
    /\ errors < MaxErrors
    /\ errors' = errors + 1
    /\ lost' = lost \cup {client[c].question}
    /\ Answered(c)
    /\ UNCHANGED <<hosted, thread, queue, answering, worker, statuses, stops, again, early>>

\* The deferred delete of the flag is over for the job.
Cleared(j) == job[j] \notin Active \/ (worker.job = j /\ worker.step = "finish")

\* Ask: the flag, after the job, which the worker may have ended by now.
StoreFlag(c) ==
    /\ client[c].step = "flag"
    /\ answering' = TRUE
    /\ early' = (early \/ Cleared(client[c].job))
    /\ Answered(c)
    /\ UNCHANGED <<hosted, thread, queue, worker, counters, lost, again>>

\* SetThreadStatus: a member resolves the thread, or reopens it.
SetThreadStatus ==
    /\ statuses < MaxStatus
    /\ statuses' = statuses + 1
    /\ open' = ~open
    /\ UNCHANGED <<hosted, messages, queue, answering, client, worker, stops, errors, history>>

-----------------------------------------------------------------------------
(* The worker.                                                               *)

Claimable(j) == job[j] = "queued" \/ (job[j] = "running" /\ j \notin locked)

\* ClaimJob: the oldest job that is queued, or whose worker died.
ClaimJob(j) ==
    /\ worker.step = "idle"
    /\ Claimable(j)
    /\ \A i \in Job : i < j => ~Claimable(i)
    /\ job' = [job EXCEPT ![j] = "running"]
    /\ locked' = locked \cup {j}
    /\ worker' = [step |-> "read", job |-> j, read |-> 0]
    /\ UNCHANGED <<hosted, thread, about, answering, client, counters, history>>

\* answerThread: the thread and its messages are read, then the model is asked.
ReadThread ==
    /\ worker.step = "read"
    /\ worker' = [worker EXCEPT !.step = "write", !.read = Len(messages)]
    /\ UNCHANGED <<hosted, thread, queue, answering, client, counters, history>>

\* PostAI: the answer, or that there is none.  A thread that is resolved by now drops it.
PostAI ==
    /\ worker.step = "write"
    /\ messages' = IF open THEN Append(messages, [by |-> "ai", job |-> worker.job, read |-> worker.read])
                           ELSE messages
    /\ lost' = IF open THEN lost ELSE lost \cup {about[worker.job]}
    /\ worker' = [worker EXCEPT !.step = "clear"]
    /\ UNCHANGED <<hosted, open, queue, answering, client, counters, again, early>>

\* A read, the model's text or the append fails: the job fails and nothing is posted.
AnswerFails ==
    /\ worker.step \in {"read", "write"}
    /\ errors < MaxErrors
    /\ errors' = errors + 1
    /\ lost' = lost \cup {about[worker.job]}
    /\ worker' = [worker EXCEPT !.step = "clear", !.read = 0]
    /\ UNCHANGED <<hosted, thread, queue, answering, client, statuses, stops, again, early>>

\* Mutant: the flag is deleted when an answer was posted, not deferred.
ClearFlagAfterPost ==
    /\ worker.step = "clear"
    /\ answering' = (answering /\ worker.read = 0)
    /\ worker' = [worker EXCEPT !.step = "finish"]
    /\ UNCHANGED <<hosted, thread, queue, client, counters, history>>

\* The deferred delete of the flag.
ClearFlag ==
    /\ worker.step = "clear"
    /\ answering' = FALSE
    /\ worker' = [worker EXCEPT !.step = "finish"]
    /\ UNCHANGED <<hosted, thread, queue, client, counters, history>>

\* Mutant: the end of the job is not stored.
FinishJobLocked ==
    /\ worker.step = "finish"
    /\ worker' = NoWork
    /\ UNCHANGED <<hosted, thread, queue, answering, client, counters, history>>

FinishJob ==
    /\ worker.step = "finish"
    /\ \E status \in {"done", "failed"} :
         /\ status = "failed" <=> worker.read = 0
         /\ job' = [job EXCEPT ![worker.job] = status]
    /\ locked' = locked \ {worker.job}
    /\ worker' = NoWork
    /\ UNCHANGED <<hosted, thread, about, answering, client, counters, history>>

\* The end of the job is not stored: it stays running until its lock is over.
FinishFails ==
    /\ worker.step = "finish"
    /\ errors < MaxErrors
    /\ errors' = errors + 1
    /\ worker' = NoWork
    /\ again' = [again EXCEPT ![worker.job] = @ + 1]
    /\ UNCHANGED <<hosted, thread, queue, answering, client, statuses, stops, lost, early>>

-----------------------------------------------------------------------------
(* The process.                                                              *)

\* The process stops at any point, and the next one starts: a local one ends the jobs it finds.
Restart ==
    /\ stops < MaxStops
    /\ stops' = stops + 1
    /\ job' = IF hosted THEN job ELSE [j \in Job |-> IF job[j] \in Active THEN "failed" ELSE job[j]]
    /\ locked' = IF hosted THEN locked ELSE {}
    /\ answering' = FALSE
    /\ client' = [c \in Client |-> [step |-> "idle", question |-> 0, job |-> 0]]
    /\ worker' = NoWork
    /\ lost' = lost \cup {client[c].question : c \in {d \in Client : client[d].step = "ask"}}
                    \cup (IF hosted THEN {} ELSE {about[j] : j \in {i \in Job : job[i] \in Active}})
    /\ again' = IF worker.job # 0 THEN [again EXCEPT ![worker.job] = @ + 1] ELSE again
    /\ UNCHANGED <<hosted, thread, about, statuses, errors, early>>

\* jobLock is over for a running job.
LockRunsOut(j) ==
    /\ j \in locked
    /\ locked' = locked \ {j}
    /\ UNCHANGED <<hosted, thread, job, about, answering, client, worker, counters, history>>

-----------------------------------------------------------------------------

Request(c) == InsertJob(c) \/ StoreFlag(c)
Worker == (\E j \in Job : ClaimJob(j)) \/ ReadThread \/ PostAI \/ ClearFlag \/ FinishJob

Next ==
    \/ \E c \in Client : PostMessage(c) \/ Request(c) \/ AskFails(c)
    \/ SetThreadStatus
    \/ Worker \/ AnswerFails \/ FinishFails
    \/ Restart
    \/ \E j \in Job : LockRunsOut(j)

\* A request runs on, the worker takes the next job within two seconds of a wake that it
\* missed, and a lock runs out.
Fairness ==
    /\ \A c \in Client : WF_vars(Request(c))
    /\ WF_vars(Worker)
    /\ \A j \in Job : WF_vars(LockRunsOut(j))

Spec == Init /\ [][Next]_vars /\ Fairness

-----------------------------------------------------------------------------

AnsweredBy(n, m) == messages[m].by = "ai" /\ messages[m].read >= n

\* Every question in a thread for the AI gets an answer that has read it (REQ-088), also after
\* a stop, when another question is answered first, and when it is asked while an answer is
\* written.  A question loses its answer when Ask or the job fails, when a local process stops,
\* when any process stops before the job is stored, and when the thread is resolved meanwhile.
QuestionIsAnswered ==
    \A n \in 1 .. 2 * MaxQuestions :
        n \in Questions ~> (n \in lost \/ \E m \in DOMAIN messages : AnsweredBy(n, m))

\* A question is answered once: a job posts again only when the process stopped while it ran,
\* or its end was not stored.
OneAnswerOfAJob ==
    \A j \in Job : Cardinality({n \in Answers : messages[n].job = j}) <= 1 + again[j]

\* With no job active and no request under way, the thread does not show that an answer is
\* being written, unless the flag was set after the job was over.
FlagEnds ==
    \/ early
    \/ \E j \in Job : job[j] \in Active
    \/ \E c \in Client : client[c].step # "idle"
    \/ ~answering
=============================================================================
