------------------------------- MODULE OwnerSeat -------------------------------
(***************************************************************************)
(* The seat of a local process at a state folder (cmd/speccy/seat.go,      *)
(* internal/owner/owner.go).  The process that takes the file lock is the  *)
(* owner: it opens the store, works on the queue and listens for the other *)
(* processes, and writes its address into the lock file.  The others send  *)
(* it their API calls, and one of them takes over when nobody answers at   *)
(* that address.  The operating system frees the lock of a process that    *)
(* ends, but the text in the file stays.                                   *)
(*                                                                         *)
(* Each process starts once, so a process stands for the address and the   *)
(* token of its listener.  A call is one that is not a GET, and its        *)
(* handler queues a job.  All processes are of one version.                *)
(***************************************************************************)
EXTENDS Integers, FiniteSets

CONSTANTS
    Process, Call,
    Nobody,
    Tries,          \* how often ServeHTTP looks for an owner
    MaxCuts,        \* kills, signals to a process that is closing, failed queries of its queue
    MaxTroubles     \* starts that fail

ASSUME NobodyAssumption == Nobody \notin Process \cup Call
ASSUME BoundsAssumption == Tries \in Nat \ {0} /\ MaxCuts \in Nat /\ MaxTroubles \in Nat

VARIABLES
    holder,     \* the operating system: who holds the lock
    file,       \* the text of the lock file: an address, or none yet
    process,    \* where each process is, and its seat
    call,       \* where each call is, and which process handles it
    ran,        \* how often the handler of a call ran
    job,        \* the store: the job that a call queued
    cuts, troubles,
    allowed     \* what the properties allow for

vars == <<holder, file, process, call, ran, job, cuts, troubles, allowed>>

\* opens: for which call the process settles, or Nobody at its start.  peer: the
\* owner it knows.  idle: what close read of the queue.
Seat == [step : {"new", "take", "read", "write", "open", "listen", "run", "idle", "calls",
                 "stop", "shutdown", "released", "gone"},
         opens : Call \cup {Nobody}, owner : BOOLEAN, peer : Process \cup {Nobody},
         closed : BOOLEAN, idle : BOOLEAN]

\* from: the process of the client.  at: the process that handles the call.
Request == [step : {"none", "serve", "dial", "takeover", "settle", "sent", "begun", "ran",
                    "answered", "refused", "failed"},
            from : Process \cup {Nobody}, at : Process \cup {Nobody}, tries : 0 .. Tries]

Init ==
    /\ holder = Nobody
    /\ file = Nobody
    /\ process = [p \in Process |-> [step |-> "new", opens |-> Nobody, owner |-> FALSE, peer |-> Nobody,
                                     closed |-> FALSE, idle |-> FALSE]]
    /\ call = [c \in Call |-> [step |-> "none", from |-> Nobody, at |-> Nobody, tries |-> 0]]
    /\ ran = [c \in Call |-> 0]
    /\ job = [c \in Call |-> "none"]
    /\ cuts = 0
    /\ troubles = 0
    /\ allowed = [late |-> {}, cut |-> {}, unread |-> {}, overtime |-> {}, stale |-> FALSE]

Step(p, step) == process' = [process EXCEPT ![p].step = step]
CallStep(c, step) == call' = [call EXCEPT ![c].step = step]

Gone == [step |-> "gone", opens |-> Nobody, owner |-> FALSE, peer |-> Nobody, closed |-> TRUE, idle |-> FALSE]
Over(r, step) == [r EXCEPT !.step = step, !.at = Nobody, !.tries = 0]
CallEnds(c, step) == call' = [call EXCEPT ![c] = Over(@, step)]

At(p) == process[p].step
Alive(p) == At(p) \notin {"new", "gone"}

\* The seat's mutex is held while it settles.
Unlocked(p) == Alive(p) /\ At(p) \notin {"take", "read", "write", "open", "listen"}

Working(p) == process[p].owner /\ At(p) \in {"run", "idle", "calls"}
Listening(p) == Working(p) \/ At(p) = "stop"

\* The store is open, and the lock not given back.
Owns(p) == Working(p) \/ At(p) \in {"listen", "stop", "shutdown"}

Queued == {c \in Call : job[c] = "queued"}

Handled(p) == {c \in Call : call[c].at = p /\ call[c].step \in {"begun", "ran"}}

\* The next turn of the loop in ServeHTTP.
NextTry(r) ==
    IF r.tries + 1 = Tries THEN Over(r, "refused")
    ELSE [r EXCEPT !.step = "serve", !.tries = @ + 1]

\* What settle leaves to the call that it was for: another try, or an error.
Settled(p, works) ==
    LET c == process[p].opens IN
    IF c = Nobody THEN UNCHANGED call
    ELSE call' = [call EXCEPT ![c] = IF works THEN NextTry(@) ELSE Over(@, "refused")]

\* An error of settle ends the process when it starts.
Unsettled(p) ==
    /\ process' = [process EXCEPT ![p] = IF @.opens = Nobody THEN Gone ELSE [@ EXCEPT !.step = "run", !.opens = Nobody]]
    /\ Settled(p, FALSE)
    /\ troubles < MaxTroubles
    /\ troubles' = troubles + 1

-----------------------------------------------------------------------------
(* settle and becomeOwner.                                                   *)

Start(p) ==
    /\ At(p) = "new"
    /\ Step(p, "take")
    /\ UNCHANGED <<holder, file, call, ran, job, cuts, troubles, allowed>>

\* owner.Take: the lock of the file, which is not written yet.
Take(p) ==
    /\ At(p) = "take"
    /\ IF holder = Nobody
         THEN holder' = p /\ Step(p, "write")
         ELSE UNCHANGED holder /\ Step(p, "read")
    /\ UNCHANGED <<file, call, ran, job, cuts, troubles, allowed>>

\* owner.Read: a client of the owner whose address is there, or another look.
Read(p) ==
    /\ At(p) = "read"
    /\ IF file \in Process
         THEN /\ process' = [process EXCEPT ![p].step = "run", ![p].opens = Nobody, ![p].peer = file]
              /\ Settled(p, TRUE)
              /\ allowed' = [allowed EXCEPT !.stale = @ \/ ~Listening(file)]
         ELSE Step(p, "take") /\ UNCHANGED <<call, allowed>>
    /\ UNCHANGED <<holder, file, ran, job, cuts, troubles>>

\* The deadline is over and the owner has not finished its start.
GiveUp(p) ==
    /\ At(p) = "read"
    /\ file \notin Process
    /\ Unsettled(p)
    /\ UNCHANGED <<holder, file, ran, job, cuts, allowed>>

\* The lock file names the process and no address.
WriteStarting(p) ==
    /\ At(p) = "write"
    /\ file' = Nobody
    /\ Step(p, "open")
    /\ UNCHANGED <<holder, call, ran, job, cuts, troubles, allowed>>

\* openApp: the store, and EndOrphans of what an earlier owner left in the queue.
OpenApp(p) ==
    /\ At(p) = "open"
    /\ job' = [c \in Call |-> IF job[c] = "queued" THEN "ended" ELSE job[c]]
    /\ Step(p, "listen")
    /\ UNCHANGED <<holder, file, call, ran, cuts, troubles, allowed>>

\* The store or the listener does not open: the lock is released.
OpenFails(p) ==
    /\ At(p) \in {"open", "listen"}
    /\ holder' = Nobody
    /\ file' = Nobody
    /\ Unsettled(p)
    /\ UNCHANGED <<ran, job, cuts, allowed>>

\* The listener, and its address in the lock file.
Listen(p) ==
    /\ At(p) = "listen"
    /\ file' = p
    /\ process' = [process EXCEPT ![p].step = "run", ![p].opens = Nobody,
                               ![p].owner = TRUE, ![p].peer = Nobody]
    /\ Settled(p, TRUE)
    /\ UNCHANGED <<holder, ran, job, cuts, troubles, allowed>>

-----------------------------------------------------------------------------
(* ServeHTTP, forward and takeOver.                                          *)

\* A person or an agent calls the API of a process.
Ask(c, p) ==
    /\ call[c].step = "none"
    /\ At(p) = "run"
    /\ ~process[p].closed
    /\ call' = [call EXCEPT ![c].step = "serve", ![c].from = p]
    /\ UNCHANGED <<holder, file, process, ran, job, cuts, troubles, allowed>>

\* In process when this one is the owner, else to the owner that it knows.
ServeHTTP(c) ==
    LET p == call[c].from IN
    /\ call[c].step = "serve"
    /\ Unlocked(p)
    /\ call' = [call EXCEPT ![c].step = IF process[p].owner THEN "begun" ELSE "dial",
                            ![c].at = IF process[p].owner THEN p ELSE process[p].peer]
    /\ allowed' = [allowed EXCEPT !.late = @ \cup {d \in {c} : process[p].owner /\ ~Working(p)}]
    /\ UNCHANGED <<holder, file, process, ran, job, cuts, troubles>>

\* The connection: nobody listens at the address of an owner that is gone.
Dial(c) ==
    /\ call[c].step = "dial"
    /\ CallStep(c, IF Listening(call[c].at) THEN "sent" ELSE "takeover")
    /\ UNCHANGED <<holder, file, process, ran, job, cuts, troubles, allowed>>

TakeOver(c) ==
    LET p == call[c].from IN
    /\ call[c].step = "takeover"
    /\ Unlocked(p)
    /\ \/ /\ process[p].closed
          /\ CallEnds(c, "refused")
          /\ UNCHANGED process
       \/ /\ ~process[p].closed
          /\ process[p].owner \/ process[p].peer # call[c].at
          /\ call' = [call EXCEPT ![c] = NextTry(@)]
          /\ UNCHANGED process
       \/ /\ ~process[p].closed
          /\ ~process[p].owner /\ process[p].peer = call[c].at
          /\ process' = [process EXCEPT ![p].step = "take", ![p].opens = c]
          /\ CallStep(c, "settle")
    /\ UNCHANGED <<holder, file, ran, job, cuts, troubles, allowed>>

\* The owner accepts the connection and counts the call.
Begin(c) ==
    /\ call[c].step = "sent"
    /\ Listening(call[c].at)
    /\ CallStep(c, "begun")
    /\ allowed' = [allowed EXCEPT !.late = @ \cup {d \in {c} : ~Working(call[c].at)}]
    /\ UNCHANGED <<holder, file, process, ran, job, cuts, troubles>>

\* The handler.  Its job is late when close has found the queue idle just before.
Handle(c) ==
    LET p == call[c].at IN
    /\ call[c].step = "begun"
    /\ Alive(p)
    /\ ran' = [ran EXCEPT ![c] = @ + 1]
    /\ job' = [job EXCEPT ![c] = "queued"]
    /\ CallStep(c, "ran")
    /\ allowed' = [allowed EXCEPT !.late = @ \cup {d \in {c} : At(p) = "calls" /\ process[p].idle}]
    /\ UNCHANGED <<holder, file, process, cuts, troubles>>

Answer(c) ==
    /\ call[c].step = "ran"
    /\ Alive(call[c].at)
    /\ CallEnds(c, "answered")
    /\ UNCHANGED <<holder, file, process, ran, job, cuts, troubles, allowed>>

Unanswered(c) ==
    \/ call[c].step \in {"sent", "begun", "ran"} /\ At(call[c].at) = "gone"
    \/ call[c].step = "sent" /\ ~Listening(call[c].at)

\* Mutant: any error of the connection counts as an owner that is gone.
BrokenTakesOver(c) ==
    /\ Unanswered(c)
    /\ CallStep(c, "takeover")
    /\ UNCHANGED <<holder, file, process, ran, job, cuts, troubles, allowed>>

\* The connection breaks after it was made: the call is not sent again.
Broken(c) ==
    /\ Unanswered(c)
    /\ CallEnds(c, "failed")
    /\ UNCHANGED <<holder, file, process, ran, job, cuts, troubles, allowed>>

\* The worker of the owner, until close stops it.
Work(p) ==
    /\ Working(p)
    /\ \E c \in Queued : job' = [job EXCEPT ![c] = "done"]
    /\ UNCHANGED <<holder, file, process, call, ran, cuts, troubles, allowed>>

-----------------------------------------------------------------------------
(* close, and the end of a process.                                          *)

InFlight == {c \in Call : call[c].step \notin {"none", "answered", "refused", "failed"}}

\* At the end of the command; calls of its own that did not end in time go on.  A
\* client has nothing to give up.
Close(p) ==
    /\ At(p) = "run"
    /\ process' = [process EXCEPT ![p] = IF @.owner THEN [@ EXCEPT !.closed = TRUE, !.step = "idle"] ELSE Gone]
    /\ allowed' = [allowed EXCEPT !.overtime = @ \cup {c \in InFlight : call[c].from = p}]
    /\ UNCHANGED <<holder, file, call, ran, job, cuts, troubles>>

\* App.Idle: a query of the queue.
ReadIdle(p) ==
    /\ At(p) = "idle"
    /\ process' = [process EXCEPT ![p].step = "calls", ![p].idle = Queued = {}]
    /\ allowed' = [allowed EXCEPT !.late = @ \ Queued, !.unread = @ \ Queued]
    /\ UNCHANGED <<holder, file, call, ran, job, cuts, troubles>>

\* The query fails.  close takes an error for an idle queue: what waits is unread.
ReadIdleFails(p) ==
    /\ At(p) = "idle"
    /\ cuts < MaxCuts
    /\ cuts' = cuts + 1
    /\ process' = [process EXCEPT ![p].step = "calls", ![p].idle = TRUE]
    /\ allowed' = [allowed EXCEPT !.unread = @ \cup Queued]
    /\ UNCHANGED <<holder, file, call, ran, job, troubles>>

\* Mutant: calls in flight are not waited for.
ReadCallsNot(p) ==
    /\ At(p) = "calls"
    /\ Step(p, IF process[p].idle THEN "stop" ELSE "idle")
    /\ UNCHANGED <<holder, file, call, ran, job, cuts, troubles, allowed>>

\* The calls in flight; then the wait is over.
ReadCalls(p) ==
    /\ At(p) = "calls"
    /\ Step(p, IF process[p].idle /\ Handled(p) = {} THEN "stop" ELSE "idle")
    /\ UNCHANGED <<holder, file, call, ran, job, cuts, troubles, allowed>>

\* A signal ends the wait.
Interrupt(p) ==
    /\ At(p) \in {"idle", "calls"}
    /\ cuts < MaxCuts
    /\ cuts' = cuts + 1
    /\ Step(p, "stop")
    /\ allowed' = [allowed EXCEPT !.cut = @ \cup Queued \cup Handled(p)]
    /\ UNCHANGED <<holder, file, call, ran, job, troubles>>

\* own.stop: the worker ends and the listener closes.
Stop(p) ==
    /\ At(p) = "stop"
    /\ Step(p, "shutdown")
    /\ UNCHANGED <<holder, file, call, ran, job, cuts, troubles, allowed>>

LetGo(p) ==
    /\ file' = Nobody
    /\ holder' = Nobody
    /\ Step(p, "released")

\* Mutant: the lock is given back without a wait for Serve.
ReleaseAtOnce(p) ==
    /\ At(p) = "shutdown"
    /\ LetGo(p)
    /\ UNCHANGED <<call, ran, job, cuts, troubles, allowed>>

\* Serve returns when no call of another process is in a handler, or after five
\* seconds.  Then the text of the file goes, and the lock.
Release(p) ==
    LET remote == {c \in Handled(p) : call[c].from # p} IN
    /\ At(p) = "shutdown"
    /\ \/ remote = {} /\ UNCHANGED <<cuts, allowed>>
       \/ /\ remote # {}
          /\ cuts < MaxCuts
          /\ cuts' = cuts + 1
          /\ allowed' = [allowed EXCEPT !.overtime = @ \cup remote]
    /\ LetGo(p)
    /\ UNCHANGED <<call, ran, job, troubles>>

Exit(p) ==
    /\ At(p) = "released"
    /\ process' = [process EXCEPT ![p] = Gone]
    /\ UNCHANGED <<holder, file, call, ran, job, cuts, troubles, allowed>>

\* The system frees the lock; the text of the file stays.
Kill(p) ==
    /\ Alive(p)
    /\ cuts < MaxCuts
    /\ cuts' = cuts + 1
    /\ holder' = IF holder = p THEN Nobody ELSE holder
    /\ process' = [process EXCEPT ![p] = Gone]
    /\ allowed' = [allowed EXCEPT !.cut = @ \cup {c \in Queued : holder = p}]
    /\ UNCHANGED <<file, call, ran, job, troubles>>

Next ==
    \/ \E p \in Process :
           \/ Start(p) \/ Take(p) \/ Read(p) \/ GiveUp(p) \/ WriteStarting(p) \/ OpenApp(p) \/ OpenFails(p)
           \/ Listen(p) \/ Work(p) \/ Close(p) \/ ReadIdle(p) \/ ReadIdleFails(p) \/ ReadCalls(p) \/ Interrupt(p)
           \/ Stop(p) \/ Release(p) \/ Exit(p) \/ Kill(p)
    \/ \E c \in Call :
           \/ \E p \in Process : Ask(c, p)
           \/ ServeHTTP(c) \/ Dial(c) \/ TakeOver(c) \/ Begin(c) \/ Handle(c) \/ Answer(c) \/ Broken(c)

Spec == Init /\ [][Next]_vars

-----------------------------------------------------------------------------
(* Properties.                                                               *)

TypeOK ==
    /\ holder \in Process \cup {Nobody}
    /\ file \in Process \cup {Nobody}
    /\ process \in [Process -> Seat]
    /\ call \in [Call -> Request]
    /\ ran \in [Call -> Nat]
    /\ job \in [Call -> {"none", "queued", "done", "ended"}]
    /\ cuts \in 0 .. MaxCuts
    /\ troubles \in 0 .. MaxTroubles
    /\ allowed \in [late : SUBSET Call, cut : SUBSET Call, unread : SUBSET Call,
                   overtime : SUBSET Call, stale : BOOLEAN]

\* One process at a time owns the store, from before it opens it until it gives
\* the lock back, and a handler runs in that process only, however owners start,
\* close, take over and die.  Not so for a call that outlived its command, or the
\* five seconds that a closing owner waits.
OneOwner ==
    /\ \A p \in Process : Owns(p) => holder = p
    /\ \A c \in Call \ allowed.overtime :
           call[c].step = "begun" /\ Alive(call[c].at) => Owns(call[c].at)

\* A call is handled once at most, however often its process looks for an owner,
\* and exactly once when it was answered.
CalledOnce ==
    \A c \in Call :
        /\ ran[c] <= 1
        /\ call[c].step = "answered" => ran[c] = 1
        /\ call[c].step = "refused" => ran[c] = 0

\* An owner that ends finishes each job of its queue first, also those of other
\* processes.  Not so for a job of an owner that was killed or told to stop, for
\* one that waited when the last query of the queue failed, and for a call that
\* ended after close had taken the queue for idle, or began after its wait.
FinishesItsQueue ==
    \A c \in Call : job[c] = "ended" => c \in allowed.cut \cup allowed.late \cup allowed.unread

\* close says that a review that the app queued must not fail because a command
\* ended.
NoJobFailsAtTheEnd == \A c \in Call : job[c] = "ended" => c \in allowed.cut

Refused(c) == call[c].step = "refused" /\ ~process[call[c].from].closed

\* A call is refused only when an owner could not start, or when the file gave the
\* address of a process that listens no more: the owner was killed, or is closing.
RefusedForCause == \A c \in Call : Refused(c) => troubles > 0 \/ allowed.stale

\* When the owner stops, a client takes its place on the next call.
TakenOver == \A c \in Call : Refused(c) => troubles > 0
==============================================================================
