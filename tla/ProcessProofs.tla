------------------------------- MODULE ProcessProofs -------------------------------
(***************************************************************************)
(* Proofs about the process: who has the store of a folder (OwnerSeat),    *)
(* and who hears of a run in it (ProgressBroker).  They share no variable. *)
(***************************************************************************)
EXTENDS OwnerSeat, ProgressBroker, SequenceTheorems, TLAPS

-----------------------------------------------------------------------------
(***************************************************************************)
(* Proofs about OwnerSeat for any processes, calls, tries, kills and       *)
(* troubles.                                                               *)
(*                                                                         *)
(* A process that has the store has the lock (Seats).  A call is handled   *)
(* where it was begun, so what a closing owner does not wait for is what   *)
(* the history names (Calls).  A call that is tried again was never begun  *)
(* (Counts).  And a job that waits has an owner that works on the queue    *)
(* and has not taken it for idle (Waits), until somebody ends that owner.  *)
(***************************************************************************)

Seats ==
    \A p \in Process :
        /\ At(p) \in {"new", "take", "read", "write", "open", "listen", "gone"} => ~process[p].owner
        /\ At(p) \in {"idle", "calls", "stop", "shutdown", "released"} =>
              process[p].owner /\ process[p].closed
        /\ \/ At(p) \in {"write", "open", "listen"}
           \/ process[p].owner /\ At(p) # "released"
           => holder = p

\* A process that settles for a call, and that call; a client knows an owner.
Settling ==
    /\ \A p \in Process : process[p].opens # Nobody =>
          /\ call[process[p].opens].step = "settle"
          /\ call[process[p].opens].from = p
    /\ \A p \in Process :
          \/ process[p].opens # Nobody
          \/ At(p) = "run" /\ ~process[p].owner
          => process[p].peer \in Process

\* Where a call is handled: by an owner that has its lock yet, unless the call
\* outlived a wait.
Calls ==
    \A c \in Call :
        /\ call[c].tries < Tries
        /\ call[c].step # "none" => call[c].from \in Process
        /\ call[c].step \in {"dial", "sent", "begun", "ran"} => call[c].at \in Process
        /\ c \in InFlight /\ At(call[c].from) # "gone" /\ process[call[c].from].closed => c \in allowed.overtime
        /\ call[c].step \in {"begun", "ran"} /\ At(call[c].at) # "gone" =>
              /\ process[call[c].at].owner
              /\ c \in allowed.overtime \/ At(call[c].at) # "released"

\* How often a handler ran, and whether it queued a job.
Counts ==
    \A c \in Call :
        /\ call[c].step \in {"none", "serve", "dial", "takeover", "settle", "sent", "begun", "refused"} => ran[c] = 0
        /\ call[c].step \in {"ran", "answered"} => ran[c] = 1
        /\ ran[c] \in {0, 1}
        /\ ran[c] = 0 => job[c] = "none"

Excused == allowed.cut \cup allowed.late \cup allowed.unread

\* The owner works on the queue, and has not taken it for idle before it stops.
KeepsWorking(p) == Working(p) /\ ~(At(p) = "calls" /\ process[p].idle)

Waits ==
    /\ \A c \in Queued \ Excused : holder \in Process /\ KeepsWorking(holder)
    /\ \A c \in Call \ Excused :
          call[c].step = "begun" /\ Alive(call[c].at) => Working(call[c].at)

IInv ==
    /\ TypeOK
    /\ Seats
    /\ Settling
    /\ Calls
    /\ Counts
    /\ Waits
    /\ FinishesItsQueue

-----------------------------------------------------------------------------
(* Types. *)

LEMMA NobodyIsNone == Nobody \notin Process /\ Nobody \notin Call
BY NobodyAssumption

\* The records of a call after a turn of ServeHTTP.
LEMMA RequestTypes ==
    ASSUME NEW r \in Request, r.tries < Tries
    PROVE  /\ \A s \in {"answered", "refused", "failed"} :
                 /\ Over(r, s) \in Request
                 /\ Over(r, s).tries < Tries
                 /\ Over(r, s).step = s
                 /\ Over(r, s).from = r.from
           /\ NextTry(r) \in Request
           /\ NextTry(r).tries < Tries
           /\ NextTry(r).from = r.from
           /\ NextTry(r).step \in {"serve", "refused"}
<1>1. ASSUME NEW s \in {"answered", "refused", "failed"}
      PROVE  /\ Over(r, s) \in Request
             /\ Over(r, s).tries < Tries
             /\ Over(r, s).step = s
             /\ Over(r, s).from = r.from
  <2>1. 0 \in 0 .. Tries /\ 0 < Tries
    BY BoundsAssumption
  <2>2. Over(r, s) \in Request
    BY <2>1 DEF Over, Request
  <2> QED
    BY <2>1, <2>2 DEF Over, Request
<1>2. CASE r.tries + 1 = Tries
  BY <1>1, <1>2 DEF NextTry
<1>3. CASE r.tries + 1 # Tries
  <2>1. r.tries + 1 \in 0 .. Tries /\ r.tries + 1 < Tries
    BY <1>3, BoundsAssumption DEF Request
  <2>2. NextTry(r) = [step |-> "serve", from |-> r.from, at |-> r.at, tries |-> r.tries + 1]
    BY <1>3 DEF NextTry, Request
  <2> QED
    BY <1>1, <2>1, <2>2 DEF Request
<1> QED
  BY <1>1, <1>2, <1>3

\* What settle leaves to the call that it was for.
LEMMA SettledCall ==
    ASSUME TypeOK, Settling, Calls, NEW p \in Process, NEW works \in BOOLEAN, Settled(p, works)
    PROVE  /\ call' \in [Call -> Request]
           /\ \A c \in Call : call'[c].tries < Tries /\ call'[c].from = call[c].from
           /\ \A c \in Call : c # process[p].opens => call'[c] = call[c]
           /\ process[p].opens # Nobody =>
                 /\ process[p].opens \in Call
                 /\ call'[process[p].opens].step \in {"serve", "refused"}
                 /\ call[process[p].opens].step = "settle"
                 /\ call[process[p].opens].from = p
<1> DEFINE c == process[p].opens
<1>1. CASE c = Nobody
  BY <1>1 DEF Settled, TypeOK, Calls
<1>2. CASE c # Nobody
  <2>1. c \in Call /\ call[c] \in Request /\ call[c].tries < Tries
    BY <1>2 DEF TypeOK, Seat, Calls
  <2>2. /\ call'[c] \in Request
        /\ call'[c].tries < Tries
        /\ call'[c].from = call[c].from
        /\ call'[c].step \in {"serve", "refused"}
    BY <1>2, <2>1, RequestTypes DEF Settled, TypeOK
  <2>3. call' = [call EXCEPT ![c] = call'[c]]
    BY <1>2, <2>1 DEF Settled, TypeOK
  <2> QED
    BY <1>2, <2>1, <2>2, <2>3 DEF TypeOK, Settling, Calls
<1> QED
  BY <1>1, <1>2

LEMMA Bounded ==
    ASSUME NEW m \in Nat, NEW n \in 0 .. m, n < m
    PROVE  n + 1 \in 0 .. m
OBVIOUS

LEMMA SeatTypes ==
    ASSUME NEW s \in Seat
    PROVE  /\ Gone \in Seat
           /\ [s EXCEPT !.step = "run", !.opens = Nobody] \in Seat
           /\ [s EXCEPT !.closed = TRUE, !.step = "idle"] \in Seat
           /\ [s EXCEPT !.step = "run", !.opens = Nobody, !.owner = TRUE, !.peer = Nobody] \in Seat
           /\ \A q \in Process : [s EXCEPT !.step = "run", !.opens = Nobody, !.peer = q] \in Seat
           /\ \A b \in BOOLEAN : [s EXCEPT !.step = "calls", !.idle = b] \in Seat
           /\ \A c \in Call : [s EXCEPT !.step = "take", !.opens = c] \in Seat
<1>1. Gone \in Seat
  BY DEF Gone, Seat
<1>2. /\ [s EXCEPT !.step = "run", !.opens = Nobody] \in Seat
      /\ [s EXCEPT !.closed = TRUE, !.step = "idle"] \in Seat
  BY DEF Seat
<1>3. [s EXCEPT !.step = "run", !.opens = Nobody, !.owner = TRUE, !.peer = Nobody] \in Seat
  BY DEF Seat
<1>4. \A q \in Process : [s EXCEPT !.step = "run", !.opens = Nobody, !.peer = q] \in Seat
  BY DEF Seat
<1>5. /\ \A b \in BOOLEAN : [s EXCEPT !.step = "calls", !.idle = b] \in Seat
      /\ \A c \in Call : [s EXCEPT !.step = "take", !.opens = c] \in Seat
  BY DEF Seat
<1> QED
  BY <1>1, <1>2, <1>3, <1>4, <1>5

LEMMA CallTypes ==
    ASSUME NEW r \in Request
    PROVE  /\ \A p \in Process : [r EXCEPT !.step = "serve", !.from = p] \in Request
           /\ \A at \in Process \cup {Nobody} :
                 /\ [r EXCEPT !.step = "begun", !.at = at] \in Request
                 /\ [r EXCEPT !.step = "dial", !.at = at] \in Request
BY DEF Request

LEMMA SeatTypeStep == IInv /\ [Next]_vars => process' \in [Process -> Seat]
<1> SUFFICES ASSUME IInv, [Next]_vars PROVE process' \in [Process -> Seat]
  OBVIOUS
<1>0. process \in [Process -> Seat]
  BY DEF IInv, TypeOK
<1>1. ASSUME NEW p \in Process,
             NEW step \in {"take", "write", "read", "open", "listen", "stop", "idle", "shutdown", "released"},
             Step(p, step)
      PROVE  process' \in [Process -> Seat]
  BY <1>0, <1>1 DEF Step, Seat
<1>2. ASSUME NEW p \in Process, NEW s \in Seat, process' = [process EXCEPT ![p] = s]
      PROVE  process' \in [Process -> Seat]
  BY <1>0, <1>2
<1>3. ASSUME NEW p \in Process, Read(p) PROVE process' \in [Process -> Seat]
  <2>1. CASE file \in Process
    <3>1. process' = [process EXCEPT ![p] = [process[p] EXCEPT !.step = "run", !.opens = Nobody, !.peer = file]]
      BY <1>0, <1>3, <2>1 DEF Read
    <3> QED
      BY <1>0, <1>2, <2>1, <3>1, SeatTypes
  <2>2. CASE file \notin Process
    BY <1>1, <1>3, <2>2 DEF Read
  <2> QED
    BY <2>1, <2>2
<1>4. ASSUME NEW p \in Process, GiveUp(p) \/ OpenFails(p) PROVE process' \in [Process -> Seat]
  <2>1. \/ process' = [process EXCEPT ![p] = Gone]
        \/ process' = [process EXCEPT ![p] = [process[p] EXCEPT !.step = "run", !.opens = Nobody]]
    BY <1>0, <1>4 DEF GiveUp, OpenFails, Unsettled
  <2> QED
    BY <1>0, <1>2, <2>1, SeatTypes
<1>5. ASSUME NEW p \in Process, Listen(p) PROVE process' \in [Process -> Seat]
  <2>1. process' = [process EXCEPT ![p] =
                       [process[p] EXCEPT !.step = "run", !.opens = Nobody, !.owner = TRUE, !.peer = Nobody]]
    BY <1>0, <1>5 DEF Listen
  <2> QED
    BY <1>0, <1>2, <2>1, SeatTypes
<1>6. ASSUME NEW p \in Process, Close(p) PROVE process' \in [Process -> Seat]
  <2>1. \/ process' = [process EXCEPT ![p] = Gone]
        \/ process' = [process EXCEPT ![p] = [process[p] EXCEPT !.closed = TRUE, !.step = "idle"]]
    BY <1>0, <1>6 DEF Close
  <2> QED
    BY <1>0, <1>2, <2>1, SeatTypes
<1>7. ASSUME NEW p \in Process, ReadIdle(p) \/ ReadIdleFails(p) PROVE process' \in [Process -> Seat]
  <2>1. \E b \in BOOLEAN : process' = [process EXCEPT ![p] = [process[p] EXCEPT !.step = "calls", !.idle = b]]
    BY <1>0, <1>7 DEF ReadIdle, ReadIdleFails
  <2> QED
    BY <1>0, <1>2, <2>1, SeatTypes
<1>8. ASSUME NEW p \in Process, Exit(p) \/ Kill(p) PROVE process' \in [Process -> Seat]
  BY <1>0, <1>2, <1>8, SeatTypes DEF Exit, Kill
<1>9. ASSUME NEW c \in Call, TakeOver(c) PROVE process' \in [Process -> Seat]
  <2> DEFINE p == call[c].from
  <2>1. p \in Process
    BY <1>9 DEF TakeOver, IInv, Calls
  <2>2. \/ process' = process
        \/ process' = [process EXCEPT ![p] = [process[p] EXCEPT !.step = "take", !.opens = c]]
    BY <1>0, <1>9, <2>1 DEF TakeOver
  <2> QED
    BY <1>0, <1>2, <2>1, <2>2, SeatTypes
<1>10. CASE UNCHANGED process
  BY <1>0, <1>10
<1> QED
  BY <1>1, <1>3, <1>4, <1>5, <1>6, <1>7, <1>8, <1>9, <1>10
  DEF Next, vars, Start, Take, WriteStarting, OpenApp, ReadCalls, Interrupt, Stop, Release, LetGo,
      Work, Ask, ServeHTTP, Dial, Begin, Handle, Answer, Broken

LEMMA CallTypeStep == IInv /\ [Next]_vars => call' \in [Call -> Request]
<1> SUFFICES ASSUME IInv, [Next]_vars PROVE call' \in [Call -> Request]
  OBVIOUS
<1>0. /\ call \in [Call -> Request]
      /\ TypeOK /\ Settling /\ Calls
      /\ \A c \in Call : call[c] \in Request /\ call[c].tries < Tries
      /\ \A c \in Call : call[c].step # "none" => call[c].from \in Process
  BY DEF IInv, TypeOK, Calls
<1>1. ASSUME NEW c \in Call, NEW step \in {"sent", "takeover", "settle", "begun", "ran"}, CallStep(c, step)
      PROVE  call' \in [Call -> Request]
  BY <1>0, <1>1 DEF CallStep, Request
<1>2. ASSUME NEW c \in Call, NEW r \in Request, call' = [call EXCEPT ![c] = r]
      PROVE  call' \in [Call -> Request]
  BY <1>0, <1>2
<1>3. ASSUME NEW p \in Process, Read(p) \/ GiveUp(p) \/ OpenFails(p) \/ Listen(p)
      PROVE  call' \in [Call -> Request]
  <2>1. UNCHANGED call \/ Settled(p, TRUE) \/ Settled(p, FALSE)
    BY <1>3 DEF Read, GiveUp, OpenFails, Listen, Unsettled
  <2> QED
    BY <1>0, <2>1, SettledCall
<1>4. ASSUME NEW c \in Call, NEW p \in Process, Ask(c, p) PROVE call' \in [Call -> Request]
  <2>1. call' = [call EXCEPT ![c] = [call[c] EXCEPT !.step = "serve", !.from = p]]
    BY <1>0, <1>4 DEF Ask
  <2> QED
    BY <1>0, <1>2, <2>1, CallTypes
<1>5. ASSUME NEW c \in Call, ServeHTTP(c) PROVE call' \in [Call -> Request]
  <2> DEFINE p == call[c].from
             at == IF process[p].owner THEN p ELSE process[p].peer
  <2>1. at \in Process \cup {Nobody}
    BY <1>0, <1>5 DEF ServeHTTP, TypeOK, Seat
  <2>2. \/ call' = [call EXCEPT ![c] = [call[c] EXCEPT !.step = "begun", !.at = at]]
        \/ call' = [call EXCEPT ![c] = [call[c] EXCEPT !.step = "dial", !.at = at]]
    BY <1>0, <1>5 DEF ServeHTTP
  <2> QED
    BY <1>0, <1>2, <2>1, <2>2, CallTypes
<1>6. ASSUME NEW c \in Call, TakeOver(c) \/ Answer(c) \/ Broken(c) PROVE call' \in [Call -> Request]
  <2>1. \/ CallStep(c, "settle")
        \/ call' = [call EXCEPT ![c] = NextTry(call[c])]
        \/ \E s \in {"refused", "answered", "failed"} : call' = [call EXCEPT ![c] = Over(call[c], s)]
    BY <1>0, <1>6 DEF TakeOver, Answer, Broken, CallEnds
  <2> QED
    BY <1>0, <1>1, <1>2, <2>1, RequestTypes
<1>7. CASE UNCHANGED call
  BY <1>0, <1>7
<1> QED
  BY <1>1, <1>3, <1>4, <1>5, <1>6, <1>7
  DEF Next, vars, Start, Take, WriteStarting, OpenApp, Work, Close, ReadIdle, ReadIdleFails, ReadCalls, Interrupt,
      Stop, Release, Exit, Kill, Dial, Begin, Handle

LEMMA TypeStep == IInv /\ [Next]_vars => TypeOK'
<1> SUFFICES ASSUME IInv, [Next]_vars PROVE TypeOK'
  OBVIOUS
<1>0. TypeOK /\ process' \in [Process -> Seat] /\ call' \in [Call -> Request]
  BY SeatTypeStep, CallTypeStep DEF IInv
<1>1. holder' \in Process \cup {Nobody}
  <2>1. \/ holder' = holder
        \/ holder' = Nobody
        \/ \E p \in Process : holder' = p
    BY DEF Next, vars, Start, Take, Read, GiveUp, WriteStarting, OpenApp, OpenFails, Listen,
      Work, Close, ReadIdle, ReadIdleFails, ReadCalls, Interrupt, Stop, Release, LetGo, Exit, Kill,
      Ask, ServeHTTP, Dial, TakeOver, Begin, Handle, Answer, Broken
  <2> QED
    BY <1>0, <2>1 DEF TypeOK
<1>2. file' \in Process \cup {Nobody}
  <2>1. \/ file' = file
        \/ file' = Nobody
        \/ \E p \in Process : file' = p
    BY DEF Next, vars, Start, Take, Read, GiveUp, WriteStarting, OpenApp, OpenFails, Listen,
      Work, Close, ReadIdle, ReadIdleFails, ReadCalls, Interrupt, Stop, Release, LetGo, Exit, Kill,
      Ask, ServeHTTP, Dial, TakeOver, Begin, Handle, Answer, Broken
  <2> QED
    BY <1>0, <2>1 DEF TypeOK
<1>3. ran' \in [Call -> Nat]
  <2>1. UNCHANGED ran \/ \E c \in Call : Handle(c)
    BY DEF Next, vars, Start, Take, Read, GiveUp, WriteStarting, OpenApp, OpenFails, Listen,
      Work, Close, ReadIdle, ReadIdleFails, ReadCalls, Interrupt, Stop, Release, Exit, Kill,
      Ask, ServeHTTP, Dial, TakeOver, Begin, Answer, Broken
  <2> QED
    BY <1>0, <2>1 DEF TypeOK, Handle
<1>4. job' \in [Call -> {"none", "queued", "done", "ended"}]
  <2>1. \/ UNCHANGED job
        \/ \E c \in Call : Handle(c)
        \/ \E p \in Process : Work(p) \/ OpenApp(p)
    BY DEF Next, vars, Start, Take, Read, GiveUp, WriteStarting, OpenFails, Listen,
      Close, ReadIdle, ReadIdleFails, ReadCalls, Interrupt, Stop, Release, Exit, Kill,
      Ask, ServeHTTP, Dial, TakeOver, Begin, Answer, Broken
  <2> QED
    BY <1>0, <2>1 DEF TypeOK, Handle, Work, OpenApp
<1>5. cuts' \in 0 .. MaxCuts /\ troubles' \in 0 .. MaxTroubles
  <2>1. /\ cuts' = cuts \/ (cuts < MaxCuts /\ cuts' = cuts + 1)
        /\ troubles' = troubles \/ (troubles < MaxTroubles /\ troubles' = troubles + 1)
    BY DEF Next, vars, Start, Take, Read, GiveUp, WriteStarting, OpenApp, OpenFails, Listen, Unsettled,
      Work, Close, ReadIdle, ReadIdleFails, ReadCalls, Interrupt, Stop, Release, Exit, Kill,
      Ask, ServeHTTP, Dial, TakeOver, Begin, Handle, Answer, Broken
  <2> QED
    BY <1>0, <2>1, Bounded, BoundsAssumption DEF TypeOK
<1>6. allowed' \in [late : SUBSET Call, cut : SUBSET Call, unread : SUBSET Call, overtime : SUBSET Call, stale : BOOLEAN]
  <2> DEFINE H == [late : SUBSET Call, cut : SUBSET Call, unread : SUBSET Call, overtime : SUBSET Call, stale : BOOLEAN]
  <2>0. allowed \in H
    BY <1>0 DEF TypeOK
  <2>1. ASSUME NEW p \in Process, Read(p) \/ Close(p) PROVE allowed' \in H
    BY <2>0, <2>1 DEF Read, Close, InFlight, Listening, Working
  <2>2. ASSUME NEW p \in Process, ReadIdle(p) \/ ReadIdleFails(p) \/ Interrupt(p) PROVE allowed' \in H
    BY <2>0, <2>2 DEF ReadIdle, ReadIdleFails, Interrupt, Queued, Handled
  <2>3. ASSUME NEW p \in Process, Release(p) \/ Kill(p) PROVE allowed' \in H
    BY <2>0, <2>3 DEF Release, Kill, Queued, Handled
  <2>4. ASSUME NEW c \in Call, ServeHTTP(c) \/ Begin(c) \/ Handle(c) PROVE allowed' \in H
    BY <2>0, <2>4 DEF ServeHTTP, Begin, Handle
  <2>5. CASE UNCHANGED allowed
    BY <2>0, <2>5
  <2> QED
    BY <2>1, <2>2, <2>3, <2>4, <2>5
    DEF Next, vars, Start, Take, GiveUp, WriteStarting, OpenApp, OpenFails, Listen, Work, ReadCalls, Stop, Exit,
      Ask, Dial, TakeOver, Answer, Broken
<1> QED
  BY <1>0, <1>1, <1>2, <1>3, <1>4, <1>5, <1>6 DEF TypeOK

-----------------------------------------------------------------------------
(* Processes, the lock, and the calls that they settle for. *)

LEMMA SeatsStep == IInv /\ [Next]_vars => Seats'
<1> SUFFICES ASSUME IInv, [Next]_vars PROVE Seats'
  OBVIOUS
<1> USE NobodyIsNone DEF IInv, TypeOK, Seats, At, Seat
<1>1. ASSUME NEW p \in Process, Start(p) PROVE Seats'
  BY <1>1 DEF Start, Step
<1>2. ASSUME NEW p \in Process, Take(p) PROVE Seats'
  BY <1>2 DEF Take, Step
<1>3. ASSUME NEW p \in Process, Read(p) PROVE Seats'
  <2>1. At(p) = "read" /\ ~process[p].owner
    BY <1>3 DEF Read
  <2>2. \/ process' = [process EXCEPT ![p].step = "run", ![p].opens = Nobody, ![p].peer = file]
        \/ process' = [process EXCEPT ![p].step = "take"]
    BY <1>3 DEF Read, Step
  <2>3. process'[p].step \in {"run", "take"} /\ ~process'[p].owner
    BY <2>1, <2>2
  <2>4. \A q \in Process \ {p} : process'[q] = process[q]
    BY <2>2
  <2> QED
    BY <1>3, <2>3, <2>4 DEF Read
<1>4. ASSUME NEW p \in Process, GiveUp(p) PROVE Seats'
  BY <1>4 DEF GiveUp, Unsettled, Gone
<1>5. ASSUME NEW p \in Process, WriteStarting(p) PROVE Seats'
  BY <1>5 DEF WriteStarting, Step
<1>6. ASSUME NEW p \in Process, OpenApp(p) PROVE Seats'
  BY <1>6 DEF OpenApp, Step
<1>7. ASSUME NEW p \in Process, OpenFails(p) PROVE Seats'
  BY <1>7 DEF OpenFails, Unsettled, Gone
<1>8. ASSUME NEW p \in Process, Listen(p) PROVE Seats'
  BY <1>8 DEF Listen
<1>9. ASSUME NEW p \in Process, Close(p) PROVE Seats'
  BY <1>9 DEF Close, Gone
<1>10. ASSUME NEW p \in Process, ReadIdle(p) \/ ReadIdleFails(p) PROVE Seats'
  BY <1>10 DEF ReadIdle, ReadIdleFails
<1>11. ASSUME NEW p \in Process, ReadCalls(p) \/ Interrupt(p) \/ Stop(p) PROVE Seats'
  BY <1>11 DEF ReadCalls, Interrupt, Stop, Step
<1>12. ASSUME NEW p \in Process, Release(p) PROVE Seats'
  BY <1>12 DEF Release, LetGo, Step
<1>13. ASSUME NEW p \in Process, Exit(p) PROVE Seats'
  BY <1>13 DEF Exit, Gone
<1>14. ASSUME NEW p \in Process, Kill(p) PROVE Seats'
  BY <1>14 DEF Kill, Gone, Alive
<1>15. ASSUME NEW c \in Call, TakeOver(c) PROVE Seats'
  BY <1>15 DEF TakeOver, Unlocked, Alive
<1>16. CASE UNCHANGED <<holder, process>>
  BY <1>16
<1> QED
  BY <1>1, <1>2, <1>3, <1>4, <1>5, <1>6, <1>7, <1>8, <1>9, <1>10, <1>11, <1>12, <1>13,
     <1>14, <1>15, <1>16
  DEF Next, vars, Work, Ask, ServeHTTP, Dial, Begin, Handle, Answer, Broken

\* What the actions that settle, close or end do to the seat of a process.
OthersStay(p) == \A q \in Process \ {p} : process'[q] = process[q]

LEMMA ReadMoves ==
    ASSUME TypeOK, NEW p \in Process, Read(p)
    PROVE  /\ OthersStay(p)
           /\ At(p) = "read" /\ UNCHANGED <<holder, job, ran>>
           /\ process'[p].owner = process[p].owner
           /\ process'[p].closed = process[p].closed
           /\ \/ /\ file \in Process /\ Settled(p, TRUE)
                 /\ process'[p].step = "run" /\ process'[p].opens = Nobody /\ process'[p].peer = file
              \/ /\ UNCHANGED call
                 /\ process'[p].step = "take" /\ process'[p].opens = process[p].opens
                 /\ process'[p].peer = process[p].peer
           /\ allowed'.overtime = allowed.overtime /\ allowed'.late = allowed.late /\ allowed'.cut = allowed.cut /\ allowed'.unread = allowed.unread
<1>0. process \in [Process -> Seat] /\ process[p] \in Seat
  BY DEF TypeOK
<1>1. /\ allowed'.overtime = allowed.overtime /\ allowed'.late = allowed.late /\ allowed'.cut = allowed.cut /\ allowed'.unread = allowed.unread
      /\ At(p) = "read" /\ UNCHANGED <<holder, job, ran>>
  BY DEF TypeOK, Read
<1>2. CASE file \in Process
  <2>1. /\ process' = [process EXCEPT ![p] = [process[p] EXCEPT !.step = "run", !.opens = Nobody, !.peer = file]]
        /\ Settled(p, TRUE)
    BY <1>0, <1>2 DEF Read
  <2> QED
    BY <1>0, <1>1, <1>2, <2>1 DEF Seat, OthersStay
<1>3. CASE file \notin Process
  <2>1. UNCHANGED call /\ process' = [process EXCEPT ![p] = [process[p] EXCEPT !.step = "take"]]
    BY <1>0, <1>3 DEF Read, Step
  <2> QED
    BY <1>0, <1>1, <2>1 DEF Seat, OthersStay
<1> QED
  BY <1>2, <1>3

LEMMA UnsettledMoves ==
    ASSUME TypeOK, NEW p \in Process, GiveUp(p) \/ OpenFails(p)
    PROVE  /\ OthersStay(p)
           /\ At(p) \in {"read", "open", "listen"} /\ UNCHANGED <<job, ran, allowed>>
           /\ Settled(p, FALSE)
           /\ process'[p].opens = Nobody
           /\ \/ process[p].opens = Nobody /\ process'[p].step = "gone" /\ ~process'[p].owner
              \/ /\ process[p].opens # Nobody
                 /\ process'[p].step = "run" /\ process'[p].peer = process[p].peer
                 /\ process'[p].owner = process[p].owner /\ process'[p].closed = process[p].closed
<1>0. process \in [Process -> Seat] /\ process[p] \in Seat
  BY DEF TypeOK
<1>1. Settled(p, FALSE) /\ At(p) \in {"read", "open", "listen"} /\ UNCHANGED <<job, ran, allowed>>
  BY DEF GiveUp, OpenFails, Unsettled
<1>2. CASE process[p].opens = Nobody
  <2>1. process' = [process EXCEPT ![p] = Gone]
    BY <1>0, <1>2 DEF GiveUp, OpenFails, Unsettled
  <2> QED
    BY <1>0, <1>1, <1>2, <2>1 DEF Gone, OthersStay
<1>3. CASE process[p].opens # Nobody
  <2>1. process' = [process EXCEPT ![p] = [process[p] EXCEPT !.step = "run", !.opens = Nobody]]
    BY <1>0, <1>3 DEF GiveUp, OpenFails, Unsettled
  <2> QED
    BY <1>0, <1>1, <1>3, <2>1 DEF Seat, OthersStay
<1> QED
  BY <1>2, <1>3

LEMMA ListenMoves ==
    ASSUME TypeOK, NEW p \in Process, Listen(p)
    PROVE  /\ OthersStay(p)
           /\ Settled(p, TRUE)
           /\ At(p) = "listen" /\ UNCHANGED <<holder, job, ran, allowed>>
           /\ process'[p].step = "run" /\ process'[p].opens = Nobody
           /\ process'[p].owner /\ process'[p].closed = process[p].closed
<1>0. process \in [Process -> Seat] /\ process[p] \in Seat
  BY DEF TypeOK
<1>1. process' = [process EXCEPT ![p] =
                     [process[p] EXCEPT !.step = "run", !.opens = Nobody, !.owner = TRUE, !.peer = Nobody]]
  BY <1>0 DEF Listen
<1>2. Settled(p, TRUE) /\ At(p) = "listen" /\ UNCHANGED <<holder, job, ran, allowed>>
  BY DEF Listen
<1> QED
  BY <1>0, <1>1, <1>2 DEF Seat, OthersStay

LEMMA CloseMoves ==
    ASSUME TypeOK, NEW p \in Process, Close(p)
    PROVE  /\ OthersStay(p)
           /\ At(p) = "run" /\ UNCHANGED <<holder, call, job, ran>>
           /\ \/ process'[p].step = "gone" /\ ~process[p].owner /\ process'[p].opens = Nobody
              \/ /\ process'[p].step = "idle" /\ process[p].owner /\ process'[p].owner
                 /\ process'[p].opens = process[p].opens /\ process'[p].peer = process[p].peer
           /\ allowed'.overtime = allowed.overtime \cup {c \in InFlight : call[c].from = p}
           /\ allowed'.late = allowed.late /\ allowed'.cut = allowed.cut /\ allowed'.unread = allowed.unread
<1>0. process \in [Process -> Seat] /\ process[p] \in Seat
  BY DEF TypeOK
<1>1. /\ allowed'.overtime = allowed.overtime \cup {c \in InFlight : call[c].from = p}
      /\ allowed'.late = allowed.late /\ allowed'.cut = allowed.cut /\ allowed'.unread = allowed.unread
      /\ At(p) = "run" /\ UNCHANGED <<holder, call, job, ran>>
  BY DEF TypeOK, Close
<1>2. CASE process[p].owner
  <2>1. process' = [process EXCEPT ![p] = [process[p] EXCEPT !.closed = TRUE, !.step = "idle"]]
    BY <1>0, <1>2 DEF Close
  <2> QED
    BY <1>0, <1>1, <1>2, <2>1 DEF Seat, OthersStay
<1>3. CASE ~process[p].owner
  <2>1. process' = [process EXCEPT ![p] = Gone]
    BY <1>0, <1>3 DEF Close
  <2> QED
    BY <1>0, <1>1, <1>3, <2>1 DEF Gone, OthersStay
<1> QED
  BY <1>2, <1>3

LEMMA ReadIdleMoves ==
    ASSUME TypeOK, NEW p \in Process, ReadIdle(p) \/ ReadIdleFails(p)
    PROVE  /\ OthersStay(p)
           /\ At(p) = "idle" /\ UNCHANGED <<holder, call, job, ran>>
           /\ process'[p].step = "calls" /\ (process'[p].idle => Queued \subseteq Excused')
           /\ process'[p].owner = process[p].owner /\ process'[p].closed = process[p].closed
           /\ process'[p].opens = process[p].opens /\ process'[p].peer = process[p].peer
           /\ Excused \ Queued \subseteq Excused' /\ allowed'.overtime = allowed.overtime
<1>0. process \in [Process -> Seat] /\ process[p] \in Seat
  BY DEF TypeOK
<1>1. At(p) = "idle" /\ UNCHANGED <<holder, call, job, ran>>
  BY DEF ReadIdle, ReadIdleFails
<1>2. CASE ReadIdle(p)
  <2>1. process' = [process EXCEPT ![p] = [process[p] EXCEPT !.step = "calls", !.idle = (Queued = {})]]
    BY <1>0, <1>2 DEF ReadIdle
  <2>2. process'[p].idle = (Queued = {})
    BY <1>0, <2>1 DEF Seat
  <2>3. Excused \ Queued \subseteq Excused' /\ allowed'.overtime = allowed.overtime
    BY <1>2 DEF TypeOK, ReadIdle, Excused
  <2> QED
    BY <1>0, <1>1, <2>1, <2>2, <2>3 DEF Seat, OthersStay
<1>3. CASE ReadIdleFails(p)
  <2>1. process' = [process EXCEPT ![p] = [process[p] EXCEPT !.step = "calls", !.idle = TRUE]]
    BY <1>0, <1>3 DEF ReadIdleFails
  <2>2. Queued \subseteq Excused' /\ Excused \subseteq Excused' /\ allowed'.overtime = allowed.overtime
    BY <1>3 DEF TypeOK, ReadIdleFails, Excused
  <2> QED
    BY <1>0, <1>1, <2>1, <2>2 DEF Seat, OthersStay
<1> QED
  BY <1>2, <1>3

LEMMA EndMoves ==
    ASSUME TypeOK, NEW p \in Process, Exit(p) \/ Kill(p)
    PROVE  /\ OthersStay(p)
           /\ UNCHANGED <<call, job, ran>>
           /\ process'[p].step = "gone" /\ process'[p].opens = Nobody
           /\ allowed'.overtime = allowed.overtime /\ allowed'.late = allowed.late /\ allowed'.unread = allowed.unread
<1>0. process \in [Process -> Seat] /\ process[p] \in Seat
  BY DEF TypeOK
<1>1. process' = [process EXCEPT ![p] = Gone]
  BY DEF Exit, Kill
<1>2. /\ UNCHANGED <<call, job, ran>>
      /\ allowed'.overtime = allowed.overtime /\ allowed'.late = allowed.late /\ allowed'.unread = allowed.unread
  BY DEF TypeOK, Exit, Kill
<1> QED
  BY <1>0, <1>1, <1>2 DEF Gone, OthersStay

\* The calls of a turn of settle: the process has no call to settle for any more,
\* and no other process settles for the call that it had.
LEMMA SettleEnds ==
    ASSUME TypeOK, Settling, Calls, NEW p \in Process, NEW works \in BOOLEAN, Settled(p, works),
           \A q \in Process \ {p} : process'[q] = process[q],
           process'[p].opens = Nobody,
           process'[p].step = "run" /\ ~process'[p].owner => process'[p].peer \in Process
    PROVE  Settling'
<1>1. ASSUME NEW q \in Process, process'[q].opens # Nobody
      PROVE  call'[process'[q].opens] = call[process[q].opens] /\ process'[q] = process[q]
  <2>1. q # p /\ process'[q] = process[q] /\ process[q].opens \in Call
    BY <1>1 DEF TypeOK, Seat
  <2>2. process[q].opens # process[p].opens
    BY <1>1, <2>1 DEF Settling
  <2> QED
    BY <2>1, <2>2, SettledCall
<1>2. ASSUME NEW q \in Process,
             \/ process'[q].opens # Nobody
             \/ process'[q].step = "run" /\ ~process'[q].owner
      PROVE  process'[q].peer \in Process
  BY <1>2 DEF Settling, At
<1> QED
  BY <1>1, <1>2 DEF Settling, At

LEMMA SettlingStep == IInv /\ [Next]_vars => Settling'
<1> SUFFICES ASSUME IInv, [Next]_vars PROVE Settling'
  OBVIOUS
<1>0. /\ TypeOK /\ Seats /\ Settling /\ Calls
      /\ process \in [Process -> Seat]
      /\ call \in [Call -> Request]
      /\ file \in Process \cup {Nobody}
      /\ \A p \in Process : process[p].opens \in Call \cup {Nobody} /\ process[p].owner \in BOOLEAN
  BY DEF IInv, TypeOK, Seat
<1>1. ASSUME NEW p \in Process, UNCHANGED call, \A q \in Process \ {p} : process'[q] = process[q],
             \/ process'[p].opens = process[p].opens /\ process'[p].peer = process[p].peer
             \/ process'[p].opens = Nobody,
             process'[p].step # "run"
      PROVE  Settling'
  BY <1>0, <1>1 DEF Settling, At
<1>2. ASSUME NEW p \in Process,
             \/ Start(p) \/ Take(p) \/ WriteStarting(p) \/ OpenApp(p) \/ ReadCalls(p) \/ Interrupt(p) \/ Stop(p)
             \/ Release(p)
      PROVE  Settling'
  <2>1. /\ UNCHANGED call
        /\ \E s \in {"take", "write", "read", "open", "listen", "stop", "idle", "shutdown", "released"} : Step(p, s)
    BY <1>2 DEF Start, Take, WriteStarting, OpenApp, ReadCalls, Interrupt, Stop, Release, LetGo
  <2> QED
    BY <1>0, <1>1, <2>1 DEF Step
<1>3. ASSUME NEW p \in Process, Close(p) \/ ReadIdle(p) \/ ReadIdleFails(p) \/ Exit(p) \/ Kill(p) PROVE Settling'
  BY <1>0, <1>1, <1>3, CloseMoves, ReadIdleMoves, EndMoves DEF OthersStay
<1>4. ASSUME NEW p \in Process, Read(p) PROVE Settling'
  <2>1. CASE Settled(p, TRUE) /\ process'[p].opens = Nobody /\ process'[p].peer \in Process
    BY <1>0, <1>4, <2>1, ReadMoves, SettleEnds DEF OthersStay
  <2>2. CASE UNCHANGED call /\ process'[p].step = "take"
    BY <1>0, <1>1, <1>4, <2>2, ReadMoves DEF OthersStay
  <2> QED
    BY <1>0, <1>4, <2>1, <2>2, ReadMoves
<1>5. ASSUME NEW p \in Process, GiveUp(p) \/ OpenFails(p) PROVE Settling'
  <2>1. Settled(p, FALSE) /\ OthersStay(p) /\ process'[p].opens = Nobody
    BY <1>0, <1>5, UnsettledMoves
  <2>2. process'[p].step = "run" => process'[p].peer \in Process
    BY <1>0, <1>5, UnsettledMoves DEF Settling
  <2> QED
    BY <1>0, <2>1, <2>2, SettleEnds DEF OthersStay
<1>6. ASSUME NEW p \in Process, Listen(p) PROVE Settling'
  <2>1. Settled(p, TRUE) /\ OthersStay(p) /\ process'[p].opens = Nobody /\ process'[p].owner
    BY <1>0, <1>6, ListenMoves
  <2> QED
    BY <1>0, <2>1, SettleEnds DEF OthersStay
<1>7. ASSUME NEW c \in Call, UNCHANGED process, call[c].step # "settle",
             \A d \in Call \ {c} : call'[d] = call[d]
      PROVE  Settling'
  BY <1>0, <1>7 DEF Settling, At
<1>8. ASSUME NEW c \in Call, NEW p \in Process, Ask(c, p) PROVE Settling'
  BY <1>0, <1>7, <1>8 DEF Ask
<1>9. ASSUME NEW c \in Call,
             ServeHTTP(c) \/ Dial(c) \/ Begin(c) \/ Handle(c) \/ Answer(c) \/ Broken(c)
      PROVE  Settling'
  BY <1>0, <1>7, <1>9 DEF ServeHTTP, Dial, Begin, Handle, Answer, Broken, Unanswered, CallStep, CallEnds
<1>10. ASSUME NEW c \in Call, TakeOver(c) PROVE Settling'
  <2> DEFINE p == call[c].from
  <2>1. p \in Process /\ call[c].step = "takeover"
    BY <1>0, <1>10 DEF TakeOver, Calls
  <2>2. CASE UNCHANGED process
    BY <1>0, <1>7, <1>10, <2>2 DEF TakeOver, CallStep, CallEnds
  <2>3. CASE /\ ~process[p].owner
             /\ process' = [process EXCEPT ![p].step = "take", ![p].opens = c]
             /\ CallStep(c, "settle")
    <3>1. At(p) = "run" /\ process[p].peer \in Process
      BY <1>0, <1>10, <2>1, <2>3 DEF TakeOver, Unlocked, Alive, Seats, Settling, At, TypeOK, Seat
    <3>2. call'[c].step = "settle" /\ call'[c].from = p
      BY <1>0, <2>3 DEF CallStep, Request
    <3>3. \A d \in Call \ {c} : call'[d] = call[d]
      BY <1>0, <2>3 DEF CallStep
    <3>4. process'[p].opens = c /\ process'[p].peer \in Process /\ process'[p].step = "take"
      BY <1>0, <2>1, <2>3, <3>1 DEF Seat
    <3>5. \A q \in Process \ {p} : process'[q] = process[q] /\ process[q].opens # c
      BY <1>0, <2>1, <2>3, NobodyIsNone DEF Settling
    <3> QED
      BY <1>0, <3>2, <3>3, <3>4, <3>5 DEF Settling, At
  <2> QED
    BY <1>10, <2>2, <2>3 DEF TakeOver
<1>11. CASE UNCHANGED <<process, call>>
  BY <1>0, <1>11 DEF Settling, At
<1> QED
  BY <1>2, <1>3, <1>4, <1>5, <1>6, <1>8, <1>9, <1>10, <1>11 DEF Next, vars, Work



-----------------------------------------------------------------------------
(* How often a call is handled. *)

LEMMA CountsStep == IInv /\ [Next]_vars => Counts'
<1> SUFFICES ASSUME IInv, [Next]_vars PROVE Counts'
  OBVIOUS
<1>0. /\ TypeOK /\ Settling /\ Calls /\ Counts
      /\ call \in [Call -> Request] /\ ran \in [Call -> Nat]
      /\ job \in [Call -> {"none", "queued", "done", "ended"}]
      /\ \A c \in Call : call[c] \in Request /\ call[c].tries < Tries
  BY DEF IInv, TypeOK, Calls
<1> DEFINE Before == {"none", "serve", "dial", "takeover", "settle", "sent", "begun", "refused"}
\* A call that goes on before its handler, or is answered after it.
<1>1. ASSUME UNCHANGED <<ran, job>>,
             \A c \in Call :
                \/ call'[c] = call[c]
                \/ call[c].step \in Before /\ call'[c].step \in Before \cup {"failed"}
                \/ call[c].step = "ran" /\ call'[c].step \in {"answered", "failed"}
      PROVE  Counts'
  BY <1>0, <1>1 DEF Counts
<1>2. ASSUME UNCHANGED call, UNCHANGED ran, \A c \in Call : job'[c] = job[c] \/ job[c] = "queued"
      PROVE  Counts'
  BY <1>0, <1>2 DEF Counts
<1>3. ASSUME NEW p \in Process, Read(p) \/ GiveUp(p) \/ OpenFails(p) \/ Listen(p) PROVE Counts'
  <2>1. UNCHANGED <<ran, job>> /\ (UNCHANGED call \/ Settled(p, TRUE) \/ Settled(p, FALSE))
    BY <1>3 DEF Read, GiveUp, OpenFails, Listen, Unsettled
  <2>2. \A c \in Call :
           \/ call'[c] = call[c]
           \/ call[c].step \in Before /\ call'[c].step \in Before \cup {"failed"}
    <3>1. CASE UNCHANGED call
      BY <3>1
    <3>2. ASSUME NEW works \in BOOLEAN, Settled(p, works)
          PROVE  \A c \in Call :
                    \/ call'[c] = call[c]
                    \/ call[c].step = "settle" /\ call'[c].step \in {"serve", "refused"}
      <4>1. \A c \in Call : c # process[p].opens => call'[c] = call[c]
        BY <1>0, <3>2, SettledCall
      <4>2. process[p].opens # Nobody =>
               /\ call[process[p].opens].step = "settle"
               /\ call'[process[p].opens].step \in {"serve", "refused"}
        BY <1>0, <3>2, SettledCall
      <4> QED
        BY <4>1, <4>2, NobodyIsNone
    <3> QED
      BY <2>1, <3>1, <3>2
  <2> QED
    BY <1>1, <2>1, <2>2
<1>4. ASSUME NEW p \in Process, Work(p) \/ OpenApp(p) PROVE Counts'
  BY <1>0, <1>2, <1>4 DEF Work, OpenApp, Queued
<1>5. ASSUME NEW c \in Call, NEW p \in Process, Ask(c, p) PROVE Counts'
  BY <1>0, <1>1, <1>5 DEF Ask
<1>6. ASSUME NEW c \in Call, ServeHTTP(c) \/ Dial(c) \/ Begin(c) PROVE Counts'
  <2>1. /\ \A d \in Call \ {c} : call'[d] = call[d]
        /\ call[c].step \in {"serve", "dial", "sent"} /\ call'[c].step \in {"begun", "dial", "sent", "takeover"}
        /\ UNCHANGED <<ran, job>>
    <3>1. CASE ServeHTTP(c)
      BY <1>0, <3>1 DEF ServeHTTP, Request
    <3>2. CASE Dial(c) \/ Begin(c)
      BY <1>0, <3>2 DEF Dial, Begin, CallStep, Request
    <3> QED
      BY <1>6, <3>1, <3>2
  <2> QED
    BY <1>1, <2>1
<1>7. ASSUME NEW c \in Call, TakeOver(c) \/ Answer(c) \/ Broken(c) PROVE Counts'
  <2>1. \/ call' = [call EXCEPT ![c] = Over(call[c], "refused")] /\ call[c].step = "takeover"
        \/ call' = [call EXCEPT ![c] = NextTry(call[c])] /\ call[c].step = "takeover"
        \/ call' = [call EXCEPT ![c].step = "settle"] /\ call[c].step = "takeover"
        \/ call' = [call EXCEPT ![c] = Over(call[c], "answered")] /\ call[c].step = "ran"
        \/ call' = [call EXCEPT ![c] = Over(call[c], "failed")] /\ call[c].step \in {"sent", "begun", "ran"}
    BY <1>0, <1>7 DEF TakeOver, Answer, Broken, Unanswered, CallEnds, CallStep
  <2>2. UNCHANGED <<ran, job>>
    BY <1>7 DEF TakeOver, Answer, Broken
  <2>3. /\ \A d \in Call \ {c} : call'[d] = call[d]
        /\ \/ call[c].step \in Before /\ call'[c].step \in Before \cup {"failed"}
           \/ call[c].step = "ran" /\ call'[c].step \in {"answered", "failed"}
    <3>1. /\ Over(call[c], "refused").step = "refused"
          /\ Over(call[c], "answered").step = "answered"
          /\ Over(call[c], "failed").step = "failed"
          /\ NextTry(call[c]).step \in {"serve", "refused"}
      BY <1>0, RequestTypes
    <3> QED
      <4>1. \A d \in Call \ {c} : call'[d] = call[d]
        BY <1>0, <2>1
      <4>2. CASE call[c].step = "takeover"
        BY <1>0, <2>1, <3>1, <4>2 DEF Request
      <4>3. CASE call[c].step # "takeover"
        BY <1>0, <2>1, <3>1, <4>3
      <4> QED
        BY <4>1, <4>2, <4>3
  <2> QED
    BY <1>1, <2>2, <2>3
<1>8. ASSUME NEW c \in Call, Handle(c) PROVE Counts'
  <2>1. call'[c].step = "ran" /\ ran'[c] = 1
    BY <1>0, <1>8 DEF Handle, CallStep, Counts
  <2>2. \A d \in Call \ {c} : call'[d] = call[d] /\ ran'[d] = ran[d] /\ job'[d] = job[d]
    BY <1>0, <1>8 DEF Handle, CallStep
  <2> QED
    BY <1>0, <2>1, <2>2 DEF Counts
<1>9. CASE UNCHANGED <<call, ran, job>>
  BY <1>0, <1>9 DEF Counts
<1> QED
  BY <1>3, <1>4, <1>5, <1>6, <1>7, <1>8, <1>9
  DEF Next, vars, Start, Take, WriteStarting, Close, ReadIdle, ReadIdleFails, ReadCalls, Interrupt, Stop, Release, LetGo, Exit, Kill

-----------------------------------------------------------------------------
(* Where a call is handled. *)

LEMMA CallsStep == IInv /\ [Next]_vars => Calls'
<1> SUFFICES ASSUME IInv, [Next]_vars PROVE Calls'
  OBVIOUS
<1>0. /\ TypeOK /\ Seats /\ Settling /\ Calls
      /\ process \in [Process -> Seat]
      /\ call \in [Call -> Request]
      /\ file \in Process \cup {Nobody}
      /\ allowed \in [late : SUBSET Call, cut : SUBSET Call, unread : SUBSET Call, overtime : SUBSET Call, stale : BOOLEAN]
      /\ \A p \in Process : process[p].owner \in BOOLEAN /\ process[p].closed \in BOOLEAN
      /\ \A c \in Call : call[c] \in Request /\ call[c].tries < Tries
  BY DEF IInv, TypeOK, Seat, Calls
\* A process that stays as closed as it was, and keeps the store until it releases it.
<1>1. ASSUME NEW p \in Process, UNCHANGED call, allowed.overtime \subseteq allowed'.overtime,
             \A q \in Process \ {p} : process'[q] = process[q],
             \/ process'[p].step = "gone"
             \/ /\ process'[p].closed = process[p].closed /\ At(p) # "gone"
                /\ process[p].owner => process'[p].owner /\ process'[p].step # "released"
      PROVE  Calls'
  <2>1. ASSUME NEW c \in Call, c \in InFlight', process'[call'[c].from].step # "gone", process'[call[c].from].closed
        PROVE  c \in allowed'.overtime
    BY <1>0, <1>1, <2>1 DEF Calls, InFlight, At
  <2>2. ASSUME NEW c \in Call, call[c].step \in {"begun", "ran"}, process'[call'[c].at].step # "gone"
        PROVE  /\ process'[call[c].at].owner
               /\ c \in allowed'.overtime \/ process'[call'[c].at].step # "released"
    BY <1>0, <1>1, <2>2 DEF Calls, At
  <2> QED
    BY <1>0, <1>1, <2>1, <2>2 DEF Calls, At
<1>2. ASSUME NEW p \in Process,
             \/ Start(p) \/ Take(p) \/ WriteStarting(p) \/ OpenApp(p) \/ ReadCalls(p) \/ Interrupt(p) \/ Stop(p)
      PROVE  Calls'
  <2>1. /\ UNCHANGED call
        /\ allowed'.overtime = allowed.overtime
        /\ At(p) # "gone"
        /\ \E s \in {"take", "write", "read", "open", "listen", "stop", "idle", "shutdown"} : Step(p, s)
    BY <1>0, <1>2 DEF Start, Take, WriteStarting, OpenApp, ReadCalls, Interrupt, Stop, LetGo
  <2> QED
    BY <1>0, <1>1, <2>1 DEF Step
<1>3. ASSUME NEW p \in Process, ReadIdle(p) \/ ReadIdleFails(p) \/ Exit(p) \/ Kill(p) PROVE Calls'
  <2>1. CASE ReadIdle(p) \/ ReadIdleFails(p)
    BY <1>0, <1>1, <2>1, ReadIdleMoves DEF OthersStay
  <2>2. CASE Exit(p) \/ Kill(p)
    BY <1>0, <1>1, <2>2, EndMoves DEF OthersStay
  <2> QED
    BY <1>3, <2>1, <2>2
<1>4. ASSUME NEW p \in Process, Close(p) PROVE Calls'
  <2>1. UNCHANGED call /\ \A q \in Process \ {p} : process'[q] = process[q]
    BY <1>0, <1>4, CloseMoves DEF OthersStay
  <2>2. process'[p].step = "gone" \/ (process'[p].owner /\ process'[p].step = "idle")
    BY <1>0, <1>4, CloseMoves
  <2>3. allowed'.overtime = allowed.overtime \cup {c \in InFlight : call[c].from = p}
    BY <1>0, <1>4, CloseMoves
  <2>4. ASSUME NEW c \in Call, c \in InFlight', process'[call'[c].from].step # "gone", process'[call[c].from].closed
        PROVE  c \in allowed'.overtime
    BY <1>0, <2>1, <2>3, <2>4 DEF Calls, InFlight, At
  <2>5. ASSUME NEW c \in Call, call[c].step \in {"begun", "ran"}, process'[call'[c].at].step # "gone"
        PROVE  /\ process'[call[c].at].owner
               /\ c \in allowed'.overtime \/ process'[call'[c].at].step # "released"
    BY <1>0, <2>1, <2>2, <2>3, <2>5 DEF Calls, At
  <2> QED
    BY <1>0, <2>1, <2>4, <2>5 DEF Calls, At
<1>5. ASSUME NEW p \in Process, Release(p) PROVE Calls'
  <2>1. /\ UNCHANGED call /\ \A q \in Process \ {p} : process'[q] = process[q]
        /\ process'[p].closed = process[p].closed
        /\ process'[p].owner = process[p].owner
        /\ At(p) = "shutdown" /\ process[p].closed /\ process[p].owner
    BY <1>0, <1>5 DEF Release, LetGo, Step, Seats
  <2>2. allowed'.overtime \in SUBSET Call /\ allowed.overtime \subseteq allowed'.overtime
    BY <1>0, <1>5 DEF Release, Handled
  <2>3. ASSUME NEW c \in Handled(p), call[c].from # p PROVE c \in allowed'.overtime
    BY <1>0, <1>5, <2>3 DEF Release
  <2>4. ASSUME NEW c \in Handled(p) PROVE c \in allowed'.overtime
    BY <1>0, <2>1, <2>2, <2>3, <2>4 DEF Calls, Handled, InFlight
  <2>5. ASSUME NEW c \in Call, c \in InFlight', process'[call'[c].from].step # "gone", process'[call[c].from].closed
        PROVE  c \in allowed'.overtime
    BY <1>0, <2>1, <2>2, <2>5 DEF Calls, InFlight, At
  <2>6. ASSUME NEW c \in Call, call[c].step \in {"begun", "ran"}, process'[call'[c].at].step # "gone"
        PROVE  /\ process'[call[c].at].owner
               /\ c \in allowed'.overtime \/ process'[call'[c].at].step # "released"
    BY <1>0, <2>1, <2>2, <2>4, <2>6 DEF Calls, At, Handled
  <2> QED
    BY <1>0, <2>1, <2>5, <2>6 DEF Calls, At
\* A process that settled, for itself or for a call.
<1>6. ASSUME NEW p \in Process, NEW works \in BOOLEAN, Settled(p, works), At(p) # "gone",
             allowed'.overtime = allowed.overtime,
             \A q \in Process \ {p} : process'[q] = process[q],
             \/ process'[p].step = "gone"
             \/ /\ process'[p].closed = process[p].closed
                /\ process[p].owner => process'[p].owner /\ process'[p].step # "released"
      PROVE  Calls'
  <2>0. /\ \A c \in Call : c # process[p].opens => call'[c] = call[c]
        /\ process[p].opens # Nobody =>
              /\ process[p].opens \in Call
              /\ call'[process[p].opens].step \in {"serve", "refused"}
              /\ call[process[p].opens].step = "settle"
    BY <1>0, <1>6, SettledCall
  <2>1. ASSUME NEW c \in Call, c \in InFlight' PROVE c \in InFlight
    BY <2>0, <2>1, NobodyIsNone DEF InFlight
  <2>2. ASSUME NEW c \in Call, call'[c].step # "none" PROVE call[c].step # "none" /\ call'[c].from = call[c].from
    <3>1. call'[c].from = call[c].from
      BY <1>0, <1>6, SettledCall
    <3> QED
      BY <2>0, <2>2, <3>1, NobodyIsNone
  <2>3. ASSUME NEW c \in Call, call'[c].step \in {"dial", "sent", "begun", "ran"} PROVE call'[c] = call[c]
    BY <2>0, <2>3, NobodyIsNone
  <2>4. \A c \in Call : call'[c].tries < Tries /\ call'[c].from = call[c].from
    BY <1>0, <1>6, SettledCall
  <2>5. ASSUME NEW c \in Call, c \in InFlight', process'[call'[c].from].step # "gone", process'[call'[c].from].closed
        PROVE  c \in allowed'.overtime
    <3>1. c \in InFlight /\ call'[c].from = call[c].from /\ call[c].from \in Process
      BY <1>0, <2>1, <2>4, <2>5 DEF Calls, InFlight
    <3>2. process[call[c].from].step # "gone" /\ process[call[c].from].closed
      BY <1>6, <2>5, <3>1 DEF At
    <3> QED
      BY <1>0, <1>6, <3>1, <3>2 DEF Calls, At
  <2>6. ASSUME NEW c \in Call, call'[c].step \in {"begun", "ran"}, process'[call'[c].at].step # "gone"
        PROVE  /\ process'[call'[c].at].owner
               /\ c \in allowed'.overtime \/ process'[call'[c].at].step # "released"
    BY <1>0, <1>6, <2>3, <2>6 DEF Calls, At
  <2> QED
    BY <1>0, <2>2, <2>3, <2>4, <2>5, <2>6 DEF Calls, At
<1>7. ASSUME NEW p \in Process, Read(p) PROVE Calls'
  <2>1. CASE Settled(p, TRUE) /\ process'[p].step = "run"
    BY <1>0, <1>6, <1>7, <2>1, ReadMoves DEF OthersStay
  <2>2. CASE UNCHANGED call /\ process'[p].step = "take"
    BY <1>0, <1>1, <1>7, <2>2, ReadMoves DEF OthersStay
  <2> QED
    BY <1>0, <1>7, <2>1, <2>2, ReadMoves
<1>8. ASSUME NEW p \in Process, GiveUp(p) \/ OpenFails(p) \/ Listen(p) PROVE Calls'
  <2>1. CASE GiveUp(p) \/ OpenFails(p)
    BY <1>0, <1>6, <2>1, UnsettledMoves DEF OthersStay
  <2>2. CASE Listen(p)
    BY <1>0, <1>6, <2>2, ListenMoves DEF OthersStay
  <2> QED
    BY <1>8, <2>1, <2>2
\* A call that goes on, and keeps its process.
<1>9. ASSUME NEW c \in Call, UNCHANGED process, allowed'.overtime = allowed.overtime,
             \A d \in Call \ {c} : call'[d] = call[d],
             call'[c].tries < Tries,
             c \in InFlight, call'[c].from = call[c].from,
             call'[c].step \in {"dial", "sent", "begun", "ran"} => call'[c].at \in Process,
             call'[c].step \in {"begun", "ran"} /\ At(call'[c].at) # "gone" =>
                /\ process[call'[c].at].owner
                /\ c \in allowed.overtime \/ At(call'[c].at) # "released"
      PROVE  Calls'
  <2>1. call[c].step # "none"
    BY <1>9 DEF InFlight
  <2>2. ASSUME NEW d \in Call, d \in InFlight', process'[call'[d].from].step # "gone", process'[call'[d].from].closed
        PROVE  d \in allowed'.overtime
    <3>1. d \in InFlight /\ call'[d].from = call[d].from
      BY <1>9, <2>2 DEF InFlight
    <3> QED
      BY <1>0, <1>9, <2>2, <3>1 DEF Calls, At
  <2>3. ASSUME NEW d \in Call, call'[d].step \in {"begun", "ran"}, process'[call'[d].at].step # "gone"
        PROVE  /\ process'[call'[d].at].owner
               /\ d \in allowed'.overtime \/ process'[call'[d].at].step # "released"
    <3>1. CASE d = c
      BY <1>9, <2>3, <3>1 DEF At
    <3>2. CASE d # c
      BY <1>0, <1>9, <2>3, <3>2 DEF Calls, At
    <3> QED
      BY <3>1, <3>2
  <2>4. ASSUME NEW d \in Call
        PROVE  /\ call'[d].tries < Tries
               /\ call'[d].step # "none" => call'[d].from \in Process
               /\ call'[d].step \in {"dial", "sent", "begun", "ran"} => call'[d].at \in Process
    <3>1. CASE d = c
      BY <1>0, <1>9, <2>1, <3>1 DEF Calls
    <3>2. CASE d # c
      BY <1>0, <1>9, <3>2 DEF Calls
    <3> QED
      BY <3>1, <3>2
  <2> QED
    BY <2>2, <2>3, <2>4 DEF Calls, At
<1>10. ASSUME NEW c \in Call, NEW p \in Process, Ask(c, p) PROVE Calls'
  <2>1. /\ call'[c].from = p /\ call'[c].step = "serve" /\ call'[c].tries < Tries
        /\ \A d \in Call \ {c} : call'[d] = call[d]
        /\ UNCHANGED <<process, allowed>> /\ ~process[p].closed
    BY <1>0, <1>10 DEF Ask
  <2> QED
    BY <1>0, <2>1 DEF Calls, InFlight, At
<1>11. ASSUME NEW c \in Call, ServeHTTP(c) PROVE Calls'
  <2> DEFINE p == call[c].from
  <2>1. p \in Process /\ c \in InFlight /\ Unlocked(p)
    BY <1>0, <1>11 DEF ServeHTTP, Calls, InFlight
  <2>2. /\ \A d \in Call \ {c} : call'[d] = call[d]
        /\ call'[c].from = p /\ call'[c].tries = call[c].tries
        /\ UNCHANGED process /\ allowed'.overtime = allowed.overtime
        /\ call'[c].step = IF process[p].owner THEN "begun" ELSE "dial"
        /\ call'[c].at = IF process[p].owner THEN p ELSE process[p].peer
    BY <1>0, <1>11 DEF ServeHTTP
  <2>3. ~process[p].owner => process[p].peer \in Process
    BY <1>0, <2>1 DEF Unlocked, Alive, Seats, Settling, At, Seat
  <2>4. At(p) = "released" => c \in allowed.overtime
    BY <1>0, <2>1 DEF Seats, Calls
  <2> QED
    BY <1>0, <1>9, <2>1, <2>2, <2>3, <2>4
<1>12. ASSUME NEW c \in Call, Begin(c) PROVE Calls'
  <2>1. call[c].at \in Process /\ c \in InFlight /\ Listening(call[c].at)
    BY <1>0, <1>12 DEF Begin, Calls, InFlight
  <2>2. process[call[c].at].owner /\ At(call[c].at) # "released"
    BY <1>0, <2>1 DEF Listening, Working, Seats
  <2>3. /\ \A d \in Call \ {c} : call'[d] = call[d]
        /\ call'[c].from = call[c].from /\ call'[c].tries = call[c].tries /\ call'[c].at = call[c].at
        /\ UNCHANGED process /\ allowed'.overtime = allowed.overtime
    BY <1>0, <1>12 DEF Begin, CallStep
  <2> QED
    BY <1>0, <1>9, <2>1, <2>2, <2>3
<1>13. ASSUME NEW c \in Call, Dial(c) \/ Handle(c) PROVE Calls'
  <2>1. call[c].at \in Process /\ c \in InFlight
    BY <1>0, <1>13 DEF Dial, Handle, Calls, InFlight
  <2>2. /\ \A d \in Call \ {c} : call'[d] = call[d]
        /\ call'[c].from = call[c].from /\ call'[c].tries = call[c].tries /\ call'[c].at = call[c].at
        /\ UNCHANGED process /\ allowed'.overtime = allowed.overtime
        /\ call'[c].step \in {"sent", "takeover"} \/ call[c].step = "begun"
    <3>1. CASE Dial(c)
      BY <1>0, <3>1 DEF Dial, CallStep, Request
    <3>2. CASE Handle(c)
      BY <1>0, <3>2 DEF Handle, CallStep, Request
    <3> QED
      BY <1>13, <3>1, <3>2
  <2> QED
    BY <1>0, <1>9, <2>1, <2>2 DEF Calls
<1>14. ASSUME NEW c \in Call, Answer(c) \/ Broken(c) PROVE Calls'
  <2>1. /\ UNCHANGED <<process, allowed>>
        /\ call' = [call EXCEPT ![c] = Over(call[c], "answered")] \/ call' = [call EXCEPT ![c] = Over(call[c], "failed")]
        /\ call[c].step \in {"sent", "begun", "ran"} /\ c \in InFlight
    BY <1>0, <1>14 DEF Answer, Broken, Unanswered, CallEnds, InFlight
  <2> QED
    BY <1>0, <1>9, <2>1, RequestTypes
<1>15. ASSUME NEW c \in Call, TakeOver(c) PROVE Calls'
  <2> DEFINE p == call[c].from
  <2>1. p \in Process /\ c \in InFlight /\ Unlocked(p) /\ call[c].step = "takeover" /\ UNCHANGED allowed
    BY <1>0, <1>15 DEF TakeOver, Calls, InFlight
  <2>2. CASE /\ call' = [call EXCEPT ![c] = Over(call[c], "refused")] \/ call' = [call EXCEPT ![c] = NextTry(call[c])]
             /\ UNCHANGED process
    <3>1. /\ \A d \in Call \ {c} : call'[d] = call[d]
          /\ call'[c].tries < Tries /\ call'[c].from = call[c].from
          /\ call'[c].step \in {"refused", "serve"}
      BY <1>0, <2>2, RequestTypes
    <3> QED
      BY <1>0, <1>9, <2>1, <2>2, <3>1
  <2>3. CASE /\ process' = [process EXCEPT ![p].step = "take", ![p].opens = c]
             /\ CallStep(c, "settle")
             /\ ~process[p].owner
    <3>1. /\ \A q \in Process \ {p} : process'[q] = process[q]
          /\ ~process'[p].owner /\ process'[p].closed = process[p].closed /\ At(p) # "gone"
      BY <1>0, <2>1, <2>3 DEF Unlocked, Alive
    <3>2. /\ \A d \in Call \ {c} : call'[d] = call[d]
          /\ call'[c].step = "settle" /\ call'[c].from = p /\ call'[c].tries = call[c].tries
      BY <1>0, <2>3 DEF CallStep
    <3>3. ASSUME NEW d \in Call, d \in InFlight', process'[call'[d].from].step # "gone", process'[call'[d].from].closed
          PROVE  d \in allowed'.overtime
      <4>1. d \in InFlight /\ call'[d].from = call[d].from
        BY <2>1, <3>2, <3>3 DEF InFlight
      <4>2. call[d].from \in Process
        BY <1>0, <4>1 DEF InFlight, Calls
      <4>3. At(call[d].from) # "gone" /\ process[call[d].from].closed
        BY <3>1, <3>3, <4>1, <4>2 DEF At
      <4> QED
        BY <1>0, <2>1, <4>1, <4>3 DEF Calls
    <3>4. ASSUME NEW d \in Call, call'[d].step \in {"begun", "ran"}, process'[call'[d].at].step # "gone"
          PROVE  /\ process'[call'[d].at].owner
                 /\ d \in allowed'.overtime \/ process'[call'[d].at].step # "released"
      <4>1. d # c /\ call'[d] = call[d] /\ call[d].at \in Process
        BY <1>0, <3>2, <3>4 DEF Calls
      <4>2. At(call[d].at) # "gone"
        BY <3>1, <3>4, <4>1 DEF At
      <4>3. process[call[d].at].owner /\ (d \in allowed.overtime \/ At(call[d].at) # "released")
        BY <1>0, <3>4, <4>1, <4>2 DEF Calls
      <4>4. call[d].at # p
        BY <2>3, <4>3
      <4> QED
        BY <2>1, <3>1, <4>1, <4>3, <4>4 DEF At
    <3>5. ASSUME NEW d \in Call
          PROVE  /\ call'[d].tries < Tries
                 /\ call'[d].step # "none" => call'[d].from \in Process
                 /\ call'[d].step \in {"dial", "sent", "begun", "ran"} => call'[d].at \in Process
      BY <1>0, <2>1, <3>2 DEF Calls
    <3> QED
      BY <3>3, <3>4, <3>5 DEF Calls, At
  <2> QED
    BY <1>15, <2>2, <2>3 DEF TakeOver, CallEnds
<1>16. CASE UNCHANGED <<process, call, allowed>>
  BY <1>0, <1>16 DEF Calls, InFlight, At
<1> QED
  BY <1>2, <1>3, <1>4, <1>5, <1>7, <1>8, <1>10, <1>11, <1>12, <1>13, <1>14, <1>15, <1>16
  DEF Next, vars, Work


-----------------------------------------------------------------------------
(* The queue. *)

LEMMA WaitsStep == IInv /\ [Next]_vars => Waits'
<1> SUFFICES ASSUME IInv, [Next]_vars PROVE Waits'
  OBVIOUS
<1>0. /\ TypeOK /\ Seats /\ Settling /\ Calls /\ Counts /\ Waits
      /\ process \in [Process -> Seat]
      /\ call \in [Call -> Request]
      /\ job \in [Call -> {"none", "queued", "done", "ended"}]
      /\ holder \in Process \cup {Nobody}
      /\ allowed \in [late : SUBSET Call, cut : SUBSET Call, unread : SUBSET Call, overtime : SUBSET Call, stale : BOOLEAN]
      /\ \A p \in Process : process[p].owner \in BOOLEAN /\ process[p].idle \in BOOLEAN
  BY DEF IInv, TypeOK, Seat
\* A process that did not work.
<1>1. ASSUME NEW p \in Process, UNCHANGED job, ~Working(p), At(p) # "gone", OthersStay(p),
             Excused \subseteq Excused',
             \/ holder' = holder
             \/ holder = Nobody
             \/ holder = p,
             \A c \in Call : call'[c] = call[c] \/ call'[c].step # "begun"
      PROVE  Waits'
  <2>1. ASSUME NEW c \in Queued' \ Excused' PROVE holder' \in Process /\ KeepsWorking(holder)'
    <3>1. c \in Queued \ Excused
      BY <1>1, <2>1 DEF Queued
    <3>2. holder \in Process /\ KeepsWorking(holder)
      BY <1>0, <3>1 DEF Waits
    <3>3. holder # p /\ holder' = holder
      BY <1>1, <3>2, NobodyIsNone DEF KeepsWorking
    <3>4. process'[holder'] = process[holder]
      BY <1>1, <3>2, <3>3 DEF OthersStay
    <3> QED
      BY <3>2, <3>3, <3>4 DEF KeepsWorking, Working, At
  <2>2. ASSUME NEW c \in Call \ Excused', call'[c].step = "begun", Alive(call[c].at)' PROVE Working(call[c].at)'
    <3>1. call'[c] = call[c] /\ c \notin Excused /\ call[c].at \in Process
      BY <1>0, <1>1, <2>2 DEF Calls
    <3>2. CASE call[c].at = p
      <4>1. process[p].owner
        BY <1>0, <1>1, <2>2, <3>1, <3>2 DEF Calls
      <4>2. Alive(p)
        BY <1>0, <1>1, <4>1 DEF Seats, Alive
      <4> QED
        BY <1>0, <1>1, <2>2, <3>1, <3>2, <4>2 DEF Waits
    <3>3. CASE call[c].at # p
      <4>1. process'[call'[c].at] = process[call[c].at]
        BY <1>1, <3>1, <3>3 DEF OthersStay
      <4>2. Working(call[c].at)
        BY <1>0, <2>2, <3>1, <4>1 DEF Waits, Alive, At
      <4> QED
        BY <4>1, <4>2 DEF Working, At
    <3> QED
      BY <3>2, <3>3
  <2> QED
    BY <2>1, <2>2 DEF Waits
<1>2. ASSUME NEW p \in Process,
             Start(p) \/ Take(p) \/ WriteStarting(p) \/ Stop(p) \/ Release(p)
      PROVE  Waits'
  <2>1. /\ OthersStay(p) /\ UNCHANGED <<job, call>> /\ At(p) # "gone" /\ ~Working(p)
        /\ allowed'.late = allowed.late /\ allowed'.cut = allowed.cut /\ allowed'.unread = allowed.unread
    BY <1>0, <1>2 DEF Start, Take, WriteStarting, Stop, Release, LetGo, Step, OthersStay, Working
  <2>2. holder' = holder \/ holder = Nobody \/ holder = p
    BY <1>0, <1>2 DEF Start, Take, WriteStarting, Stop, Release, Seats
  <2> QED
    BY <1>1, <2>1, <2>2 DEF Excused
<1>3. ASSUME NEW p \in Process, NEW works \in BOOLEAN, Settled(p, works)
      PROVE  \A c \in Call : call'[c] = call[c] \/ call'[c].step # "begun"
  <2>1. /\ \A c \in Call : c # process[p].opens => call'[c] = call[c]
        /\ process[p].opens # Nobody => call'[process[p].opens].step \in {"serve", "refused"}
    BY <1>0, <1>3, SettledCall
  <2> QED
    BY <2>1, NobodyIsNone
<1>4. ASSUME NEW p \in Process, Read(p) PROVE Waits'
  <2>1. /\ OthersStay(p) /\ UNCHANGED <<holder, job>> /\ At(p) = "read"
        /\ allowed'.late = allowed.late /\ allowed'.cut = allowed.cut /\ allowed'.unread = allowed.unread
        /\ UNCHANGED call \/ Settled(p, TRUE)
    BY <1>0, <1>4, ReadMoves
  <2>2. \A c \in Call : call'[c] = call[c] \/ call'[c].step # "begun"
    BY <1>3, <2>1
  <2> QED
    BY <1>1, <2>1, <2>2 DEF Excused, Working
<1>5. ASSUME NEW p \in Process, GiveUp(p) \/ OpenFails(p) PROVE Waits'
  <2>1. /\ OthersStay(p) /\ UNCHANGED <<job, allowed>> /\ At(p) \in {"read", "open", "listen"}
        /\ Settled(p, FALSE)
    BY <1>0, <1>5, UnsettledMoves
  <2>2. \A c \in Call : call'[c] = call[c] \/ call'[c].step # "begun"
    BY <1>3, <2>1
  <2>3. holder' = holder \/ holder = p
    BY <1>0, <1>5 DEF GiveUp, OpenFails, Seats
  <2> QED
    BY <1>1, <2>1, <2>2, <2>3 DEF Excused, Working
<1>6. ASSUME NEW p \in Process, Listen(p) PROVE Waits'
  <2>1. OthersStay(p) /\ UNCHANGED <<holder, job, allowed>> /\ At(p) = "listen" /\ Settled(p, TRUE)
    BY <1>0, <1>6, ListenMoves
  <2>2. \A c \in Call : call'[c] = call[c] \/ call'[c].step # "begun"
    BY <1>3, <2>1
  <2> QED
    BY <1>1, <2>1, <2>2 DEF Excused, Working
<1>7. ASSUME NEW p \in Process, OpenApp(p) PROVE Waits'
  <2>1. /\ OthersStay(p) /\ UNCHANGED <<holder, call, allowed>> /\ At(p) = "open"
        /\ process'[p].step = "listen"
    BY <1>0, <1>7 DEF OpenApp, Step, OthersStay
  <2>2. Queued' = {}
    BY <1>0, <1>7 DEF OpenApp, Queued
  <2>3. ASSUME NEW c \in Call \ Excused', call'[c].step = "begun", Alive(call[c].at)' PROVE Working(call[c].at)'
    <3>1. call'[c] = call[c] /\ c \notin Excused /\ call[c].at \in Process
      BY <1>0, <2>1, <2>3 DEF Calls, Excused
    <3>2. call[c].at # p
      BY <1>0, <2>1, <2>3, <3>1 DEF Waits, Alive, Working, At
    <3>3. process'[call'[c].at] = process[call[c].at]
      BY <2>1, <3>1, <3>2 DEF OthersStay
    <3>4. Working(call[c].at)
      BY <1>0, <2>3, <3>1, <3>3 DEF Waits, Alive, At
    <3> QED
      BY <3>3, <3>4 DEF Working, At
  <2> QED
    BY <2>2, <2>3 DEF Waits
\* A process that worked: it keeps working, or what waits for it is excused.
<1>8. ASSUME NEW p \in Process, UNCHANGED <<job, call>>, OthersStay(p), Working(p),
             holder' = holder \/ holder = p,
             \A c \in Queued \ Excused' : c \notin Excused,
             \A c \in Call \ Excused' : call[c].step = "begun" => c \notin Excused,
             \A c \in Queued \ Excused' : KeepsWorking(p) => KeepsWorking(p)' /\ UNCHANGED holder,
             \A c \in Call \ Excused' :
                call[c].step = "begun" /\ call[c].at = p => Working(p)' \/ process'[p].step = "gone"
      PROVE  Waits'
  <2>1. ASSUME NEW c \in Queued' \ Excused' PROVE holder' \in Process /\ KeepsWorking(holder)'
    <3>1. c \in Queued \ Excused
      BY <1>8, <2>1 DEF Queued
    <3>2. holder \in Process /\ KeepsWorking(holder)
      BY <1>0, <3>1 DEF Waits
    <3>3. CASE holder = p
      BY <1>8, <2>1, <3>1, <3>2, <3>3 DEF KeepsWorking, Working, At
    <3>4. CASE holder # p
      <4>1. holder' = holder /\ process'[holder'] = process[holder]
        BY <1>8, <3>2, <3>4 DEF OthersStay
      <4> QED
        BY <3>2, <4>1 DEF KeepsWorking, Working, At
    <3> QED
      BY <3>3, <3>4
  <2>2. ASSUME NEW c \in Call \ Excused', call'[c].step = "begun", Alive(call[c].at)' PROVE Working(call[c].at)'
    <3>1. call'[c] = call[c] /\ c \notin Excused /\ call[c].at \in Process
      BY <1>0, <1>8, <2>2 DEF Calls
    <3>2. CASE call[c].at = p
      BY <1>8, <2>2, <3>1, <3>2 DEF Alive, At, Working
    <3>3. CASE call[c].at # p
      <4>1. process'[call'[c].at] = process[call[c].at]
        BY <1>8, <3>1, <3>3 DEF OthersStay
      <4>2. Working(call[c].at)
        BY <1>0, <2>2, <3>1, <4>1 DEF Waits, Alive, At
      <4> QED
        BY <4>1, <4>2 DEF Working, At
    <3> QED
      BY <3>2, <3>3
  <2> QED
    BY <2>1, <2>2 DEF Waits
<1>9. ASSUME NEW p \in Process, Close(p) PROVE Waits'
  <2>1. /\ OthersStay(p) /\ UNCHANGED <<holder, call, job>> /\ At(p) = "run"
        /\ allowed'.late = allowed.late /\ allowed'.cut = allowed.cut /\ allowed'.unread = allowed.unread
        /\ \/ ~process[p].owner
           \/ process'[p].step = "idle" /\ process[p].owner /\ process'[p].owner
    BY <1>0, <1>9, CloseMoves
  <2>2. CASE ~process[p].owner
    BY <1>1, <2>1, <2>2 DEF Excused, Working
  <2>3. CASE process'[p].step = "idle" /\ process[p].owner /\ process'[p].owner
    BY <1>8, <2>1, <2>3 DEF Excused, Working, KeepsWorking, At
  <2> QED
    BY <2>1, <2>2, <2>3
<1>10. ASSUME NEW p \in Process, ReadIdle(p) \/ ReadIdleFails(p) PROVE Waits'
  <2>1. /\ OthersStay(p) /\ UNCHANGED <<holder, call, job>> /\ At(p) = "idle"
        /\ process'[p].step = "calls" /\ (process'[p].idle => Queued \subseteq Excused')
        /\ process'[p].owner = process[p].owner /\ Excused \ Queued \subseteq Excused'
    BY <1>0, <1>10, ReadIdleMoves
  <2>2. process[p].owner /\ holder = p
    BY <1>0, <2>1 DEF Seats
  <2>3. ASSUME NEW c \in Queued' \ Excused' PROVE holder' \in Process /\ KeepsWorking(holder)'
    <3>1. ~process'[p].idle
      BY <2>1, <2>3 DEF Queued
    <3> QED
      BY <2>1, <2>2, <3>1 DEF KeepsWorking, Working, At
  <2>4. ASSUME NEW c \in Call \ Excused', call'[c].step = "begun", Alive(call[c].at)' PROVE Working(call[c].at)'
    <3>1. call'[c] = call[c] /\ call[c].at \in Process
      BY <1>0, <2>1, <2>4 DEF Calls
    <3>2. c \notin Queued
      BY <1>0, <2>4, <3>1 DEF Counts, Queued
    <3>3. c \notin Excused
      BY <2>1, <2>4, <3>2
    <3>4. CASE call[c].at = p
      BY <2>1, <2>2, <3>1, <3>4 DEF Working, At
    <3>5. CASE call[c].at # p
      <4>1. process'[call'[c].at] = process[call[c].at]
        BY <2>1, <3>1, <3>5 DEF OthersStay
      <4>2. Working(call[c].at)
        BY <1>0, <2>4, <3>1, <3>3, <4>1 DEF Waits, Alive, At
      <4> QED
        BY <4>1, <4>2 DEF Working, At
    <3> QED
      BY <3>4, <3>5
  <2> QED
    BY <2>3, <2>4 DEF Waits
<1>11. ASSUME NEW p \in Process, ReadCalls(p) PROVE Waits'
  <2>1. /\ OthersStay(p) /\ UNCHANGED <<holder, call, job, allowed>> /\ At(p) = "calls"
        /\ process[p].owner /\ process'[p].owner
        /\ process'[p].step = IF process[p].idle /\ Handled(p) = {} THEN "stop" ELSE "idle"
    BY <1>0, <1>11 DEF ReadCalls, Step, Seats, OthersStay, Seat
  <2>2. KeepsWorking(p) => process'[p].step = "idle"
    BY <2>1 DEF KeepsWorking
  <2>3. \A c \in Call : call[c].step = "begun" /\ call[c].at = p => process'[p].step = "idle"
    BY <2>1 DEF Handled
  <2> QED
    BY <1>8, <2>1, <2>2, <2>3 DEF Excused, Working, KeepsWorking, At
<1>12. ASSUME NEW p \in Process, Interrupt(p) PROVE Waits'
  <2>1. /\ OthersStay(p) /\ UNCHANGED <<holder, call, job>> /\ At(p) \in {"idle", "calls"} /\ process[p].owner
        /\ allowed'.late = allowed.late /\ allowed'.unread = allowed.unread
        /\ allowed'.cut = allowed.cut \cup Queued \cup Handled(p)
    BY <1>0, <1>12 DEF Interrupt, Step, Seats, OthersStay
  <2>2. Queued \subseteq Excused' /\ Excused \subseteq Excused' /\ Handled(p) \subseteq Excused'
    BY <2>1 DEF Excused
  <2>3. \A c \in Call \ Excused' : ~(call[c].step = "begun" /\ call[c].at = p)
    BY <2>2 DEF Handled
  <2>4. Working(p)
    BY <2>1 DEF Working
  <2> QED
    BY <1>8, <2>1, <2>2, <2>3, <2>4
<1>13. ASSUME NEW p \in Process, Exit(p) \/ Kill(p) PROVE Waits'
  <2>1. /\ OthersStay(p) /\ UNCHANGED <<call, job>> /\ process'[p].step = "gone"
        /\ allowed'.late = allowed.late /\ allowed'.unread = allowed.unread
    BY <1>0, <1>13, EndMoves
  <2>2. /\ At(p) # "gone"
        /\ holder' = holder \/ holder = p
        /\ Excused \subseteq Excused'
        /\ \/ At(p) = "released" /\ UNCHANGED holder
           \/ holder # p /\ UNCHANGED holder
           \/ Queued \subseteq Excused'
    BY <1>0, <1>13, <2>1 DEF Exit, Kill, Alive, Excused
  <2>3. CASE Working(p)
    <3>1. holder = p
      BY <1>0, <2>3 DEF Working, Seats
    <3>2. Queued \subseteq Excused'
      BY <2>2, <2>3, <3>1 DEF Working
    <3> QED
      BY <1>8, <2>1, <2>2, <2>3, <3>2
  <2>4. CASE ~Working(p)
    BY <1>1, <2>1, <2>2, <2>4
  <2> QED
    BY <2>3, <2>4
<1>14. ASSUME NEW c \in Call, TakeOver(c) PROVE Waits'
  <2> DEFINE p == call[c].from
  <2>1. p \in Process /\ Unlocked(p) /\ UNCHANGED <<holder, job, allowed>> /\ call[c].step = "takeover"
    BY <1>0, <1>14 DEF TakeOver, Calls
  <2>2. \A d \in Call : call'[d] = call[d] \/ call'[d].step # "begun"
    <3>1. \A r \in Request : r.tries < Tries =>
             Over(r, "refused").step = "refused" /\ NextTry(r).step \in {"serve", "refused"}
      BY RequestTypes
    <3>2. \/ call' = [call EXCEPT ![c] = Over(call[c], "refused")]
          \/ call' = [call EXCEPT ![c] = NextTry(call[c])]
          \/ call' = [call EXCEPT ![c].step = "settle"]
      BY <1>14 DEF TakeOver, CallEnds, CallStep
    <3>3. call[c] \in Request /\ call[c].tries < Tries
      BY <1>0 DEF Calls
    <3>4. Over(call[c], "refused").step # "begun" /\ NextTry(call[c]).step # "begun"
      BY <3>1, <3>3
    <3> QED
      <4>1. CASE call' = [call EXCEPT ![c].step = "settle"]
        <5>1. call'[c].step = "settle" /\ \A d \in Call \ {c} : call'[d] = call[d]
          BY <1>0, <3>3, <4>1 DEF Request
        <5> QED
          BY <5>1
      <4> QED
        BY <1>0, <3>2, <3>4, <4>1
  <2>3. CASE UNCHANGED process
    <3>1. ASSUME NEW d \in Queued' \ Excused' PROVE holder' \in Process /\ KeepsWorking(holder)'
      BY <1>0, <2>1, <2>3, <3>1 DEF Waits, Queued, Excused, KeepsWorking, Working, At
    <3>2. ASSUME NEW d \in Call \ Excused', call'[d].step = "begun", Alive(call[d].at)' PROVE Working(call[d].at)'
      BY <1>0, <2>1, <2>2, <2>3, <3>2 DEF Waits, Excused, Alive, Working, At
    <3> QED
      BY <3>1, <3>2 DEF Waits
  <2>4. CASE ~process[p].owner /\ process' = [process EXCEPT ![p].step = "take", ![p].opens = c]
    <3>1. OthersStay(p) /\ ~Working(p) /\ At(p) # "gone"
      BY <1>0, <2>1, <2>4 DEF OthersStay, Working, Unlocked, Alive
    <3> QED
      BY <1>1, <2>1, <2>2, <3>1 DEF Excused
  <2> QED
    BY <1>14, <2>3, <2>4 DEF TakeOver
\* A call that goes on.
<1>15. ASSUME NEW c \in Call, UNCHANGED <<holder, process>>,
             Excused \subseteq Excused',
             \A d \in Call \ {c} : call'[d] = call[d] /\ job'[d] = job[d],
             job'[c] = job[c] \/ c \in Excused' \/ (holder \in Process /\ KeepsWorking(holder)),
             call'[c].step = "begun" => c \in Excused' \/ Working(call'[c].at)
      PROVE  Waits'
  <2>1. ASSUME NEW d \in Queued' \ Excused' PROVE holder' \in Process /\ KeepsWorking(holder)'
    <3>1. holder \in Process /\ KeepsWorking(holder)
      BY <1>0, <1>15, <2>1 DEF Waits, Queued
    <3> QED
      BY <1>15, <3>1 DEF KeepsWorking, Working, At
  <2>2. ASSUME NEW d \in Call \ Excused', call'[d].step = "begun", Alive(call[d].at)' PROVE Working(call[d].at)'
    BY <1>0, <1>15, <2>2 DEF Waits, Alive, Working, At
  <2> QED
    BY <2>1, <2>2 DEF Waits
<1>16. ASSUME NEW c \in Call, NEW p \in Process, Ask(c, p) PROVE Waits'
  <2>1. /\ UNCHANGED <<holder, process, job, allowed>>
        /\ \A d \in Call \ {c} : call'[d] = call[d]
        /\ call'[c].step = "serve"
    BY <1>0, <1>16 DEF Ask
  <2> QED
    BY <1>15, <2>1 DEF Excused
<1>17. ASSUME NEW c \in Call, Dial(c) \/ Answer(c) \/ Broken(c) PROVE Waits'
  <2>1. /\ UNCHANGED <<holder, process, job, allowed>>
        /\ \A d \in Call \ {c} : call'[d] = call[d]
    BY <1>0, <1>17 DEF Dial, Answer, Broken, CallStep, CallEnds
  <2>2. call'[c].step \in {"sent", "takeover", "answered", "failed"}
    <3>1. CASE Dial(c)
      BY <1>0, <3>1 DEF Dial, CallStep, Request
    <3>2. CASE Answer(c) \/ Broken(c)
      <4>1. call[c] \in Request /\ call[c].tries < Tries
        BY <1>0 DEF Calls
      <4>2. Over(call[c], "answered").step = "answered" /\ Over(call[c], "failed").step = "failed"
        BY <4>1, RequestTypes
      <4>3. \/ call' = [call EXCEPT ![c] = Over(call[c], "answered")]
            \/ call' = [call EXCEPT ![c] = Over(call[c], "failed")]
        BY <3>2 DEF Answer, Broken, CallEnds
      <4> QED
        BY <1>0, <4>2, <4>3
    <3> QED
      BY <1>17, <3>1, <3>2
  <2> QED
    BY <1>15, <2>1, <2>2 DEF Excused
<1>18. ASSUME NEW c \in Call, ServeHTTP(c) PROVE Waits'
  <2> DEFINE p == call[c].from
  <2>1. /\ UNCHANGED <<holder, process, job>>
        /\ \A d \in Call \ {c} : call'[d] = call[d]
        /\ allowed'.cut = allowed.cut
        /\ allowed'.unread = allowed.unread
        /\ allowed'.late = allowed.late \cup {d \in {c} : process[p].owner /\ ~Working(p)}
    BY <1>0, <1>18 DEF ServeHTTP
  <2>2. call'[c].step = "begun" => process[p].owner /\ call'[c].at = p
    BY <1>0, <1>18 DEF ServeHTTP, Request
  <2>3. call'[c].step = "begun" => c \in Excused' \/ Working(call'[c].at)
    BY <2>1, <2>2 DEF Excused
  <2>4. Excused \subseteq Excused'
    BY <2>1 DEF Excused
  <2> QED
    BY <1>15, <2>1, <2>3, <2>4
<1>19. ASSUME NEW c \in Call, Begin(c) PROVE Waits'
  <2>1. /\ UNCHANGED <<holder, process, job>>
        /\ \A d \in Call \ {c} : call'[d] = call[d]
        /\ call'[c].at = call[c].at
        /\ allowed'.cut = allowed.cut
        /\ allowed'.unread = allowed.unread
        /\ allowed'.late = allowed.late \cup {d \in {c} : ~Working(call[c].at)}
    BY <1>0, <1>19 DEF Begin, CallStep, Request
  <2> QED
    BY <1>15, <2>1 DEF Excused
<1>20. ASSUME NEW c \in Call, Handle(c) PROVE Waits'
  <2> DEFINE p == call[c].at
  <2>1. /\ UNCHANGED <<holder, process>>
        /\ \A d \in Call \ {c} : call'[d] = call[d] /\ job'[d] = job[d]
        /\ call'[c].step = "ran"
        /\ allowed'.cut = allowed.cut
        /\ allowed'.unread = allowed.unread
        /\ allowed'.late = allowed.late \cup {d \in {c} : At(p) = "calls" /\ process[p].idle}
        /\ call[c].step = "begun" /\ Alive(p) /\ p \in Process
    BY <1>0, <1>20 DEF Handle, CallStep, Calls
  <2>2. Excused \subseteq Excused'
    BY <2>1 DEF Excused
  <2>3. c \in Excused' \/ (holder \in Process /\ KeepsWorking(holder))
    <3>1. SUFFICES ASSUME c \notin Excused' PROVE holder = p /\ KeepsWorking(p)
      BY <2>1
    <3>2. Working(p) /\ ~(At(p) = "calls" /\ process[p].idle)
      BY <1>0, <2>1, <2>2, <3>1 DEF Waits, Excused
    <3> QED
      BY <1>0, <2>1, <3>2 DEF KeepsWorking, Working, Seats
  <2> QED
    BY <1>15, <2>1, <2>2, <2>3
<1>21. ASSUME NEW p \in Process, Work(p) PROVE Waits'
  <2>1. UNCHANGED <<holder, process, call, allowed>> /\ Queued' \subseteq Queued
    BY <1>0, <1>21 DEF Work, Queued
  <2> QED
    BY <1>0, <2>1 DEF Waits, Excused, KeepsWorking, Working, Alive, At
<1>22. CASE UNCHANGED vars
  BY <1>0, <1>22 DEF vars, Waits, Queued, Excused, KeepsWorking, Working, Alive, At
<1> QED
  BY <1>2, <1>4, <1>5, <1>6, <1>7, <1>9, <1>10, <1>11, <1>12, <1>13, <1>14, <1>16, <1>17, <1>18,
     <1>19, <1>20, <1>21, <1>22
  DEF Next

LEMMA FinishStep == IInv /\ [Next]_vars => FinishesItsQueue'
<1> SUFFICES ASSUME IInv, [Next]_vars PROVE FinishesItsQueue'
  OBVIOUS
<1>0. /\ TypeOK /\ Seats /\ Waits /\ FinishesItsQueue
      /\ job \in [Call -> {"none", "queued", "done", "ended"}]
      /\ allowed \in [late : SUBSET Call, cut : SUBSET Call, unread : SUBSET Call, overtime : SUBSET Call, stale : BOOLEAN]
  BY DEF IInv, TypeOK
<1>1. ASSUME \A c \in Call : job'[c] = "ended" => job[c] = "ended",
             Excused \subseteq Excused'
      PROVE  FinishesItsQueue'
  BY <1>0, <1>1 DEF FinishesItsQueue, Excused
<1>2. ASSUME NEW p \in Process, OpenApp(p) PROVE FinishesItsQueue'
  <2>1. holder = p /\ ~KeepsWorking(p)
    BY <1>0, <1>2 DEF OpenApp, Seats, KeepsWorking, Working
  <2>2. Queued \subseteq Excused
    BY <1>0, <2>1 DEF Waits, Queued
  <2>3. UNCHANGED allowed /\ \A c \in Call : job'[c] = "ended" => job[c] = "ended" \/ c \in Queued
    BY <1>0, <1>2 DEF OpenApp, Queued
  <2> QED
    BY <1>0, <2>2, <2>3 DEF FinishesItsQueue, Excused
<1>3. ASSUME NEW p \in Process, ReadIdle(p) \/ ReadIdleFails(p) PROVE FinishesItsQueue'
  <2>1. UNCHANGED job /\ Excused \ Queued \subseteq Excused'
    BY <1>0, <1>3, ReadIdleMoves
  <2> QED
    BY <1>0, <2>1 DEF FinishesItsQueue, Queued, Excused
<1>4. ASSUME NEW p \in Process, Work(p) PROVE FinishesItsQueue'
  BY <1>0, <1>1, <1>4 DEF Work, Queued, Excused
<1>5. ASSUME NEW p \in Process, Close(p) \/ Read(p) PROVE FinishesItsQueue'
  <2>1. UNCHANGED job /\ allowed'.late = allowed.late /\ allowed'.cut = allowed.cut /\ allowed'.unread = allowed.unread
    BY <1>0, <1>5, CloseMoves, ReadMoves
  <2> QED
    BY <1>1, <2>1 DEF Excused
<1>6. ASSUME NEW p \in Process, Interrupt(p) \/ Release(p) \/ Kill(p) PROVE FinishesItsQueue'
  <2>1. /\ UNCHANGED job /\ allowed'.late = allowed.late /\ allowed'.unread = allowed.unread
        /\ allowed.cut \subseteq allowed'.cut
    BY <1>0, <1>6 DEF Interrupt, Release, Kill
  <2> QED
    BY <1>1, <2>1 DEF Excused
<1>7. ASSUME NEW c \in Call, ServeHTTP(c) \/ Begin(c) \/ Handle(c) PROVE FinishesItsQueue'
  <2>1. allowed'.cut = allowed.cut /\ allowed'.unread = allowed.unread /\ allowed.late \subseteq allowed'.late
    BY <1>0, <1>7 DEF ServeHTTP, Begin, Handle
  <2>2. \A d \in Call : job'[d] = "ended" => job[d] = "ended"
    BY <1>0, <1>7 DEF ServeHTTP, Begin, Handle
  <2> QED
    BY <1>1, <2>1, <2>2 DEF Excused
<1>8. CASE UNCHANGED <<job, allowed>>
  BY <1>1, <1>8 DEF Excused
<1> QED
  BY <1>2, <1>3, <1>4, <1>5, <1>6, <1>7, <1>8
  DEF Next, vars, Start, Take, GiveUp, WriteStarting, OpenFails, Listen, ReadCalls, Stop, Exit,
      Ask, Dial, TakeOver, Answer, Broken

-----------------------------------------------------------------------------
(* Theorems. *)

LEMMA Initially == Init => IInv
<1> SUFFICES ASSUME Init PROVE IInv
  OBVIOUS
<1>1. /\ \A p \in Process : /\ At(p) = "new" /\ ~process[p].owner
                            /\ process[p].opens = Nobody /\ process[p] \in Seat
      /\ \A c \in Call : /\ call[c].step = "none" /\ call[c].tries = 0 /\ call[c] \in Request
                         /\ job[c] = "none" /\ ran[c] = 0
  BY BoundsAssumption DEF Init, At, Seat, Request
<1>2. TypeOK
  <2>1. process \in [Process -> Seat] /\ call \in [Call -> Request] /\ ran \in [Call -> Nat]
    BY <1>1 DEF Init
  <2>2. holder \in Process \cup {Nobody} /\ file \in Process \cup {Nobody}
    BY DEF Init
  <2>3. cuts \in 0 .. MaxCuts /\ troubles \in 0 .. MaxTroubles
    BY BoundsAssumption DEF Init
  <2>4. /\ allowed \in [late : SUBSET Call, cut : SUBSET Call, unread : SUBSET Call, overtime : SUBSET Call, stale : BOOLEAN]
        /\ job \in [Call -> {"none", "queued", "done", "ended"}]
    BY DEF Init
  <2> QED
    BY <2>1, <2>2, <2>3, <2>4 DEF TypeOK
<1>3. Seats /\ Settling
  BY <1>1 DEF Seats, Settling
<1>4. Calls /\ Counts
  BY <1>1, BoundsAssumption DEF Calls, Counts, InFlight
<1>5. Waits /\ FinishesItsQueue
  BY <1>1 DEF Waits, Queued, FinishesItsQueue
<1> QED
  BY <1>2, <1>3, <1>4, <1>5 DEF IInv

LEMMA Invariance == Spec => []IInv
<1>1. IInv /\ [Next]_vars => IInv'
  <2> SUFFICES ASSUME IInv, [Next]_vars PROVE IInv'
    OBVIOUS
  <2>1. TypeOK' /\ Seats' /\ Settling'
    BY TypeStep, SeatsStep, SettlingStep
  <2>2. Calls' /\ Counts' /\ Waits' /\ FinishesItsQueue'
    BY CallsStep, CountsStep, WaitsStep, FinishStep
  <2> QED
    BY <2>1, <2>2 DEF IInv
<1> QED
  BY <1>1, Initially, PTL DEF Spec

\* The lock, the lock file, the seats of the processes, the calls and the jobs have
\* the values that the code gives them.
THEOREM TypeCorrect == Spec => []TypeOK
<1>1. IInv => TypeOK
  BY DEF IInv
<1> QED
  BY <1>1, Invariance, PTL

\* At most one process has the store open, and calls are handled only there: for
\* any processes that start, settle, close and die in any order.
THEOREM OneOwnerAtATime == Spec => []OneOwner
<1>1. IInv => OneOwner
  <2> SUFFICES ASSUME IInv PROVE OneOwner
    OBVIOUS
  <2>1. \A p \in Process : Owns(p) => holder = p
    BY DEF IInv, Seats, Owns, Working
  <2>2. ASSUME NEW c \in Call \ allowed.overtime, call[c].step = "begun", Alive(call[c].at)
        PROVE  Owns(call[c].at)
    <3>1. call[c].at \in Process /\ process[call[c].at].owner /\ At(call[c].at) # "released"
      BY <2>2 DEF IInv, Calls, Alive
    <3>2. process[call[c].at] \in Seat
      BY <3>1 DEF IInv, TypeOK
    <3> QED
      BY <2>2, <3>1, <3>2 DEF IInv, Seats, Owns, Working, Alive, At, Seat
  <2> QED
    BY <2>1, <2>2 DEF OneOwner
<1> QED
  BY <1>1, Invariance, PTL

\* However often a process looks for an owner, takes over and tries again, a call
\* runs once at most: once when it was answered, and never when it was refused.
THEOREM HandledOnce == Spec => []CalledOnce
<1>1. IInv => CalledOnce
  BY DEF IInv, Counts, CalledOnce
<1> QED
  BY <1>1, Invariance, PTL

\* The next owner finds no job in the queue but those of an owner that somebody
\* ended, those that came late, and those that waited when the last query of the
\* queue failed.
THEOREM QueueIsFinished == Spec => []FinishesItsQueue
<1>1. IInv => FinishesItsQueue
  BY DEF IInv
<1> QED
  BY <1>1, Invariance, PTL

-----------------------------------------------------------------------------
(***************************************************************************)
(* Proofs about ProgressBroker for any listeners, capacity and number of   *)
(* events.                                                                 *)
(*                                                                         *)
(* The map and the open channels are the same set (InStep), which no send  *)
(* and no close can then surprise.  A stream is compared with the history  *)
(* as a whole (Streams): a step of the listener moves an event within it,  *)
(* and a step of the run adds its event to both or marks it missed.        *)
(***************************************************************************)

\* The events are numbered as they are published, and one is left for the end.
Numbered ==
    /\ history \in Seq(Event)
    /\ \A i \in 1 .. Len(history) : history[i] = i
    /\ ~closed => Len(history) < MaxEvents
    /\ closed => Len(history) <= MaxEvents

\* The channels that are open are those in the map, each of a listener that
\* streams; a listener that streams left the map only when the run ended.
InStep ==
    /\ subs = open
    /\ open \subseteq {l \in Listener : pc[l] = "stream"}
    /\ closed => subs = {}
    /\ ~closed => {l \in Listener : pc[l] = "stream"} \subseteq subs

\* What a listener has before it subscribes.
Fresh ==
    \A l \in Listener : pc[l] \in {"idle", "asked"} =>
        got[l] = << >> /\ pending[l] = << >> /\ buffer[l] = << >> /\ missed[l] = {}

\* NothingElseIsLost, and the whole history for a listener that missed nothing.
Streams ==
    \A l \in Listener : pc[l] = "stream" =>
        /\ InOrder(Stream(l))
        /\ Events(Stream(l)) = Events(history) \ missed[l]
        /\ missed[l] \subseteq Events(history)
        /\ missed[l] = {} => Stream(l) = history

BrokerInv ==
    /\ BrokerTypeOK
    /\ Numbered
    /\ InStep
    /\ Fresh
    /\ NoPanic
    /\ Streams
    /\ KeepingUpSeesTheEnd

-----------------------------------------------------------------------------
(* Sequences of events. *)

\* A listener writes the next event of what it holds: the whole stays.
LEMMA WriteMovesOne ==
    ASSUME NEW S, NEW s \in Seq(S), NEW t \in Seq(S), t # << >>
    PROVE  Append(s, Head(t)) \o Tail(t) = s \o t
<1>1. Head(t) \in S /\ Tail(t) \in Seq(S)
  BY HeadTailProperties
<1>2. Append(s, Head(t)) = s \o <<Head(t)>>
  BY <1>1, AppendIsConcat
<1>3. t = <<Head(t)>> \o Tail(t)
  BY SubSeqRecursiveFirst, SubSeqFull, TailIsSubSeq, HeadTailProperties, EmptySeq, LenProperties
<1>4. <<Head(t)>> \in Seq(S)
  BY <1>1
<1> QED
  BY <1>1, <1>2, <1>3, <1>4, ConcatAssociative

LEMMA AppendToLast ==
    ASSUME NEW S, NEW s \in Seq(S), NEW t \in Seq(S), NEW e \in S
    PROVE  s \o Append(t, e) = Append(s \o t, e)
<1>1. <<e>> \in Seq(S) /\ s \o t \in Seq(S)
  BY ConcatProperties
<1>2. Append(t, e) = t \o <<e>> /\ Append(s \o t, e) = (s \o t) \o <<e>>
  BY <1>1, AppendIsConcat
<1> QED
  BY <1>1, <1>2, ConcatAssociative

\* An event that is later than all events of s.
LEMMA AppendEvent ==
    ASSUME NEW s \in Seq(Nat), NEW e \in Nat
    PROVE  /\ Events(Append(s, e)) = Events(s) \cup {e}
           /\ InOrder(s) /\ (\A f \in Events(s) : f < e) => InOrder(Append(s, e))
<1> DEFINE t == Append(s, e)
<1>1. /\ Len(t) = Len(s) + 1 /\ Len(s) \in Nat
      /\ \A i \in 1 .. Len(s) : t[i] = s[i] /\ s[i] \in Nat
      /\ t[Len(s) + 1] = e
  BY AppendProperties, LenProperties, ElementOfSeq
<1>2. Events(t) = Events(s) \cup {e}
  BY <1>1 DEF Events
<1>3. ASSUME InOrder(s), \A f \in Events(s) : f < e PROVE InOrder(t)
  BY <1>1, <1>3 DEF InOrder, Events
<1> QED
  BY <1>2, <1>3

-----------------------------------------------------------------------------
(* The events of the run. *)

LEMMA EventIsNat == Event \subseteq Nat /\ Seq(Event) \subseteq Seq(Nat)
BY MaxEventsAssumption DEF Event

LEMMA NextEvent ==
    ASSUME Numbered, ~closed
    PROVE  /\ Len(history) \in Nat
           /\ Len(history) + 1 \in Event
           /\ \A f \in Events(history) : f < Len(history) + 1
<1>1. Len(history) \in Nat
  BY LenProperties DEF Numbered
<1> QED
  BY <1>1, MaxEventsAssumption DEF Numbered, Event, Events

\* A step of the run: its event is in the history, and in or beside each channel.
LEMMA NumberedStep ==
    ASSUME Numbered, ~closed, history' = Append(history, Len(history) + 1),
           closed' \in BOOLEAN, ~closed' => Len(history) + 1 < MaxEvents
    PROVE  Numbered'
<1>1. /\ history' \in Seq(Event)
      /\ Len(history') = Len(history) + 1
      /\ \A i \in 1 .. Len(history) : history'[i] = history[i]
      /\ history'[Len(history) + 1] = Len(history) + 1
  BY NextEvent, AppendProperties DEF Numbered
<1>2. Len(history') <= MaxEvents
  BY <1>1, NextEvent, MaxEventsAssumption DEF Event
<1>3. \A i \in 1 .. Len(history') : history'[i] = i
  BY <1>1, NextEvent DEF Numbered
<1> QED
  BY <1>1, <1>2, <1>3 DEF Numbered

LEMMA OfferTypes ==
    ASSUME BrokerTypeOK, NEW e \in Event, Offer(e)
    PROVE  /\ buffer' \in [Listener -> Seq(Event)]
           /\ \A l \in Listener : Len(buffer'[l]) <= Capacity
           /\ missed' \in [Listener -> SUBSET Event]
           /\ panicked' \in BOOLEAN
<1>1. ASSUME NEW l \in Listener
      PROVE  /\ Append(buffer[l], e) \in Seq(Event)
             /\ Len(Append(buffer[l], e)) = Len(buffer[l]) + 1
             /\ Len(buffer[l]) \in Nat
  BY AppendProperties, LenProperties DEF BrokerTypeOK
<1>2. buffer' \in [Listener -> Seq(Event)] /\ missed' \in [Listener -> SUBSET Event]
  BY <1>1 DEF Offer, BrokerTypeOK
<1>3. \A l \in Listener : Len(buffer'[l]) <= Capacity
  BY <1>1, CapacityAssumption DEF Offer, BrokerTypeOK, Full
<1>4. panicked' \in BOOLEAN
  BY DEF Offer, BrokerTypeOK
<1> QED
  BY <1>2, <1>3, <1>4

LEMMA BrokerTypeStep == BrokerInv /\ [BrokerNext]_brokerVars => BrokerTypeOK'
<1> SUFFICES ASSUME BrokerInv, [BrokerNext]_brokerVars PROVE BrokerTypeOK'
  OBVIOUS
<1> USE DEF BrokerInv
<1>1. CASE EndRow
  BY <1>1 DEF EndRow, BrokerTypeOK, broker, channels, listeners
<1>2. CASE Publish
  <2>1. history' \in Seq(Event) /\ Len(history) + 1 \in Event
    BY <1>2, NextEvent, AppendProperties DEF Publish, BrokerTypeOK
  <2> QED
    BY <1>2, <2>1, OfferTypes DEF Publish, BrokerTypeOK, listeners
<1>3. CASE PublishEnd
  <2>1. history' \in Seq(Event) /\ Len(history) + 1 \in Event
    BY <1>3, NextEvent, AppendProperties DEF PublishEnd, BrokerTypeOK
  <2> QED
    BY <1>3, <2>1, OfferTypes DEF PublishEnd, BrokerTypeOK, listeners
<1>4. ASSUME NEW l \in Listener, ReadRow(l) PROVE BrokerTypeOK'
  <2>1. <<Final>> \in Seq(Event \cup {Final})
    OBVIOUS
  <2> QED
    BY <1>4, <2>1 DEF ReadRow, BrokerTypeOK, Steps, broker, channels
<1>5. ASSUME NEW l \in Listener, Subscribe(l) PROVE BrokerTypeOK'
  BY <1>5 DEF Subscribe, BrokerTypeOK, Steps
<1>6. ASSUME NEW l \in Listener, WriteHistory(l) PROVE BrokerTypeOK'
  <2>1. Head(pending[l]) \in Event /\ Tail(pending[l]) \in Seq(Event)
    BY <1>6, HeadTailProperties DEF WriteHistory, BrokerTypeOK
  <2>2. Append(got[l], Head(pending[l])) \in Seq(Event \cup {Final})
    BY <2>1, AppendProperties DEF BrokerTypeOK
  <2> QED
    BY <1>6, <2>1, <2>2 DEF WriteHistory, BrokerTypeOK, broker, channels
<1>7. ASSUME NEW l \in Listener, WriteNext(l) PROVE BrokerTypeOK'
  <2>1. /\ Head(buffer[l]) \in Event
        /\ Tail(buffer[l]) \in Seq(Event)
        /\ Len(Tail(buffer[l])) = Len(buffer[l]) - 1
        /\ Len(buffer[l]) \in Nat
    BY <1>7, HeadTailProperties, LenProperties DEF WriteNext, BrokerTypeOK
  <2>2. Append(got[l], Head(buffer[l])) \in Seq(Event \cup {Final})
    BY <2>1, AppendProperties DEF BrokerTypeOK
  <2>3. \A k \in Listener : Len(buffer'[k]) <= Capacity
    BY <1>7, <2>1, CapacityAssumption DEF WriteNext, BrokerTypeOK
  <2> QED
    BY <1>7, <2>1, <2>2, <2>3 DEF WriteNext, BrokerTypeOK, broker
<1>8. ASSUME NEW l \in Listener, StreamEnds(l) \/ ClientLeaves(l) PROVE BrokerTypeOK'
  <2>1. subs' = subs \ {l} /\ open' = open \ {l}
    BY <1>8 DEF StreamEnds, ClientLeaves, Cancel, InStep
  <2> QED
    BY <1>8, <2>1 DEF StreamEnds, ClientLeaves, Cancel, BrokerTypeOK, Steps
<1>9. CASE UNCHANGED brokerVars
  BY <1>9 DEF brokerVars, BrokerTypeOK, broker, channels, listeners
<1> QED
  BY <1>1, <1>2, <1>3, <1>4, <1>5, <1>6, <1>7, <1>8, <1>9 DEF BrokerNext, ListenerStep

LEMMA InStepStep == BrokerInv /\ [BrokerNext]_brokerVars => Numbered' /\ InStep' /\ Fresh' /\ NoPanic'
<1> SUFFICES ASSUME BrokerInv, [BrokerNext]_brokerVars PROVE Numbered' /\ InStep' /\ Fresh' /\ NoPanic'
  OBVIOUS
<1> USE DEF BrokerInv
<1>1. CASE EndRow
  BY <1>1 DEF EndRow, Numbered, InStep, Fresh, NoPanic, broker, channels, listeners
<1>2. CASE Publish
  <2>1. Numbered'
    BY <1>2, NumberedStep DEF Publish, BrokerTypeOK
  <2>2. InStep' /\ NoPanic'
    BY <1>2 DEF Publish, Offer, InStep, NoPanic, listeners
  <2>3. Fresh'
    BY <1>2 DEF Publish, Offer, InStep, Fresh, BrokerTypeOK, listeners
  <2> QED
    BY <2>1, <2>2, <2>3
<1>3. CASE PublishEnd
  <2>1. Numbered'
    BY <1>3, NumberedStep DEF PublishEnd, BrokerTypeOK
  <2>2. InStep' /\ NoPanic'
    BY <1>3 DEF PublishEnd, Offer, InStep, NoPanic, listeners
  <2>3. Fresh'
    BY <1>3 DEF PublishEnd, Offer, InStep, Fresh, BrokerTypeOK, listeners
  <2> QED
    BY <2>1, <2>2, <2>3
<1>4. ASSUME NEW l \in Listener, ReadRow(l) PROVE Numbered' /\ InStep' /\ Fresh' /\ NoPanic'
  BY <1>4 DEF ReadRow, Numbered, InStep, Fresh, NoPanic, BrokerTypeOK, broker, channels
<1>5. ASSUME NEW l \in Listener, Subscribe(l) PROVE Numbered' /\ InStep' /\ Fresh' /\ NoPanic'
  BY <1>5 DEF Subscribe, Numbered, InStep, Fresh, NoPanic, BrokerTypeOK
<1>6. ASSUME NEW l \in Listener, WriteHistory(l) PROVE Numbered' /\ InStep' /\ Fresh' /\ NoPanic'
  BY <1>6 DEF WriteHistory, Numbered, InStep, Fresh, NoPanic, BrokerTypeOK, broker, channels
<1>7. ASSUME NEW l \in Listener, WriteNext(l) PROVE Numbered' /\ InStep' /\ Fresh' /\ NoPanic'
  BY <1>7 DEF WriteNext, Numbered, InStep, Fresh, NoPanic, BrokerTypeOK, broker
<1>8. ASSUME NEW l \in Listener, StreamEnds(l) \/ ClientLeaves(l)
      PROVE  Numbered' /\ InStep' /\ Fresh' /\ NoPanic'
  <2>1. subs' = subs \ {l} /\ open' = open \ {l} /\ panicked' = panicked
    BY <1>8 DEF StreamEnds, ClientLeaves, Cancel, InStep, BrokerTypeOK
  <2>2. /\ pc' \in [Listener -> {"idle", "asked", "stream", "ended", "gone"}]
        /\ pc'[l] \in {"ended", "gone"}
        /\ \A k \in Listener \ {l} : pc'[k] = pc[k]
    BY <1>8 DEF StreamEnds, ClientLeaves, BrokerTypeOK, Steps
  <2>3. UNCHANGED <<history, closed, buffer, pending, got, missed>>
    BY <1>8 DEF StreamEnds, ClientLeaves
  <2>4. InStep'
    BY <2>1, <2>2, <2>3 DEF InStep
  <2>5. Fresh'
    BY <2>2, <2>3 DEF Fresh
  <2> QED
    BY <2>1, <2>3, <2>4, <2>5 DEF Numbered, NoPanic
<1>9. CASE UNCHANGED brokerVars
  BY <1>9 DEF brokerVars, Numbered, InStep, Fresh, NoPanic, broker, channels, listeners
<1> QED
  BY <1>1, <1>2, <1>3, <1>4, <1>5, <1>6, <1>7, <1>8, <1>9 DEF BrokerNext, ListenerStep

-----------------------------------------------------------------------------
(* The streams. *)

LEMMA SequencesOfNat ==
    ASSUME BrokerTypeOK
    PROVE  /\ history \in Seq(Nat)
           /\ \A l \in Listener : /\ got[l] \in Seq(Nat)
                                  /\ pending[l] \in Seq(Nat)
                                  /\ buffer[l] \in Seq(Nat)
                                  /\ got[l] \o pending[l] \in Seq(Nat)
                                  /\ Stream(l) \in Seq(Nat)
<1>1. Event \subseteq Nat /\ Event \cup {Final} \subseteq Nat
  BY EventIsNat DEF Final
<1>2. /\ history \in Seq(Nat)
      /\ \A l \in Listener : /\ got[l] \in Seq(Nat)
                             /\ pending[l] \in Seq(Nat)
                             /\ buffer[l] \in Seq(Nat)
  BY <1>1, SeqMonotonic DEF BrokerTypeOK
<1> QED
  BY <1>2, ConcatProperties DEF Stream

\* The stream of a listener as a predicate of its parts.
Whole(h, s, m) ==
    /\ InOrder(s)
    /\ Events(s) = Events(h) \ m
    /\ m \subseteq Events(h)
    /\ m = {} => s = h

LEMMA OfferStreams ==
    ASSUME BrokerInv, ~closed, history' = Append(history, Len(history) + 1),
           Offer(Len(history) + 1), UNCHANGED listeners
    PROVE  Streams'
<1> DEFINE e == Len(history) + 1
<1>1. /\ e \in Nat
      /\ history \in Seq(Nat)
      /\ Events(history') = Events(history) \cup {e}
      /\ \A f \in Events(history) : f < e
  BY NextEvent, SequencesOfNat, AppendEvent DEF BrokerInv
<1>2. e \notin Events(history)
  BY <1>1
<1> SUFFICES ASSUME NEW l \in Listener, pc[l] = "stream"
             PROVE  Whole(history', got'[l] \o pending'[l] \o buffer'[l], missed'[l])
  BY DEF Streams, Whole, Stream, listeners
<1> DEFINE s == Stream(l)
<1>3. l \in subs /\ Whole(history, s, missed[l])
  BY DEF BrokerInv, InStep, Streams, Whole
<1>4. s \in Seq(Nat) /\ got[l] \o pending[l] \in Seq(Nat) /\ buffer[l] \in Seq(Nat)
  BY SequencesOfNat DEF BrokerInv
<1>5. CASE Full(l)
  <2>1. buffer'[l] = buffer[l] /\ missed'[l] = missed[l] \cup {e}
    BY <1>3, <1>5 DEF Offer, BrokerInv, BrokerTypeOK
  <2>2. got'[l] \o pending'[l] \o buffer'[l] = s
    BY <2>1 DEF Stream, listeners
  <2> QED
    BY <1>1, <1>2, <1>3, <2>1, <2>2 DEF Whole
<1>6. CASE ~Full(l)
  <2>1. buffer'[l] = Append(buffer[l], e) /\ missed'[l] = missed[l]
    BY <1>3, <1>6 DEF Offer, BrokerInv, BrokerTypeOK
  <2>2. got'[l] \o pending'[l] \o buffer'[l] = Append(s, e)
    <3>1. \A t, u \in Seq(Nat) : t \o Append(u, e) = Append(t \o u, e)
      BY <1>1, AppendToLast
    <3> QED
      BY <1>4, <2>1, <3>1 DEF Stream, listeners
  <2>3. /\ Events(Append(s, e)) = Events(s) \cup {e}
        /\ InOrder(Append(s, e))
    <3>1. \A f \in Events(s) : f < e
      BY <1>1, <1>3 DEF Whole
    <3> QED
      BY <1>1, <1>3, <1>4, <3>1, AppendEvent DEF Whole
  <2> QED
    BY <1>1, <1>2, <1>3, <2>1, <2>2, <2>3 DEF Whole
<1> QED
  BY <1>5, <1>6

LEMMA StreamsStep == BrokerInv /\ [BrokerNext]_brokerVars => Streams'
<1> SUFFICES ASSUME BrokerInv, [BrokerNext]_brokerVars PROVE Streams'
  OBVIOUS
<1> USE DEF BrokerInv
<1>1. CASE Publish \/ PublishEnd
  BY <1>1, OfferStreams DEF Publish, PublishEnd
<1>2. ASSUME NEW l \in Listener, ReadRow(l) PROVE Streams'
  <2>1. pc'[l] # "stream" /\ \A k \in Listener \ {l} : pc'[k] = pc[k] /\ got'[k] = got[k]
    BY <1>2 DEF ReadRow, BrokerTypeOK
  <2> QED
    BY <1>2, <2>1 DEF ReadRow, Streams, Stream, broker, channels
<1>3. ASSUME NEW l \in Listener, Subscribe(l) PROVE Streams'
  <2>1. got'[l] = << >> /\ pending'[l] = history /\ buffer'[l] = << >> /\ missed'[l] = {}
    BY <1>3 DEF Subscribe, Fresh, BrokerTypeOK
  <2>2. Stream(l)' = history
    BY <2>1, ConcatEmptySeq, SequencesOfNat DEF Stream
  <2>3. InOrder(history)
    BY LenProperties DEF InOrder, Numbered
  <2>4. \A k \in Listener \ {l} : pc'[k] = pc[k] /\ Stream(k)' = Stream(k)
    BY <1>3 DEF Subscribe, Stream, BrokerTypeOK
  <2> QED
    BY <1>3, <2>1, <2>2, <2>3, <2>4 DEF Subscribe, Streams
<1>4. ASSUME NEW l \in Listener, WriteHistory(l) PROVE Streams'
  <2>1. Stream(l)' = Stream(l)
    <3>1. pending[l] # << >> /\ got[l] \in Seq(Nat) /\ pending[l] \in Seq(Nat)
      BY <1>4, SequencesOfNat DEF WriteHistory
    <3>2. Append(got[l], Head(pending[l])) \o Tail(pending[l]) = got[l] \o pending[l]
      BY <3>1, WriteMovesOne
    <3> QED
      BY <1>4, <3>2 DEF WriteHistory, Stream, BrokerTypeOK, channels
  <2>2. \A k \in Listener \ {l} : Stream(k)' = Stream(k)
    BY <1>4 DEF WriteHistory, Stream, BrokerTypeOK, channels
  <2> QED
    BY <1>4, <2>1, <2>2 DEF WriteHistory, Streams, broker
<1>5. ASSUME NEW l \in Listener, WriteNext(l) PROVE Streams'
  <2>1. got[l] \o pending[l] = got[l] /\ got'[l] \o pending'[l] = got'[l]
    <3>1. got'[l] \in Seq(Nat)
      BY <1>5, SequencesOfNat, HeadTailProperties, AppendProperties DEF WriteNext, BrokerTypeOK
    <3> QED
      BY <1>5, <3>1, ConcatEmptySeq, SequencesOfNat DEF WriteNext
  <2>2. Stream(l)' = Stream(l)
    <3>1. buffer[l] # << >> /\ got[l] \in Seq(Nat) /\ buffer[l] \in Seq(Nat)
      BY <1>5, SequencesOfNat DEF WriteNext
    <3>2. Append(got[l], Head(buffer[l])) \o Tail(buffer[l]) = got[l] \o buffer[l]
      BY <3>1, WriteMovesOne
    <3>3. got'[l] = Append(got[l], Head(buffer[l])) /\ buffer'[l] = Tail(buffer[l])
      BY <1>5 DEF WriteNext, BrokerTypeOK
    <3> QED
      BY <2>1, <3>2, <3>3 DEF Stream
  <2>3. \A k \in Listener \ {l} : Stream(k)' = Stream(k)
    BY <1>5 DEF WriteNext, Stream, BrokerTypeOK
  <2> QED
    BY <1>5, <2>2, <2>3 DEF WriteNext, Streams, broker
<1>6. ASSUME NEW l \in Listener, StreamEnds(l) \/ ClientLeaves(l) PROVE Streams'
  <2>1. pc'[l] # "stream" /\ \A k \in Listener \ {l} : pc'[k] = pc[k]
    BY <1>6 DEF StreamEnds, ClientLeaves, BrokerTypeOK
  <2> QED
    BY <1>6, <2>1 DEF StreamEnds, ClientLeaves, Streams, Stream
<1>7. CASE EndRow \/ UNCHANGED brokerVars
  BY <1>7 DEF EndRow, brokerVars, Streams, Stream, broker, channels, listeners
<1> QED
  BY <1>1, <1>2, <1>3, <1>4, <1>5, <1>6, <1>7 DEF BrokerNext, ListenerStep

LEMMA EndsStep == BrokerInv /\ [BrokerNext]_brokerVars => KeepingUpSeesTheEnd'
<1> SUFFICES ASSUME BrokerInv, [BrokerNext]_brokerVars PROVE KeepingUpSeesTheEnd'
  OBVIOUS
<1> USE DEF BrokerInv
<1>1. CASE Publish \/ PublishEnd
  <2>1. \A l \in Listener : pc[l] = "ended" => missed'[l] = missed[l]
    BY <1>1 DEF Publish, PublishEnd, Offer, InStep, BrokerTypeOK
  <2> QED
    BY <1>1, <2>1 DEF Publish, PublishEnd, KeepingUpSeesTheEnd, listeners
<1>2. ASSUME NEW l \in Listener, ReadRow(l) PROVE KeepingUpSeesTheEnd'
  BY <1>2 DEF ReadRow, KeepingUpSeesTheEnd, BrokerTypeOK, broker
<1>3. ASSUME NEW l \in Listener, Subscribe(l) \/ WriteHistory(l) \/ WriteNext(l) \/ ClientLeaves(l)
      PROVE  KeepingUpSeesTheEnd'
  BY <1>3 DEF Subscribe, WriteHistory, WriteNext, ClientLeaves, KeepingUpSeesTheEnd, BrokerTypeOK, broker
<1>4. ASSUME NEW l \in Listener, StreamEnds(l) PROVE KeepingUpSeesTheEnd'
  <2>1. closed
    BY <1>4 DEF StreamEnds, InStep
  <2>2. Stream(l) = got[l]
    BY <1>4, SequencesOfNat, ConcatEmptySeq DEF StreamEnds, Stream
  <2>3. missed[l] = {} => got[l] = history
    BY <1>4, <2>2 DEF StreamEnds, Streams
  <2> QED
    BY <1>4, <2>1, <2>3 DEF StreamEnds, KeepingUpSeesTheEnd, BrokerTypeOK
<1>5. CASE EndRow \/ UNCHANGED brokerVars
  BY <1>5 DEF EndRow, brokerVars, KeepingUpSeesTheEnd, broker, listeners
<1> QED
  BY <1>1, <1>2, <1>3, <1>4, <1>5 DEF BrokerNext, ListenerStep

LEMMA BrokerInvariance == BrokerSpec => []BrokerInv
<1>1. BrokerInit => BrokerInv
  <2> SUFFICES ASSUME BrokerInit PROVE BrokerInv
    OBVIOUS
  <2>1. << >> \in Seq(Event) /\ << >> \in Seq(Event \cup {Final}) /\ Len(<< >>) = 0
    BY EmptySeq
  <2>2. BrokerTypeOK
    <3>1. \A l \in Listener : buffer[l] = << >>
      BY DEF BrokerInit
    <3>2. \A l \in Listener : Len(buffer[l]) = 0
      BY <2>1, <3>1
    <3>3. 0 <= Capacity
      BY CapacityAssumption
    <3>4. \A l \in Listener : Len(buffer[l]) <= Capacity
      BY <3>2, <3>3
    <3> QED
      BY <2>1, <3>4 DEF BrokerInit, BrokerTypeOK, Steps
  <2>3. Numbered
    BY <2>1, MaxEventsAssumption DEF BrokerInit, Numbered
  <2> QED
    BY <2>2, <2>3 DEF BrokerInit, BrokerInv, InStep, Fresh, NoPanic, Streams, KeepingUpSeesTheEnd
<1>2. BrokerInv /\ [BrokerNext]_brokerVars => BrokerInv'
  BY BrokerTypeStep, InStepStep, StreamsStep, EndsStep DEF BrokerInv
<1> QED
  BY <1>1, <1>2, PTL DEF BrokerSpec

-----------------------------------------------------------------------------
(* Theorems. *)

\* Every variable keeps its type, and no channel holds more than its capacity.
THEOREM BrokerTypeCorrect == BrokerSpec => []BrokerTypeOK
BY BrokerInvariance, PTL DEF BrokerInv

\* Publish, Subscribe and cancel: no send and no close meets a closed channel,
\* however the listeners join and leave while the run publishes and ends.
THEOREM NeverPanics == BrokerSpec => []NoPanic
BY BrokerInvariance, PTL DEF BrokerInv

\* Subscribe and RunEvents: a listener's stream is the history in order, without
\* the events that its full channel missed.
THEOREM HistoryThenChannel == BrokerSpec => []NothingElseIsLost
<1>1. BrokerInv => NothingElseIsLost
  BY DEF BrokerInv, Streams, NothingElseIsLost
<1> QED
  BY <1>1, BrokerInvariance, PTL

\* WriteEvents: a listener that missed nothing has written all events, the last
\* one too, when its stream ends.
THEOREM EndIsSeen == BrokerSpec => []KeepingUpSeesTheEnd
BY BrokerInvariance, PTL DEF BrokerInv

=============================================================================
