----------------------------- MODULE EventStore -----------------------------
(***************************************************************************)
(* The event store of internal/es: Run and Append on one stream, with      *)
(* concurrent callers.                                                     *)
(*                                                                         *)
(* Run loads the snapshot row, decides events from it, and appends them    *)
(* with the version it loaded.  Append is one database transaction: a      *)
(* statement that checks the version and writes the row, the event rows,   *)
(* and the inline projections.  A version conflict makes Run load and      *)
(* decide again, three attempts in all.                                    *)
(*                                                                         *)
(* An aggregate's evolve is any pure function of the events, so a snapshot *)
(* is represented by the events it was evolved from: two snapshots of one  *)
(* aggregate are equal when these are.                                     *)
(***************************************************************************)
EXTENDS Naturals, Sequences

CONSTANTS
    Writer,     \* the callers of Run, in one or more processes
    Event,      \* event types with their payloads
    Batch,      \* the sequences of events a decision may return
    NoWriter,   \* no transaction holds the row
    MaxVersion  \* bound: no decision takes the stream past this version

ASSUME BatchAssumption == Batch \subseteq Seq(Event) \ {<< >>}
ASSUME NoWriterAssumption == NoWriter \notin Writer
ASSUME MaxVersionAssumption == MaxVersion \in Nat

VARIABLES
    row,        \* es_streams: the committed snapshot row; version 0 is no row
    events,     \* es_events: the committed event rows
    view,       \* the read model the inline projections keep
    lock,       \* the writer whose open transaction holds the row
    tx,         \* what that transaction will commit
    pc,         \* where each call of Run is
    attempt,    \* the attempt number of each call, from 0
    seen,       \* the snapshot each call loaded
    batch,      \* the events each call decided
    started,    \* history: the version of the stream when each call began
    outcome,    \* what the last call of each writer returned
    effects     \* history: each committed decision with the state it was made from

committed == <<row, events, view>>
transaction == <<lock, tx>>
locals == <<pc, attempt, seen, batch, started, outcome>>
vars == <<committed, transaction, locals, effects>>

-----------------------------------------------------------------------------

Steps == {"idle", "load", "decide", "check", "insert", "project", "commit"}

InTransaction == {"insert", "project", "commit"}

Outcomes == {"none", "ok", "refused", "conflict", "error"}

Snapshot == [version : Nat, state : Seq(Event)]

\* The last attempt: Run tries again while attempt < 2.
LastAttempt == 2

EventRow == [version : Nat, event : Event]

\* Mutant: the first event row reuses the version of the stream.
RowsAfterOffByOne(v, b) == {[version |-> v + i - 1, event |-> b[i]] : i \in 1 .. Len(b)}

\* The rows of a batch appended to a stream at version v.
RowsAfter(v, b) == {[version |-> v + i, event |-> b[i]] : i \in 1 .. Len(b)}

NoSnapshot == [version |-> 0, state |-> << >>]

Init ==
    /\ row = NoSnapshot
    /\ events = {}
    /\ view = NoSnapshot
    /\ lock = NoWriter
    /\ tx = [row |-> NoSnapshot, events |-> {}, view |-> NoSnapshot]
    /\ pc = [w \in Writer |-> "idle"]
    /\ attempt = [w \in Writer |-> 0]
    /\ seen = [w \in Writer |-> NoSnapshot]
    /\ batch = [w \in Writer |-> << >>]
    /\ started = [w \in Writer |-> 0]
    /\ outcome = [w \in Writer |-> "none"]
    /\ effects = << >>

GoTo(w, step) == pc' = [pc EXCEPT ![w] = step]

Return(w, result) ==
    /\ GoTo(w, "idle")
    /\ outcome' = [outcome EXCEPT ![w] = result]

Rollback ==
    /\ lock' = NoWriter
    /\ UNCHANGED <<committed, tx, effects>>

-----------------------------------------------------------------------------
(* Run. *)

Call(w) ==
    /\ pc[w] = "idle"
    /\ GoTo(w, "load")
    /\ attempt' = [attempt EXCEPT ![w] = 0]
    /\ started' = [started EXCEPT ![w] = row.version]
    /\ outcome' = [outcome EXCEPT ![w] = "none"]
    /\ UNCHANGED <<committed, transaction, seen, batch, effects>>

\* A stream that does not exist reads as version 0 and the zero state.
Load(w) ==
    /\ pc[w] = "load"
    /\ seen' = [seen EXCEPT ![w] = row]
    /\ GoTo(w, "decide")
    /\ UNCHANGED <<committed, transaction, attempt, batch, started, outcome, effects>>

LoadFails(w) ==
    /\ pc[w] = "load"
    /\ Return(w, "error")
    /\ UNCHANGED <<committed, transaction, attempt, seen, batch, started, effects>>

Decide(w) ==
    /\ pc[w] = "decide"
    /\ \E b \in Batch :
        /\ seen[w].version + Len(b) <= MaxVersion
        /\ batch' = [batch EXCEPT ![w] = b]
    /\ GoTo(w, "check")
    /\ UNCHANGED <<committed, transaction, attempt, seen, started, outcome, effects>>

\* decide returns an error, or no events: Run returns and appends nothing.
Refuse(w) ==
    /\ pc[w] = "decide"
    /\ Return(w, "refused")
    /\ UNCHANGED <<committed, transaction, attempt, seen, batch, started, effects>>

-----------------------------------------------------------------------------
(* Append. *)

\* Mutant: the row is written with no version check.
WriteRowUnchecked(w) ==
    /\ pc[w] = "check"
    /\ lock = NoWriter
    /\ lock' = w
    /\ tx' = [row |-> [version |-> seen[w].version + Len(batch[w]),
                       state   |-> seen[w].state \o batch[w]],
              events |-> events,
              view |-> view]
    /\ GoTo(w, "insert")
    /\ UNCHANGED <<committed, attempt, seen, batch, started, outcome, effects>>

\* The version check and the write are one statement, which waits for the
\* row of another open transaction.  It changes one row when the stream is at
\* the expected version.
WriteRow(w) ==
    /\ pc[w] = "check"
    /\ lock = NoWriter
    /\ row.version = seen[w].version
    /\ lock' = w
    /\ tx' = [row |-> [version |-> seen[w].version + Len(batch[w]),
                       state   |-> seen[w].state \o batch[w]],
              events |-> events,
              view |-> view]
    /\ GoTo(w, "insert")
    /\ UNCHANGED <<committed, attempt, seen, batch, started, outcome, effects>>

\* Mutant: the retry decides again without a new load, and does not count.
ConflictWithoutReload(w) ==
    /\ pc[w] = "check"
    /\ row.version # seen[w].version
    /\ GoTo(w, "decide")
    /\ UNCHANGED <<committed, transaction, attempt, seen, batch, started, outcome, effects>>

\* It changes no row: ErrConflict, and the transaction rolls back.  Run loads
\* again, or returns the conflict after the last attempt.  Postgres does not
\* wait to see that the committed row is at another version.
Conflict(w) ==
    /\ pc[w] = "check"
    /\ row.version # seen[w].version
    /\ IF attempt[w] < LastAttempt
         THEN /\ attempt' = [attempt EXCEPT ![w] = @ + 1]
              /\ GoTo(w, "load")
              /\ UNCHANGED outcome
         ELSE /\ Return(w, "conflict")
              /\ UNCHANGED attempt
    /\ UNCHANGED <<committed, transaction, seen, batch, started, effects>>

\* The statement fails, or its wait for the row ends (busy_timeout of SQLite).
WriteFails(w) ==
    /\ pc[w] = "check"
    /\ Return(w, "error")
    /\ UNCHANGED <<committed, transaction, attempt, seen, batch, started, effects>>

InsertEvents(w) ==
    /\ pc[w] = "insert"
    /\ lock = w
    /\ tx' = [tx EXCEPT !.events = @ \cup RowsAfter(seen[w].version, batch[w])]
    /\ GoTo(w, "project")
    /\ UNCHANGED <<committed, lock, attempt, seen, batch, started, outcome, effects>>

RunProjections(w) ==
    /\ pc[w] = "project"
    /\ lock = w
    /\ tx' = [tx EXCEPT !.view = tx.row]
    /\ GoTo(w, "commit")
    /\ UNCHANGED <<committed, lock, attempt, seen, batch, started, outcome, effects>>

\* A statement or a projection fails: the transaction rolls back, and Run
\* returns the error at once.
FailInTransaction(w) ==
    /\ pc[w] \in InTransaction
    /\ lock = w
    /\ Rollback
    /\ Return(w, "error")
    /\ UNCHANGED <<attempt, seen, batch, started>>

\* A commit whose answer is lost gives the caller an error after it applied.
Commit(w) ==
    /\ pc[w] = "commit"
    /\ lock = w
    /\ row' = tx.row
    /\ events' = tx.events
    /\ view' = tx.view
    /\ lock' = NoWriter
    /\ effects' = Append(effects, [base |-> seen[w].state, batch |-> batch[w]])
    /\ \E result \in {"ok", "error"} : Return(w, result)
    /\ UNCHANGED <<tx, attempt, seen, batch, started>>

\* The process of a writer stops.  The database rolls its transaction back.
Crash(w) ==
    /\ pc[w] # "idle"
    /\ lock' = IF lock = w THEN NoWriter ELSE lock
    /\ Return(w, "error")
    /\ UNCHANGED <<committed, tx, attempt, seen, batch, started, effects>>

-----------------------------------------------------------------------------

Progress(w) ==
    \/ Load(w) \/ LoadFails(w) \/ Decide(w) \/ Refuse(w)
    \/ WriteRow(w) \/ WriteFails(w) \/ Conflict(w)
    \/ InsertEvents(w) \/ RunProjections(w) \/ FailInTransaction(w) \/ Commit(w)

Next == \E w \in Writer : Call(w) \/ Progress(w) \/ Crash(w)

Spec == Init /\ [][Next]_vars

\* A goroutine that can take a step takes one, and the wait for a lock ends.
FairSpec == Spec /\ \A w \in Writer : WF_vars(Progress(w))

-----------------------------------------------------------------------------
(* Properties. *)

TypeOK ==
    /\ row \in Snapshot
    /\ events \subseteq EventRow
    /\ view \in Snapshot
    /\ lock \in Writer \cup {NoWriter}
    /\ tx \in [row : Snapshot, events : SUBSET EventRow, view : Snapshot]
    /\ pc \in [Writer -> Steps]
    /\ attempt \in [Writer -> 0 .. LastAttempt]
    /\ seen \in [Writer -> Snapshot]
    /\ batch \in [Writer -> Batch \cup {<< >>}]
    /\ started \in [Writer -> Nat]
    /\ outcome \in [Writer -> Outcomes]
    /\ effects \in Seq([base : Seq(Event), batch : Batch])

\* The event rows are versions 1 to n with no gap and no repeat, the snapshot
\* is evolved from exactly these events, and the read model is the one of this
\* snapshot, in every committed state: Append commits the three together.
CommittedTogether ==
    /\ row.version = Len(row.state)
    /\ events = {[version |-> i, event |-> row.state[i]] : i \in 1 .. Len(row.state)}
    /\ view = row

\* An aggregate never decides on a stale stream: each committed batch was
\* decided from the whole stream it was then appended to (T-030).
DecidedOnTheWholeStream ==
    \A i \in 1 .. Len(effects) :
        effects[i].base \o effects[i].batch =
            IF i < Len(effects) THEN effects[i + 1].base ELSE row.state

\* Events are never changed or removed: the stream only grows at its end.
AppendOnly ==
    [][ /\ row'.version >= row.version
        /\ SubSeq(row'.state, 1, Len(row.state)) = row.state
        /\ events \subseteq events' ]_committed

\* Run reports a conflict only when three other appends won since it began.
ConflictAfterThreeLosses ==
    \A w \in Writer :
        outcome[w] = "conflict" => row.version >= started[w] + 3

\* Every call of Run ends: the retries are bounded and no lock is held for ever.
EveryCallEnds == \A w \in Writer : pc[w] # "idle" ~> pc[w] = "idle"

\* Run takes effect at one instant, as AtomicStream says.
Atomic == INSTANCE AtomicStream WITH
    stream <- row.state,
    calls <- [w \in Writer |-> IF pc[w] = "idle" THEN "closed" ELSE "open"]

RunIsAtomic == Atomic!Spec
=============================================================================
