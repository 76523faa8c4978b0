---------------------------- MODULE ProgressBroker ----------------------------
(***************************************************************************)
(* The progress events of one run: Broker of internal/features/review,     *)
(* and the listeners of RunEvents, which stream them to a browser.         *)
(*                                                                         *)
(* Publish adds an event to the run's history and offers it to the         *)
(* channel of each listener; a channel that is full misses it.  Subscribe  *)
(* returns the history so far and a new channel.  Both hold the broker's   *)
(* mutex, so each is one step.  A listener writes the history, then what   *)
(* its channel gives, until the channel is closed or its client is gone.   *)
(*                                                                         *)
(* Events are numbered in the order in which they are published.           *)
(***************************************************************************)
EXTENDS Naturals, Sequences

CONSTANTS
    Listener,   \* the requests that watch the run
    Capacity,   \* the buffer of a channel: 64 in the code
    MaxEvents   \* bound on the events of a run

ASSUME CapacityAssumption == Capacity \in Nat \ {0}
ASSUME MaxEventsAssumption == MaxEvents \in Nat \ {0}

VARIABLES
    rowEnded,   \* whether the run's row is complete or failed
    history,    \* runEvents.history: the numbers of the events
    closed,     \* runEvents.closed: the last event is done or failed
    subs,       \* runEvents.subs: the listeners whose channel is in the map
    open,       \* the listeners whose channel is open
    buffer,     \* what each channel holds
    pc,         \* where each listener is
    pending,    \* the history each listener has still to write
    got,        \* what each listener has written to its client
    missed,     \* history: the events that a full channel missed
    panicked    \* whether a send or a close met a closed channel

broker == <<history, closed, subs>>
channels == <<open, buffer>>
listeners == <<pc, pending, got>>
brokerVars == <<rowEnded, broker, channels, listeners, missed, panicked>>

Event == 1 .. MaxEvents

\* A row that ended is one event, which is not in the history.
Final == 0

Steps == {"idle", "asked", "stream", "ended", "gone"}

BrokerInit ==
    /\ rowEnded = FALSE
    /\ history = << >>
    /\ closed = FALSE
    /\ subs = {}
    /\ open = {}
    /\ buffer = [l \in Listener |-> << >>]
    /\ pc = [l \in Listener |-> "idle"]
    /\ pending = [l \in Listener |-> << >>]
    /\ got = [l \in Listener |-> << >>]
    /\ missed = [l \in Listener |-> {}]
    /\ panicked = FALSE

-----------------------------------------------------------------------------
(* The run. *)

\* The run's row ends before its last event is published.
EndRow ==
    /\ ~rowEnded
    /\ rowEnded' = TRUE
    /\ UNCHANGED <<broker, channels, listeners, missed, panicked>>

Full(l) == Len(buffer[l]) >= Capacity

\* An event is offered to every channel in the map.
Offer(e) ==
    /\ buffer' = [l \in Listener |->
                    IF l \in subs /\ ~Full(l) THEN Append(buffer[l], e) ELSE buffer[l]]
    /\ missed' = [l \in Listener |->
                    IF l \in subs /\ Full(l) THEN missed[l] \cup {e} ELSE missed[l]]
    /\ panicked' = (panicked \/ subs \ open # {})

\* Mutant: Publish does not look at closed.
PublishAlways ==
    /\ Len(history) < MaxEvents
    /\ history' = Append(history, Len(history) + 1)
    /\ Offer(Len(history) + 1)
    /\ UNCHANGED <<rowEnded, closed, subs, open, listeners>>

\* Publish of a stage or progress event, by any goroutine of the run.  One
\* event is left for the end.
Publish ==
    /\ ~closed
    /\ Len(history) + 1 < MaxEvents
    /\ history' = Append(history, Len(history) + 1)
    /\ Offer(Len(history) + 1)
    /\ UNCHANGED <<rowEnded, closed, subs, open, listeners>>

\* Mutant: the last event does not close the channels.
PublishEndLeavesOpen ==
    /\ rowEnded
    /\ ~closed
    /\ history' = Append(history, Len(history) + 1)
    /\ Offer(Len(history) + 1)
    /\ closed' = TRUE
    /\ UNCHANGED <<rowEnded, subs, open, listeners>>

\* Publish of done or failed: every channel is closed, and the map is dropped.
PublishEnd ==
    /\ rowEnded
    /\ ~closed
    /\ history' = Append(history, Len(history) + 1)
    /\ Offer(Len(history) + 1)
    /\ closed' = TRUE
    /\ open' = open \ subs
    /\ subs' = {}
    /\ UNCHANGED <<rowEnded, listeners>>

-----------------------------------------------------------------------------
(* A listener: RunEvents and WriteEvents. *)

\* RunEvents reads the run's row.  A run that ended gives its last event alone.
ReadRow(l) ==
    /\ pc[l] = "idle"
    /\ IF rowEnded
         THEN /\ got' = [got EXCEPT ![l] = <<Final>>]
              /\ pc' = [pc EXCEPT ![l] = "ended"]
         ELSE /\ pc' = [pc EXCEPT ![l] = "asked"]
              /\ UNCHANGED got
    /\ UNCHANGED <<rowEnded, broker, channels, pending, missed, panicked>>

\* Mutant: the history is read before the channel is in the map.
SubscribeInTwoSteps(l) ==
    /\ pc[l] = "asked"
    /\ pc' = [pc EXCEPT ![l] = "stream"]
    /\ \E n \in {Len(history), Len(history) - 1} \cap Nat :
         pending' = [pending EXCEPT ![l] = SubSeq(history, 1, n)]
    /\ subs' = IF closed THEN subs ELSE subs \cup {l}
    /\ open' = IF closed THEN open ELSE open \cup {l}
    /\ UNCHANGED <<rowEnded, history, closed, buffer, got, missed, panicked>>

\* Subscribe: the history, and a channel, which is closed when the run ended.
Subscribe(l) ==
    /\ pc[l] = "asked"
    /\ pc' = [pc EXCEPT ![l] = "stream"]
    /\ pending' = [pending EXCEPT ![l] = history]
    /\ subs' = IF closed THEN subs ELSE subs \cup {l}
    /\ open' = IF closed THEN open ELSE open \cup {l}
    /\ UNCHANGED <<rowEnded, history, closed, buffer, got, missed, panicked>>

WriteHistory(l) ==
    /\ pc[l] = "stream"
    /\ pending[l] # << >>
    /\ got' = [got EXCEPT ![l] = Append(@, Head(pending[l]))]
    /\ pending' = [pending EXCEPT ![l] = Tail(@)]
    /\ UNCHANGED <<rowEnded, broker, channels, pc, missed, panicked>>

WriteNext(l) ==
    /\ pc[l] = "stream"
    /\ pending[l] = << >>
    /\ buffer[l] # << >>
    /\ got' = [got EXCEPT ![l] = Append(@, Head(buffer[l]))]
    /\ buffer' = [buffer EXCEPT ![l] = Tail(@)]
    /\ UNCHANGED <<rowEnded, broker, open, pc, pending, missed, panicked>>

\* Mutant: cancel closes the channel without a look at the map.
CancelAlways(l) ==
    /\ panicked' = (panicked \/ l \notin open)
    /\ subs' = subs \ {l}
    /\ open' = open \ {l}

\* cancel: a channel that is still in the map leaves it and is closed.
Cancel(l) ==
    /\ panicked' = (panicked \/ (l \in subs /\ l \notin open))
    /\ subs' = subs \ {l}
    /\ open' = IF l \in subs THEN open \ {l} ELSE open

\* The channel is closed and empty: the stream ends, and cancel runs.
StreamEnds(l) ==
    /\ pc[l] = "stream"
    /\ pending[l] = << >>
    /\ buffer[l] = << >>
    /\ l \notin open
    /\ pc' = [pc EXCEPT ![l] = "ended"]
    /\ Cancel(l)
    /\ UNCHANGED <<rowEnded, history, closed, buffer, pending, got, missed>>

\* The client left: the context is done, or a write fails.
ClientLeaves(l) ==
    /\ pc[l] = "stream"
    /\ pc' = [pc EXCEPT ![l] = "gone"]
    /\ Cancel(l)
    /\ UNCHANGED <<rowEnded, history, closed, buffer, pending, got, missed>>

-----------------------------------------------------------------------------

ListenerStep(l) ==
    \/ ReadRow(l)
    \/ Subscribe(l)
    \/ WriteHistory(l)
    \/ WriteNext(l)
    \/ StreamEnds(l)

BrokerNext ==
    \/ EndRow
    \/ Publish
    \/ PublishEnd
    \/ \E l \in Listener : ListenerStep(l) \/ ClientLeaves(l)

BrokerSpec == BrokerInit /\ [][BrokerNext]_brokerVars

\* A run ends (ReviewQueue), and its last event follows; a listener writes
\* what it can.
FairSpec ==
    /\ BrokerSpec
    /\ WF_brokerVars(EndRow)
    /\ WF_brokerVars(PublishEnd)
    /\ \A l \in Listener : WF_brokerVars(ListenerStep(l))

-----------------------------------------------------------------------------
(* Properties. *)

\* Every variable has its type; no buffer is over its capacity; only a
\* listener that streams has a channel.
BrokerTypeOK ==
    /\ rowEnded \in BOOLEAN
    /\ history \in Seq(Event)
    /\ closed \in BOOLEAN
    /\ subs \subseteq Listener
    /\ open \subseteq {l \in Listener : pc[l] = "stream"}
    /\ buffer \in [Listener -> Seq(Event)]
    /\ \A l \in Listener : Len(buffer[l]) <= Capacity
    /\ pc \in [Listener -> Steps]
    /\ pending \in [Listener -> Seq(Event)]
    /\ got \in [Listener -> Seq(Event \cup {Final})]
    /\ missed \in [Listener -> SUBSET Event]
    /\ panicked \in BOOLEAN

\* No send and no close meets a closed channel, which would end the process:
\* Publish, Subscribe and cancel keep the map and the channels in step.
NoPanic == ~panicked

\* What a listener of a run wrote, will write, and finds in its channel.
Stream(l) == got[l] \o pending[l] \o buffer[l]

Events(s) == {s[i] : i \in 1 .. Len(s)}

InOrder(s) == \A i, j \in 1 .. Len(s) : i < j => s[i] < s[j]

\* A listener's stream is the history in order, without the events that its full
\* channel missed: none is lost, written twice or moved between the history and
\* the channel.  An event's number says when it was published.
NothingElseIsLost ==
    \A l \in Listener : pc[l] = "stream" =>
        /\ InOrder(Stream(l))
        /\ Events(Stream(l)) = Events(history) \ missed[l]

\* A listener whose channel was never full has written the whole history when
\* its stream ends, with the last event.
KeepingUpSeesTheEnd ==
    \A l \in Listener :
        pc[l] = "ended" /\ got[l] # <<Final>> /\ missed[l] = {} =>
            closed /\ got[l] = history

\* A stream that ended has written the last event: "a slow listener misses a
\* progress event, not the final one" (Publish).
EveryListenerSeesTheEnd ==
    \A l \in Listener :
        pc[l] = "ended" =>
            got[l] # << >> /\ got[l][Len(got[l])] \in {Final, Len(history)}

\* Every stream ends when the run does, or its client leaves.
StreamsEnd == \A l \in Listener : pc[l] = "stream" ~> pc[l] \in {"ended", "gone"}
=============================================================================
