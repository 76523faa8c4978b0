---------------------------- MODULE AtomicStream ----------------------------
(***************************************************************************)
(* What the event store promises to an aggregate (internal/es): a call of  *)
(* Run takes effect at one instant.  At that instant the caller decides a  *)
(* batch of events from the whole stream, and the batch becomes the end of *)
(* the stream.  A call that fails leaves the stream alone, except a call   *)
(* whose commit is in doubt, which may have taken effect.                  *)
(***************************************************************************)
EXTENDS Sequences

CONSTANTS
    Writer,     \* the callers of Run
    Batch       \* the non-empty sequences of events one decision may return

VARIABLES
    stream,     \* the events of the stream, in version order
    calls,      \* for each writer, whether a call of Run is open
    effects     \* history: each decision with the stream it was made from

vars == <<stream, calls, effects>>

Init ==
    /\ stream = << >>
    /\ calls = [w \in Writer |-> "closed"]
    /\ effects = << >>

Open(w) ==
    /\ calls[w] = "closed"
    /\ calls' = [calls EXCEPT ![w] = "open"]
    /\ UNCHANGED <<stream, effects>>

\* The call takes effect and closes, whether its caller learns of it or not.
TakeEffect(w) ==
    /\ calls[w] = "open"
    /\ \E b \in Batch :
        /\ stream' = stream \o b
        /\ effects' = Append(effects, [base |-> stream, batch |-> b])
    /\ calls' = [calls EXCEPT ![w] = "closed"]

\* A refused, failed or abandoned call.
CloseWithoutEffect(w) ==
    /\ calls[w] = "open"
    /\ calls' = [calls EXCEPT ![w] = "closed"]
    /\ UNCHANGED <<stream, effects>>

Next ==
    \E w \in Writer : Open(w) \/ TakeEffect(w) \/ CloseWithoutEffect(w)

Spec == Init /\ [][Next]_vars
=============================================================================
