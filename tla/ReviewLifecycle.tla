--------------------------- MODULE ReviewLifecycle ---------------------------
(***************************************************************************)
(* What the review service of internal/features/review promises about the  *)
(* full reviews of a workspace: a review is queued, runs, and ends once,   *)
(* complete or failed; and a doc has one queued or running review at most. *)
(***************************************************************************)
EXTENDS Naturals

CONSTANTS
    Run,        \* the reviews
    Doc,        \* the spec docs
    NoDoc       \* the doc of a review that does not exist yet

VARIABLES
    status,     \* review_run.status of each review
    docOf       \* the doc of each review

vars == <<status, docOf>>

Active == {"queued", "running"}

ActiveOf(d) == {r \in Run : docOf[r] = d /\ status[r] \in Active}

Init ==
    /\ status = [r \in Run |-> "none"]
    /\ docOf = [r \in Run |-> NoDoc]

Start(r, d) ==
    /\ status[r] = "none"
    /\ ActiveOf(d) = {}
    /\ status' = [status EXCEPT ![r] = "queued"]
    /\ docOf' = [docOf EXCEPT ![r] = d]

Move(r, from, to) ==
    /\ status[r] \in from
    /\ status' = [status EXCEPT ![r] = to]
    /\ UNCHANGED docOf

Next ==
    \E r \in Run :
        \/ \E d \in Doc : Start(r, d)
        \/ Move(r, {"queued"}, "running")
        \/ Move(r, {"running"}, "complete")
        \/ Move(r, Active, "failed")

Spec == Init /\ [][Next]_vars
=============================================================================
