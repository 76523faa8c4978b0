---------------------------- MODULE WaiverStream ----------------------------
(***************************************************************************)
(* One waiver stream under every order of commands.  A command runs in     *)
(* es.Run, which takes effect at one instant (EventStore implements        *)
(* AtomicStream), so each command is one step here: decide on the current  *)
(* state, and evolve.  Authorship and roles may change between commands,   *)
(* so each command comes with its own relation of the actor to the bundle. *)
(***************************************************************************)
EXTENDS Waiver

VARIABLES
    waiver,     \* the state of the stream
    request,    \* history: the request that opened it
    signed      \* history: the approvers who approved, as they then were

streamVars == <<waiver, request, signed>>

NoRequest == [scope |-> "check", policy |-> NoWaiver.policy, by |-> NoUser,
              alone |-> FALSE, reason |-> "none", fork |-> FALSE]

StreamInit ==
    /\ waiver = NoWaiver
    /\ request = NoRequest
    /\ signed = << >>

\* A command with no event appends nothing.
Record(events) ==
    /\ events # << >>
    /\ waiver' = EvolveAll(waiver, events)

\* Only local mode makes a verification waiver or a waiver of a check alone;
\* an Acknowledgement is always alone.
RequestWaiver(r) ==
    /\ Record(DecideRequest(waiver, r))
    /\ request' = r
    /\ UNCHANGED signed

ApproveWaiver(a) ==
    /\ Record(DecideApprove(waiver, a))
    /\ signed' = Append(signed, a)
    /\ UNCHANGED request

RejectWaiver(a, reason) ==
    /\ Record(DecideReject(waiver, a, reason))
    /\ UNCHANGED <<request, signed>>

\* The sweep skips an Acknowledgement and a send-back.
Invalidate(holds, why) ==
    /\ ~Acknowledgement(waiver.scope)
    /\ waiver.scope # "send_back"
    /\ Record(DecideInvalidate(waiver, holds, why))
    /\ UNCHANGED <<request, signed>>

\* The sweep brings back only waivers of a check.
Restore(holds, inSidecar) ==
    /\ waiver.scope = "check"
    /\ Record(DecideRestore(waiver, holds, inSidecar))
    /\ UNCHANGED <<request, signed>>

WithdrawAcknowledgement(u) ==
    /\ Record(DecideWithdraw(waiver, u))
    /\ UNCHANGED <<request, signed>>

ApproveWaitingAcknowledgement ==
    /\ Record(DecideNoLongerNeeded(waiver))
    /\ UNCHANGED <<request, signed>>

StreamNext ==
    \/ \E r \in Request : RequestWaiver(r)
    \/ \E a \in Approver : ApproveWaiver(a)
    \/ \E a \in Approver, reason \in Reasons : RejectWaiver(a, reason)
    \/ \E holds \in BOOLEAN, why \in Endings : Invalidate(holds, why)
    \/ \E holds, inSidecar \in BOOLEAN : Restore(holds, inSidecar)
    \/ \E u \in User : WithdrawAcknowledgement(u)
    \/ ApproveWaitingAcknowledgement

StreamSpec == StreamInit /\ [][StreamNext]_streamVars

-----------------------------------------------------------------------------
(* Properties. *)

StreamTypeOK ==
    /\ waiver \in State
    /\ request \in Request \cup {NoRequest}
    /\ signed \in Seq(Approver)

\* A waiver that was ever approved met its policy: its requester was entitled to
\* decide alone, or Speccy closed an Acknowledgement, or as many different
\* people as the policy needs approved, each of whom the policy let approve at
\* that moment (no author under non_author and n_approvals, SDD 9.1).
PolicyMet ==
    waiver.status \in {"approved", "invalidated", "withdrawn"} =>
        \/ DecidedAlone(request) /\ waiver.decidedBy = request.by
        \/ Acknowledgement(waiver.scope) /\ waiver.decidedBy = Speccy
        \/ /\ Len(signed) = needed(waiver.policy)
           /\ \A i, j \in 1 .. Len(signed) : i # j => signed[i].user # signed[j].user
           /\ waiver.policy.name \in {"non_author", "n_approvals"} =>
                \A i \in 1 .. Len(signed) : ~signed[i].author
           /\ waiver.policy.name = "maintainer" =>
                \A i \in 1 .. Len(signed) : signed[i].maintainer \/ signed[i].admin

\* A rejection and a withdrawal are final: no later command, sweep or approval
\* in flight brings the waiver back.
FinalStaysFinal ==
    [][waiver.status \in {"rejected", "withdrawn"} => waiver' = waiver]_streamVars

\* What was decided, and by whom, outlives every end and every restoration.
DecisionIsKept ==
    [][waiver.decidedBy # NoUser =>
        /\ waiver'.decidedBy = waiver.decidedBy
        /\ waiver'.approvals = waiver.approvals
        /\ waiver'.policy = waiver.policy]_streamVars
=============================================================================
