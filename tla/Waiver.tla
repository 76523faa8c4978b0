------------------------------- MODULE Waiver -------------------------------
(***************************************************************************)
(* The waiver aggregate of internal/features/waiver/waiver.go: what each   *)
(* command decides, and how each event changes the state.  decide and      *)
(* evolve are pure in the code, and are operators here.                    *)
(*                                                                         *)
(* A reason is represented by the longest of the code's two minimum        *)
(* lengths that it reaches: "long", "short" (enough for Not needed), or    *)
(* "none".                                                                 *)
(***************************************************************************)
EXTENDS Naturals, Sequences

CONSTANTS
    User,       \* the people
    Speccy,     \* the actor of the approvals that Speccy records itself
    NoUser,
    MaxNeeded   \* bound: the largest N of an n_approvals policy

ASSUME UserAssumption == Speccy \notin User /\ NoUser \notin User \cup {Speccy}
ASSUME MaxNeededAssumption == MaxNeeded \in Nat

Scopes == {"check", "verify", "trace", "standalone", "upstream_change", "send_back",
           "not_needed"}

Statuses == {"none", "requested", "approved", "rejected", "invalidated", "withdrawn"}

Reasons == {"none", "short", "long"}

Endings == {"section_changed", "check_passed", "check_changed", "sent_back",
            "conflict_closed"}

Policy == [name : {"any_member", "non_author", "n_approvals", "maintainer", "forbidden"},
           n : 0 .. MaxNeeded]

\* Who acts on a waiver, and their relation to the bundle and its profile.
Approver == [user : User, author : BOOLEAN, maintainer : BOOLEAN, admin : BOOLEAN]

Request == [scope : Scopes, policy : Policy, by : User, alone : BOOLEAN,
            reason : Reasons, fork : BOOLEAN]

State == [status : Statuses, scope : Scopes, policy : Policy,
          requestedBy : User \cup {NoUser},
          approvals : Seq(User \cup {Speccy}),
          decidedBy : User \cup {Speccy, NoUser},
          withdrawnBy : User \cup {NoUser},
          endedBecause : Endings \cup {"none"}]

NoWaiver == [status |-> "none", scope |-> "check",
             policy |-> [name |-> "forbidden", n |-> 0],
             requestedBy |-> NoUser, approvals |-> << >>, decidedBy |-> NoUser,
             withdrawnBy |-> NoUser, endedBecause |-> "none"]

-----------------------------------------------------------------------------
(* Events. *)

Requested(r) == [type |-> "WaiverRequested", request |-> r]
Approved(u, final) == [type |-> "WaiverApproved", by |-> u, final |-> final]
Rejected(u) == [type |-> "WaiverRejected", by |-> u]
Invalidated(why) == [type |-> "WaiverInvalidated", why |-> why]
Restored == [type |-> "WaiverRestored"]
Withdrawn(u) == [type |-> "WaiverWithdrawn", by |-> u]

AfterRequested(r) ==
    [NoWaiver EXCEPT !.status = "requested", !.scope = r.scope, !.policy = r.policy,
                     !.requestedBy = r.by]

AfterApproved(s, e) ==
    IF e.final
      THEN [s EXCEPT !.approvals = Append(@, e.by), !.status = "approved",
                     !.decidedBy = e.by]
      ELSE [s EXCEPT !.approvals = Append(@, e.by)]

AfterInvalidated(s, e) == [s EXCEPT !.status = "invalidated", !.endedBecause = e.why]

\* Mutant: a restored waiver is a new decision.
AfterRestoredDecides(s) ==
    [s EXCEPT !.status = "approved", !.endedBecause = "none", !.decidedBy = Speccy]

AfterRestored(s) == [s EXCEPT !.status = "approved", !.endedBecause = "none"]

Evolve(s, e) ==
    CASE e.type = "WaiverRequested"   -> AfterRequested(e.request)
      [] e.type = "WaiverApproved"    -> AfterApproved(s, e)
      [] e.type = "WaiverRejected"    -> [s EXCEPT !.status = "rejected", !.decidedBy = e.by]
      [] e.type = "WaiverInvalidated" -> AfterInvalidated(s, e)
      [] e.type = "WaiverRestored"    -> AfterRestored(s)
      [] e.type = "WaiverWithdrawn"   -> [s EXCEPT !.status = "withdrawn", !.withdrawnBy = e.by]

\* A decision is refused (no event), one event, or a request with its approval.
EvolveAll(s, events) ==
    CASE Len(events) = 0 -> s
      [] Len(events) = 1 -> Evolve(s, events[1])
      [] Len(events) = 2 -> Evolve(Evolve(s, events[1]), events[2])

-----------------------------------------------------------------------------
(* Decisions. *)

conflictDecision(scope) == scope \in {"upstream_change", "send_back"}

Acknowledgement(scope) == scope \in {"trace", "standalone"}

ReasonIsEnough(r) ==
    IF r.scope = "not_needed" THEN r.fork /\ r.reason # "none" ELSE r.reason = "long"

\* Not needed is always the author's own answer.  The requester decides an
\* Acknowledgement, and any waiver in local mode, except the answers to a conflict.
DecidedAlone(r) == r.scope = "not_needed" \/ (r.alone /\ ~conflictDecision(r.scope))

DecideRequest(s, r) ==
    IF s.status = "none" /\ r.policy.name # "forbidden" /\ ReasonIsEnough(r)
      THEN IF DecidedAlone(r)
             THEN <<Requested(r), Approved(r.by, TRUE)>>
             ELSE <<Requested(r)>>
      ELSE << >>

\* An Acknowledgement that waits from before they closed at once.
DecideNoLongerNeeded(s) ==
    IF s.status = "requested" /\ Acknowledgement(s.scope)
      THEN <<Approved(Speccy, TRUE)>>
      ELSE << >>

CanApprove(p, a) ==
    \/ p.name = "any_member"
    \/ p.name \in {"non_author", "n_approvals"} /\ ~a.author
    \/ p.name = "maintainer" /\ (a.maintainer \/ a.admin)

needed(p) == IF p.name = "n_approvals" /\ p.n > 1 THEN p.n ELSE 1

HasApproved(s, u) == \E i \in 1 .. Len(s.approvals) : s.approvals[i] = u

\* Mutant: a person may approve twice.
DecideApproveTwice(s, a) ==
    IF s.status = "requested" /\ CanApprove(s.policy, a)
      THEN <<Approved(a.user, Len(s.approvals) + 1 >= needed(s.policy))>>
      ELSE << >>

\* It is final when the approvals reach the policy.
DecideApprove(s, a) ==
    IF s.status = "requested" /\ CanApprove(s.policy, a) /\ ~HasApproved(s, a.user)
      THEN <<Approved(a.user, Len(s.approvals) + 1 >= needed(s.policy))>>
      ELSE << >>

DecideReject(s, a, reason) ==
    IF s.status = "requested" /\ CanApprove(s.policy, a) /\ reason = "long"
      THEN <<Rejected(a.user)>>
      ELSE << >>

DecideInvalidate(s, holds, why) ==
    IF s.status = "approved" /\ ~holds THEN <<Invalidated(why)>> ELSE << >>

\* Mutant: any ended waiver comes back, a rejected or withdrawn one too.
DecideRestoreAnyEnded(s, holds, inSidecar) ==
    IF s.status \in {"invalidated", "rejected", "withdrawn"} /\ holds /\ inSidecar
      THEN <<Restored>> ELSE << >>

DecideRestore(s, holds, inSidecar) ==
    IF s.status = "invalidated" /\ holds /\ inSidecar THEN <<Restored>> ELSE << >>

DecideWithdraw(s, u) ==
    IF Acknowledgement(s.scope) /\ s.status = "approved" THEN <<Withdrawn(u)>> ELSE << >>
=============================================================================
