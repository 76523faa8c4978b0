------------------------------- MODULE Approval -------------------------------
(***************************************************************************)
(* The status of one spec doc (internal/features/approval): a person asks  *)
(* for a review, reviewers approve the current version, each new version   *)
(* revokes the approvals of the older ones, and another doc supersedes it. *)
(*                                                                         *)
(* A command reads the doc, then decides and appends on the status stream  *)
(* in one step (EventStore implements AtomicStream).  After each new       *)
(* version the change's handler sweeps: it reads the status view, then the *)
(* doc's current version, and revokes.  Another handler may run between    *)
(* any two of these, and the pass of the handler may fail before or within *)
(* its sweep.                                                              *)
(*                                                                         *)
(* The reviewers' names and the times decide nothing and are left out.     *)
(***************************************************************************)
EXTENDS Naturals, FiniteSets

CONSTANTS
    Person,         \* the members who may approve
    Author,         \* the members who wrote the doc
    Editor,         \* the handlers that make new versions
    NoVersion,
    Required,       \* approvals.required of the doc's profile
    MaxVersions     \* bound on the versions

ASSUME AuthorAssumption == Author \subseteq Person
ASSUME RequiredAssumption == Required \in Nat
ASSUME MaxVersionsAssumption == MaxVersions \in Nat \ {0}
ASSUME NoVersionAssumption == NoVersion \notin Nat

VARIABLES
    head,       \* the current version
    ready,      \* whether Summary shows a current Build Ready verdict
    state,      \* the stream's state, which is the status view
    wants,      \* the version each person's approve command read, or NoVersion
    pc,         \* where each editor's sweep is
    swept,      \* the version each sweep read
    late,       \* history: what was under way, on what it read, at a new version
    missed      \* history: the last pass after a change ended before its sweep

approvalVars == <<head, ready, state, wants, pc, swept, late, missed>>

Version == 1 .. MaxVersions

Vote == [by : Person, version : Version]

State == [status : {"draft", "in_review", "approved", "superseded"},
          approvals : SUBSET Vote,
          approved : Version \cup {NoVersion}]

needed == IF Required = 0 THEN 1 ELSE Required

ApprovalsOf(s, v) == {a \in s.approvals : a.version = v}

-----------------------------------------------------------------------------
(* decide and evolve: the state after a command, or the same state when the  *)
(* command is refused or has nothing to say.                                 *)

\* DecideRequestReview, ReviewRequested.
RequestReviewOf(s) == IF s.status = "draft" THEN [s EXCEPT !.status = "in_review"] ELSE s

\* Mutant: a second approval of one person counts.
ApproveTwiceOf(s, p, v) ==
    IF \/ p \in Author
       \/ s.status # "in_review"
      THEN s
      ELSE LET enough == Cardinality(ApprovalsOf(s, v)) + 1 >= needed
           IN  [s EXCEPT !.approvals = @ \cup {[by |-> p, version |-> v]},
                         !.status = IF enough THEN "approved" ELSE @,
                         !.approved = IF enough THEN v ELSE @]

\* DecideApprove, ApprovalGiven: no author, only in review, each version once.
\* The command comes from Approve, which has seen a Build Ready verdict.
ApproveOf(s, p, v) ==
    IF \/ p \in Author
       \/ s.status # "in_review"
       \/ [by |-> p, version |-> v] \in s.approvals
      THEN s
      ELSE LET enough == Cardinality(ApprovalsOf(s, v)) + 1 >= needed
           IN  [s EXCEPT !.approvals = @ \cup {[by |-> p, version |-> v]},
                         !.status = IF enough THEN "approved" ELSE @,
                         !.approved = IF enough THEN v ELSE @]

Stale(s, v) == \E a \in s.approvals : a.version # v

\* Mutant: no approval stays.
ContentChangedDropsAllOf(s, v) ==
    IF (~Stale(s, v) /\ s.status # "approved") \/ s.approved = v
      THEN s
      ELSE [s EXCEPT !.approvals = {},
                     !.status = IF @ = "approved" THEN "in_review" ELSE @,
                     !.approved = NoVersion]

\* DecideContentChanged, ApprovalsRevoked: only the approvals of v stay.
ContentChangedOf(s, v) ==
    IF (~Stale(s, v) /\ s.status # "approved") \/ s.approved = v
      THEN s
      ELSE [s EXCEPT !.approvals = ApprovalsOf(s, v),
                     !.status = IF @ = "approved" THEN "in_review" ELSE @,
                     !.approved = NoVersion]

\* DecideSupersede, Superseded.
SupersedeOf(s) == [s EXCEPT !.status = "superseded"]

-----------------------------------------------------------------------------

ApprovalInit ==
    /\ head = 1
    /\ ready \in BOOLEAN
    /\ state = [status |-> "draft", approvals |-> {}, approved |-> NoVersion]
    /\ wants = [p \in Person |-> NoVersion]
    /\ pc = [e \in Editor |-> "idle"]
    /\ swept = [e \in Editor |-> NoVersion]
    /\ late = {}
    /\ missed = FALSE

RequestReview ==
    /\ state.status = "draft"
    /\ state' = RequestReviewOf(state)
    /\ UNCHANGED <<head, ready, wants, pc, swept, late, missed>>

\* ApproveBundle reads the doc, then its verdict: approveCommand.
Approve(p) ==
    /\ wants[p] = NoVersion
    /\ ready
    /\ wants' = [wants EXCEPT ![p] = head]
    /\ UNCHANGED <<head, ready, state, pc, swept, late, missed>>

\* Then the command is decided on the stream.
DecideApprove(p) ==
    /\ wants[p] # NoVersion
    /\ state' = ApproveOf(state, p, wants[p])
    /\ wants' = [wants EXCEPT ![p] = NoVersion]
    /\ UNCHANGED <<head, ready, pc, swept, late, missed>>

\* A review or a lint pass gives another verdict.
Review ==
    /\ ready' = ~ready
    /\ UNCHANGED <<head, state, wants, pc, swept, late, missed>>

Late == {"approval", "sweep"}

\* A new version: the verdict that is shown is stale until it is linted.
Edit(e) ==
    /\ pc[e] = "idle"
    /\ head < MaxVersions
    /\ head' = head + 1
    /\ ready' = FALSE
    /\ pc' = [pc EXCEPT ![e] = "changed"]
    /\ late' = late \cup {what \in Late :
         CASE what = "approval" -> \E p \in Person : wants[p] # NoVersion
           [] what = "sweep" -> \E f \in Editor : pc[f] = "revoke"}
    /\ UNCHANGED <<state, wants, swept, missed>>

\* Mutant: the sweep passes over the docs that are approved.
ListStatusInReviewOnly(e) ==
    /\ pc[e] = "changed"
    /\ IF state.approvals = {} \/ state.status = "approved"
         THEN pc' = [pc EXCEPT ![e] = "idle"] /\ UNCHANGED swept
         ELSE pc' = [pc EXCEPT ![e] = "revoke"] /\ swept' = [swept EXCEPT ![e] = head]
    /\ missed' = FALSE
    /\ UNCHANGED <<head, ready, state, wants, late>>

\* OnNewVersions: a doc with no approvals that is not approved is passed over;
\* of another one the current version is read.
ListStatus(e) ==
    /\ pc[e] = "changed"
    /\ IF state.approvals = {} /\ state.status # "approved"
         THEN pc' = [pc EXCEPT ![e] = "idle"] /\ UNCHANGED swept
         ELSE pc' = [pc EXCEPT ![e] = "revoke"] /\ swept' = [swept EXCEPT ![e] = head]
    /\ missed' = FALSE
    /\ UNCHANGED <<head, ready, state, wants, late>>

\* es.Run with DecideContentChanged.
Revoke(e) ==
    /\ pc[e] = "revoke"
    /\ state' = ContentChangedOf(state, swept[e])
    /\ pc' = [pc EXCEPT ![e] = "idle"]
    /\ swept' = [swept EXCEPT ![e] = NoVersion]
    /\ UNCHANGED <<head, ready, wants, late, missed>>

\* The lint of some doc, the sweep of the waivers or a statement fails, or the
\* process stops: what comes after it in the pass is not done for any doc, and the
\* version stays.
PassFails(e) ==
    /\ pc[e] # "idle"
    /\ pc' = [pc EXCEPT ![e] = "idle"]
    /\ swept' = [swept EXCEPT ![e] = NoVersion]
    /\ missed' = TRUE
    /\ UNCHANGED <<head, ready, state, wants, late>>

\* A supersedes link of another doc, found by any sweep.
Supersede ==
    /\ state' = SupersedeOf(state)
    /\ UNCHANGED <<head, ready, wants, pc, swept, late, missed>>

ApprovalNext ==
    \/ RequestReview
    \/ Review
    \/ Supersede
    \/ \E p \in Person : Approve(p) \/ DecideApprove(p)
    \/ \E e \in Editor : Edit(e) \/ ListStatus(e) \/ Revoke(e) \/ PassFails(e)

ApprovalSpec == ApprovalInit /\ [][ApprovalNext]_approvalVars

-----------------------------------------------------------------------------
(* Properties. *)

\* Every variable has its type.
ApprovalTypeOK ==
    /\ head \in Version
    /\ ready \in BOOLEAN
    /\ state \in State
    /\ wants \in [Person -> Version \cup {NoVersion}]
    /\ pc \in [Editor -> {"idle", "changed", "revoke"}]
    /\ swept \in [Editor -> Version \cup {NoVersion}]
    /\ \A e \in Editor : pc[e] = "revoke" => swept[e] \in Version
    /\ late \subseteq Late
    /\ missed \in BOOLEAN

enough(v) ==
    Cardinality({p \in Person \ Author : [by |-> p, version |-> v] \in state.approvals}) >= needed

\* A version has the approvals that the profile asks for, of as many people who
\* are no authors, exactly when it is the approved version of the doc
\* (DecideApprove, T-012), and a doc that is approved has one: nothing that the
\* sweeps and the approvals do in their turns leaves a doc approved with too
\* few approvals, or in review with enough.
ApprovedWithEnough ==
    /\ \A v \in Version : enough(v) <=> state.approved = v
    /\ state.status = "approved" => state.approved # NoVersion
    /\ state.status \in {"draft", "in_review"} => state.approved = NoVersion

sweepsDone == \A e \in Editor : pc[e] = "idle"

\* "ApproveBundle approves the current version (REQ-076)", and a new version
\* revokes the approvals of older ones (REQ-077): when the passes are done, an
\* approved doc is approved for its current version, in whatever order the passes
\* of several changes ran, and a pass that failed is made up for by the sweep of
\* the next one.  This needs that no approval was under way, on the version it
\* read, at a new version.
ApprovedIsCurrent ==
    sweepsDone /\ ~missed /\ state.status = "approved" /\ "approval" \notin late
        => state.approved = head

\* An approval of the current version is never revoked: only a newer version
\* ends it (DecideContentChanged).  This needs that no sweep was under way, on
\* the version it read, at a new version.
CurrentApprovalStays ==
    [][\A a \in state.approvals :
         a.version = head /\ head' = head /\ "sweep" \notin late
            => a \in state'.approvals]_approvalVars
=============================================================================
