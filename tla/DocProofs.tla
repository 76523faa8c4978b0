--------------------------------- MODULE DocProofs -----------------------------
(***************************************************************************)
(* Proofs about what people do with a doc: they approve it (Approval), and *)
(* ask in its threads (ThreadAnswer).  The two share no variable.          *)
(***************************************************************************)
EXTENDS Approval, ThreadAnswer, FunctionTheorems, SequenceTheorems, FiniteSetTheorems, TLAPS

-----------------------------------------------------------------------------
(***************************************************************************)
(* Proofs about Approval for any people, authors, editors and number of    *)
(* approvals asked for.                                                    *)
(*                                                                         *)
(* DecideApprove counts votes, ApprovedWithEnough counts people who are no *)
(* authors: the two numbers are the same because no author has a vote and  *)
(* no person has two votes of one version.  That makes ApprovedWithEnough  *)
(* inductive.  The other two properties need to know what a sweep that is  *)
(* under way will do, which Pending and SweptAtHead say.                   *)
(***************************************************************************)

Voters(s, v) == {p \in Person \ Author : [by |-> p, version |-> v] \in s.approvals}

\* A state whose votes are finitely many and none of an author.
GoodVotes(s) ==
    /\ s \in State
    /\ IsFiniteSet(s.approvals)
    /\ \A a \in s.approvals : a.by \notin Author

\* ApprovedWithEnough, as a predicate on a state of the stream.
Counted(s) ==
    /\ \A v \in Version : Cardinality(Voters(s, v)) >= needed <=> s.approved = v
    /\ s.status = "approved" => s.approved # NoVersion
    /\ s.status \in {"draft", "in_review"} => s.approved = NoVersion

StateInv == ApprovalTypeOK /\ GoodVotes(state) /\ Counted(state)

\* While no sweep met a new version, a sweep revokes for the current version.
SweptAtHead == \A e \in Editor : pc[e] = "revoke" /\ "sweep" \notin late => swept[e] = head

\* While no approval met a new version, each approval under way is of the
\* current version; and unless a pass has failed since the last sweep, a doc that
\* is approved for an older one has a sweep to come that will see it.
Pending ==
    "approval" \notin late =>
        /\ \A p \in Person : wants[p] \in {NoVersion, head}
        /\ ~missed /\ state.status = "approved" /\ state.approved # head =>
              \E e \in Editor : \/ pc[e] = "changed"
                                \/ pc[e] = "revoke" /\ swept[e] # state.approved

ApprovalInv == StateInv /\ SweptAtHead /\ Pending
-----------------------------------------------------------------------------
(* Counting votes. *)

LEMMA NeededIsPositive == needed \in Nat /\ needed >= 1
BY RequiredAssumption DEF needed

LEMMA NoVersionIsNoVersion == NoVersion \notin Version
BY NoVersionAssumption DEF Version

\* Votes of one version and the people who gave them are as many.
LEMMA VotesCounted ==
    ASSUME NEW s, GoodVotes(s), NEW v \in Version
    PROVE  /\ IsFiniteSet(ApprovalsOf(s, v))
           /\ IsFiniteSet(Voters(s, v))
           /\ Cardinality(ApprovalsOf(s, v)) = Cardinality(Voters(s, v))
           /\ Cardinality(Voters(s, v)) \in Nat
<1> DEFINE A == ApprovalsOf(s, v)
           P == Voters(s, v)
           voter == [a \in A |-> a.by]
<1>1. IsFiniteSet(A)
  <2>1. A \in SUBSET s.approvals
    BY DEF ApprovalsOf
  <2> QED
    BY <2>1, FS_Subset DEF GoodVotes
<1>2. \A a \in A : a \in Vote /\ a = [by |-> a.by, version |-> v] /\ a.by \in P
  <2> SUFFICES ASSUME NEW a \in A PROVE a \in Vote /\ a = [by |-> a.by, version |-> v] /\ a.by \in P
    OBVIOUS
  <2>1. a \in Vote /\ a.version = v /\ a \in s.approvals
    BY DEF ApprovalsOf, GoodVotes, State
  <2>2. a = [by |-> a.by, version |-> v]
    BY <2>1 DEF Vote
  <2>3. a.by \in Person \ Author
    BY <2>1 DEF GoodVotes, Vote
  <2> QED
    BY <2>1, <2>2, <2>3 DEF Voters
<1>3. \A p \in P : \E a \in A : voter[a] = p
  <2> SUFFICES ASSUME NEW p \in P PROVE \E a \in A : voter[a] = p
    OBVIOUS
  <2>1. [by |-> p, version |-> v] \in A
    BY DEF Voters, ApprovalsOf
  <2> QED
    BY <2>1
<1>4. ExistsBijection(A, P)
  <2>1. voter \in [A -> P]
    BY <1>2
  <2>2. \A a, b \in A : voter[a] = voter[b] => a = b
    <3> SUFFICES ASSUME NEW a \in A, NEW b \in A, voter[a] = voter[b] PROVE a = b
      OBVIOUS
    <3>1. a.by = b.by
      OBVIOUS
    <3> QED
      BY <1>2, <3>1
  <2>3. voter \in Bijection(A, P)
    <3> HIDE DEF voter, A, P
    <3> QED
      BY <1>3, <2>1, <2>2, Fun_IsBij
  <2> HIDE DEF voter, A, P
  <2> QED
    BY <2>3, Fun_ExistsBij
<1>5. IsFiniteSet(P) /\ Cardinality(P) = Cardinality(A)
  <2> HIDE DEF A, P
  <2> QED
    BY <1>1, <1>4, FS_Bijection
<1> QED
  BY <1>1, <1>5, FS_CardinalityType

-----------------------------------------------------------------------------
(* Each command keeps the votes good and counted. *)

LEMMA RequestReviewKeeps ==
    ASSUME NEW s, GoodVotes(s), Counted(s)
    PROVE  LET t == RequestReviewOf(s) IN GoodVotes(t) /\ Counted(t)
<1> DEFINE t == RequestReviewOf(s)
<1>1. /\ t \in State
      /\ t.approvals = s.approvals
      /\ t.approved = s.approved
      /\ t.status # s.status => s.status = "draft" /\ t.status = "in_review"
  BY DEF RequestReviewOf, GoodVotes, State
<1>2. \A v \in Version : Voters(t, v) = Voters(s, v)
  BY <1>1 DEF Voters
<1> QED
  BY <1>1, <1>2 DEF GoodVotes, Counted

LEMMA SupersedeKeeps ==
    ASSUME NEW s, GoodVotes(s), Counted(s)
    PROVE  LET t == SupersedeOf(s) IN GoodVotes(t) /\ Counted(t)
<1> DEFINE t == SupersedeOf(s)
<1>1. /\ t \in State
      /\ t.approvals = s.approvals
      /\ t.approved = s.approved
      /\ t.status = "superseded"
  BY DEF SupersedeOf, GoodVotes, State
<1>2. \A v \in Version : Voters(t, v) = Voters(s, v)
  BY <1>1 DEF Voters
<1> QED
  BY <1>1, <1>2 DEF GoodVotes, Counted

\* The vote is one more for its version, and nothing for another one.
LEMMA ApproveKeeps ==
    ASSUME NEW s, GoodVotes(s), Counted(s), NEW p \in Person, NEW v \in Version
    PROVE  LET t == ApproveOf(s, p, v) IN GoodVotes(t) /\ Counted(t)
<1> DEFINE t == ApproveOf(s, p, v)
           vote == [by |-> p, version |-> v]
<1> SUFFICES GoodVotes(t) /\ Counted(t)
  OBVIOUS
<1>1. CASE p \in Author \/ s.status # "in_review" \/ vote \in s.approvals
  <2>1. t = s
    BY <1>1 DEF ApproveOf
  <2> QED
    BY <2>1
<1>2. CASE p \notin Author /\ s.status = "in_review" /\ vote \notin s.approvals
  <2> DEFINE more == Cardinality(ApprovalsOf(s, v)) + 1 >= needed
  <2>1. /\ t \in State
        /\ t.approvals = s.approvals \cup {vote}
        /\ t.approved = IF more THEN v ELSE s.approved
        /\ t.status = IF more THEN "approved" ELSE "in_review"
    <3>1. t = [s EXCEPT !.approvals = s.approvals \cup {vote},
                        !.status = IF more THEN "approved" ELSE s.status,
                        !.approved = IF more THEN v ELSE s.approved]
      BY <1>2 DEF ApproveOf
    <3>2. s \in State /\ vote \in Vote
      BY DEF GoodVotes, Vote
    <3> HIDE DEF vote, more, t
    <3> QED
      BY <1>2, <3>1, <3>2 DEF State
  <2>2. GoodVotes(t)
    <3>1. IsFiniteSet(t.approvals)
      BY <2>1, FS_AddElement DEF GoodVotes
    <3>2. vote.by \notin Author
      BY <1>2
    <3> QED
      BY <2>1, <3>1, <3>2 DEF GoodVotes
  <2>3. s.approved = NoVersion
    BY <1>2 DEF Counted
  <2>4. \A w \in Version : ~(Cardinality(Voters(s, w)) >= needed)
    BY <2>3, NoVersionIsNoVersion DEF Counted
  <2>5. Voters(t, v) = Voters(s, v) \cup {p} /\ p \notin Voters(s, v)
    BY <1>2, <2>1 DEF Voters
  <2>6. Cardinality(Voters(t, v)) = Cardinality(ApprovalsOf(s, v)) + 1
    <3>1. IsFiniteSet(Voters(s, v)) /\ Cardinality(ApprovalsOf(s, v)) = Cardinality(Voters(s, v))
      BY VotesCounted
    <3> QED
      BY <2>5, <3>1, FS_AddElement
  <2>7. \A w \in Version \ {v} : Voters(t, w) = Voters(s, w)
    <3> SUFFICES ASSUME NEW w \in Version \ {v} PROVE Voters(t, w) = Voters(s, w)
      OBVIOUS
    <3>1. \A q : [by |-> q, version |-> w] # vote
      OBVIOUS
    <3> QED
      BY <2>1, <3>1 DEF Voters
  <2>8. \A w \in Version : Cardinality(Voters(t, w)) >= needed <=> t.approved = w
    <3> SUFFICES ASSUME NEW w \in Version
                 PROVE  Cardinality(Voters(t, w)) >= needed <=> t.approved = w
      OBVIOUS
    <3> HIDE DEF t
    <3>1. CASE w = v
      BY <2>1, <2>3, <2>6, <3>1, NoVersionIsNoVersion
    <3>2. CASE w # v
      <4>1. ~(Cardinality(Voters(t, w)) >= needed)
        BY <2>4, <2>7, <3>2
      <4>2. t.approved # w
        BY <2>1, <2>3, <3>2, NoVersionIsNoVersion
      <4> QED
        BY <4>1, <4>2
    <3> QED
      BY <3>1, <3>2
  <2> QED
    BY <2>1, <2>2, <2>3, <2>8, NoVersionIsNoVersion DEF Counted
<1> QED
  BY <1>1, <1>2

\* The votes of v stay, and v, as it is not the approved version, has too few.
LEMMA ContentChangedKeeps ==
    ASSUME NEW s, GoodVotes(s), Counted(s), NEW v \in Version
    PROVE  LET t == ContentChangedOf(s, v) IN GoodVotes(t) /\ Counted(t)
<1> DEFINE t == ContentChangedOf(s, v)
<1> SUFFICES GoodVotes(t) /\ Counted(t)
  OBVIOUS
<1>1. CASE (~Stale(s, v) /\ s.status # "approved") \/ s.approved = v
  <2>1. t = s
    BY <1>1 DEF ContentChangedOf
  <2> QED
    BY <2>1
<1>2. CASE ~((~Stale(s, v) /\ s.status # "approved") \/ s.approved = v)
  <2>1. /\ t \in State
        /\ t.approvals = ApprovalsOf(s, v)
        /\ t.approved = NoVersion
        /\ t.status # "approved"
    BY <1>2 DEF ContentChangedOf, GoodVotes, State, ApprovalsOf
  <2>2. GoodVotes(t)
    <3>1. IsFiniteSet(t.approvals)
      BY <2>1, VotesCounted
    <3> QED
      BY <2>1, <3>1 DEF GoodVotes, ApprovalsOf
  <2>3. \A w \in Version : ~(Cardinality(Voters(t, w)) >= needed)
    <3> SUFFICES ASSUME NEW w \in Version PROVE ~(Cardinality(Voters(t, w)) >= needed)
      OBVIOUS
    <3>1. CASE w = v
      <4>1. Voters(t, v) = Voters(s, v)
        BY <2>1 DEF Voters, ApprovalsOf
      <4> QED
        BY <1>2, <3>1, <4>1 DEF Counted
    <3>2. CASE w # v
      <4>1. Voters(t, w) = {}
        BY <2>1, <3>2 DEF Voters, ApprovalsOf
      <4> QED
        BY <4>1, FS_EmptySet, NeededIsPositive
    <3> QED
      BY <3>1, <3>2
  <2> QED
    BY <2>1, <2>2, <2>3, NoVersionIsNoVersion DEF Counted
<1> QED
  BY <1>1, <1>2

-----------------------------------------------------------------------------
(* The state of the stream. *)

LEMMA InitEstablishes == ApprovalInit => ApprovalInv
<1> SUFFICES ASSUME ApprovalInit PROVE ApprovalInv
  OBVIOUS
<1>1. ApprovalTypeOK
  <2>1. 1 \in Version /\ NoVersion \in Version \cup {NoVersion}
    BY MaxVersionsAssumption DEF Version
  <2>2. state \in State
    BY <2>1 DEF ApprovalInit, State
  <2> QED
    BY <2>1, <2>2 DEF ApprovalInit, ApprovalTypeOK
<1>2. GoodVotes(state)
  BY <1>1, FS_EmptySet DEF ApprovalInit, GoodVotes, ApprovalTypeOK
<1>3. Counted(state)
  <2>1. \A v \in Version : Voters(state, v) = {}
    BY DEF ApprovalInit, Voters
  <2> QED
    BY <2>1, FS_EmptySet, NeededIsPositive, NoVersionIsNoVersion DEF ApprovalInit, Counted
<1>4. SweptAtHead /\ Pending
  BY DEF ApprovalInit, SweptAtHead, Pending
<1> QED
  BY <1>1, <1>2, <1>3, <1>4 DEF ApprovalInv, StateInv

LEMMA StateStep == StateInv /\ [ApprovalNext]_approvalVars => StateInv'
<1> SUFFICES ASSUME StateInv, [ApprovalNext]_approvalVars PROVE StateInv'
  OBVIOUS
<1> USE DEF StateInv
<1>1. CASE RequestReview
  <2>1. GoodVotes(state') /\ Counted(state')
    BY <1>1, RequestReviewKeeps DEF RequestReview
  <2>2. ApprovalTypeOK'
    BY <1>1, <2>1 DEF RequestReview, ApprovalTypeOK, GoodVotes
  <2> QED
    BY <2>1, <2>2
<1>2. CASE Supersede
  <2>1. GoodVotes(state') /\ Counted(state')
    BY <1>2, SupersedeKeeps DEF Supersede
  <2>2. ApprovalTypeOK'
    BY <1>2, <2>1 DEF Supersede, ApprovalTypeOK, GoodVotes
  <2> QED
    BY <2>1, <2>2
<1>3. CASE Review
  BY <1>3 DEF Review, ApprovalTypeOK
<1>4. ASSUME NEW p \in Person, Approve(p) PROVE StateInv'
  BY <1>4 DEF Approve, ApprovalTypeOK
<1>5. ASSUME NEW p \in Person, DecideApprove(p) PROVE StateInv'
  <2>1. wants[p] \in Version
    BY <1>5 DEF DecideApprove, ApprovalTypeOK
  <2>2. GoodVotes(state') /\ Counted(state')
    BY <1>5, <2>1, ApproveKeeps DEF DecideApprove
  <2>3. ApprovalTypeOK'
    BY <1>5, <2>2 DEF DecideApprove, ApprovalTypeOK, GoodVotes
  <2> QED
    BY <2>2, <2>3
<1>6. ASSUME NEW e \in Editor, Edit(e) PROVE StateInv'
  <2>1. head' \in Version
    BY <1>6, MaxVersionsAssumption DEF Edit, ApprovalTypeOK, Version
  <2>2. late' \subseteq Late
    BY <1>6 DEF Edit, ApprovalTypeOK
  <2>3. ApprovalTypeOK'
    BY <1>6, <2>1, <2>2 DEF Edit, ApprovalTypeOK
  <2> QED
    BY <1>6, <2>3 DEF Edit
<1>7. ASSUME NEW e \in Editor, ListStatus(e) PROVE StateInv'
  BY <1>7 DEF ListStatus, ApprovalTypeOK
<1>8. ASSUME NEW e \in Editor, Revoke(e) PROVE StateInv'
  <2>1. swept[e] \in Version
    BY <1>8 DEF Revoke, ApprovalTypeOK
  <2>2. GoodVotes(state') /\ Counted(state')
    BY <1>8, <2>1, ContentChangedKeeps DEF Revoke
  <2>3. ApprovalTypeOK'
    BY <1>8, <2>2 DEF Revoke, ApprovalTypeOK, GoodVotes
  <2> QED
    BY <2>2, <2>3
<1>9. ASSUME NEW e \in Editor, PassFails(e) PROVE StateInv'
  BY <1>9 DEF PassFails, ApprovalTypeOK
<1>10. CASE UNCHANGED approvalVars
  BY <1>10 DEF approvalVars, ApprovalTypeOK
<1> QED
  BY <1>1, <1>2, <1>3, <1>4, <1>5, <1>6, <1>7, <1>8, <1>9, <1>10 DEF ApprovalNext

-----------------------------------------------------------------------------
(* What is under way. *)

LEMMA SweptStep == StateInv /\ SweptAtHead /\ [ApprovalNext]_approvalVars => SweptAtHead'
<1> SUFFICES ASSUME StateInv, SweptAtHead, [ApprovalNext]_approvalVars PROVE SweptAtHead'
  OBVIOUS
<1> USE DEF StateInv, SweptAtHead, ApprovalTypeOK
<1>1. CASE UNCHANGED <<head, pc, swept, late>>
  BY <1>1
<1>2. ASSUME NEW e \in Editor, Edit(e) PROVE SweptAtHead'
  <2>1. "sweep" \notin late' => \A f \in Editor : pc[f] # "revoke"
    BY <1>2 DEF Edit, Late
  <2> QED
    BY <1>2, <2>1 DEF Edit
<1>3. ASSUME NEW e \in Editor, ListStatus(e) PROVE SweptAtHead'
  BY <1>3 DEF ListStatus
<1>4. ASSUME NEW e \in Editor, Revoke(e) PROVE SweptAtHead'
  BY <1>4 DEF Revoke
<1>5. ASSUME NEW e \in Editor, PassFails(e) PROVE SweptAtHead'
  BY <1>5 DEF PassFails
<1> QED
  BY <1>1, <1>2, <1>3, <1>4, <1>5
  DEF ApprovalNext, approvalVars, RequestReview, Review, Supersede, Approve, DecideApprove

LEMMA PendingStep == StateInv /\ Pending /\ [ApprovalNext]_approvalVars => Pending'
<1> SUFFICES ASSUME StateInv, Pending, [ApprovalNext]_approvalVars, "approval" \notin late'
             PROVE  /\ \A p \in Person : wants'[p] \in {NoVersion, head'}
                    /\ ~missed' /\ state'.status = "approved" /\ state'.approved # head' =>
                         \E e \in Editor : \/ pc'[e] = "changed"
                                           \/ pc'[e] = "revoke" /\ swept'[e] # state'.approved
  BY DEF Pending
<1> DEFINE Goal == /\ \A p \in Person : wants'[p] \in {NoVersion, head'}
                   /\ ~missed' /\ state'.status = "approved" /\ state'.approved # head' =>
                        \E e \in Editor : \/ pc'[e] = "changed"
                                          \/ pc'[e] = "revoke" /\ swept'[e] # state'.approved
<1> USE DEF StateInv, ApprovalTypeOK
<1>0. /\ "approval" \notin late
      /\ \A p \in Person : wants[p] \in {NoVersion, head}
      /\ ~missed /\ state.status = "approved" /\ state.approved # head =>
           \E e \in Editor : pc[e] = "changed" \/ (pc[e] = "revoke" /\ swept[e] # state.approved)
  <2>1. late \subseteq late'
    BY DEF ApprovalNext, approvalVars, RequestReview, Review, Supersede, Approve, DecideApprove,
           Edit, ListStatus, Revoke, PassFails
  <2> QED
    BY <2>1 DEF Pending
<1>1. CASE RequestReview
  <2>1. state'.status # "approved"
    BY <1>1 DEF RequestReview, RequestReviewOf, State
  <2> QED
    BY <1>0, <1>1, <2>1 DEF RequestReview
<1>2. CASE Supersede
  <2>1. state'.status # "approved"
    BY <1>2 DEF Supersede, SupersedeOf, State
  <2> QED
    BY <1>0, <1>2, <2>1 DEF Supersede
<1>3. CASE Review
  BY <1>0, <1>3 DEF Review
<1>4. ASSUME NEW p \in Person, Approve(p) PROVE Goal
  BY <1>0, <1>4 DEF Approve
<1>5. ASSUME NEW p \in Person, DecideApprove(p) PROVE Goal
  <2>1. wants[p] = head /\ head \in Version
    BY <1>0, <1>5 DEF DecideApprove
  <2>2. state' = ApproveOf(state, p, head)
    BY <1>5, <2>1 DEF DecideApprove
  <2>3. state' = state \/ (state'.status = "approved" => state'.approved = head)
    BY <2>1, <2>2 DEF ApproveOf, State
  <2> QED
    BY <1>0, <1>5, <2>3 DEF DecideApprove
<1>6. ASSUME NEW e \in Editor, Edit(e) PROVE Goal
  <2>1. \A p \in Person : wants[p] = NoVersion
    BY <1>6 DEF Edit, Late
  <2>2. pc'[e] = "changed"
    BY <1>6 DEF Edit
  <2> QED
    BY <1>6, <2>1, <2>2 DEF Edit
<1>7. ASSUME NEW e \in Editor, ListStatus(e) PROVE Goal
  <2>1. \A f \in Editor \ {e} : pc'[f] = pc[f] /\ swept'[f] = swept[f]
    BY <1>7 DEF ListStatus
  <2>2. state.status = "approved" => pc'[e] = "revoke" /\ swept'[e] = head
    BY <1>7 DEF ListStatus
  <2> QED
    BY <1>0, <1>7, <2>2 DEF ListStatus
<1>8. ASSUME NEW e \in Editor, Revoke(e) PROVE Goal
  <2>1. swept[e] \in Version
    BY <1>8 DEF Revoke
  <2>2. state'.status = "approved" => state' = state /\ state.approved = swept[e]
    BY <1>8, <2>1 DEF Revoke, ContentChangedOf, State
  <2>3. \A f \in Editor \ {e} : pc'[f] = pc[f] /\ swept'[f] = swept[f]
    BY <1>8 DEF Revoke
  <2>4. pc[e] = "revoke"
    BY <1>8 DEF Revoke
  <2> QED
    BY <1>0, <1>8, <2>2, <2>3, <2>4 DEF Revoke
<1>9. ASSUME NEW e \in Editor, PassFails(e) PROVE Goal
  BY <1>0, <1>9 DEF PassFails
<1>10. CASE UNCHANGED approvalVars
  BY <1>0, <1>10 DEF approvalVars
<1> QED
  BY <1>1, <1>2, <1>3, <1>4, <1>5, <1>6, <1>7, <1>8, <1>9, <1>10 DEF ApprovalNext

LEMMA ApprovalInvariance == ApprovalSpec => []ApprovalInv
<1>1. ApprovalInit => ApprovalInv
  BY InitEstablishes
<1>2. ApprovalInv /\ [ApprovalNext]_approvalVars => ApprovalInv'
  BY StateStep, SweptStep, PendingStep DEF ApprovalInv
<1> QED
  BY <1>1, <1>2, PTL DEF ApprovalSpec

-----------------------------------------------------------------------------
(* Theorems. *)

\* Every variable keeps its type, whatever commands and sweeps run.
THEOREM ApprovalTypeCorrect == ApprovalSpec => []ApprovalTypeOK
BY ApprovalInvariance, PTL DEF ApprovalInv, StateInv

\* DecideApprove and DecideContentChanged: a doc is approved for a version
\* exactly when as many different people as the profile asks for, no author
\* among them, have a vote of it that no sweep took away.
THEOREM ApprovedHasEnough == ApprovalSpec => []ApprovedWithEnough
<1>1. ApprovalInv => ApprovedWithEnough
  <2> SUFFICES ASSUME ApprovalInv PROVE ApprovedWithEnough
    OBVIOUS
  <2>1. \A v \in Version : enough(v) <=> Cardinality(Voters(state, v)) >= needed
    BY DEF enough, Voters
  <2> QED
    BY <2>1 DEF ApprovalInv, StateInv, Counted, ApprovedWithEnough
<1> QED
  BY <1>1, ApprovalInvariance, PTL

\* OnNewVersions: when the passes are done, and none failed since the last sweep, an
\* approved doc is approved for its current version, unless an approval was under
\* way at a new version.
THEOREM NothingOldIsApproved == ApprovalSpec => []ApprovedIsCurrent
<1>1. ApprovalInv => ApprovedIsCurrent
  <2> SUFFICES ASSUME ApprovalInv, sweepsDone, ~missed, state.status = "approved", "approval" \notin late
               PROVE  state.approved = head
    BY DEF ApprovedIsCurrent
  <2>1. \A e \in Editor : pc[e] # "changed" /\ pc[e] # "revoke"
    BY DEF sweepsDone
  <2> QED
    BY <2>1 DEF ApprovalInv, Pending
<1> QED
  BY <1>1, ApprovalInvariance, PTL

\* DecideContentChanged: a vote of the current version stays until a newer one
\* is made, unless a sweep was under way at a new version.
THEOREM CurrentVotesStay == ApprovalSpec => CurrentApprovalStays
<1> DEFINE Stays == \A a \in state.approvals :
             a.version = head /\ head' = head /\ "sweep" \notin late => a \in state'.approvals
<1>1. ApprovalInv /\ [ApprovalNext]_approvalVars => Stays
  <2> SUFFICES ASSUME ApprovalInv, [ApprovalNext]_approvalVars, NEW a \in state.approvals,
                      a.version = head, "sweep" \notin late
               PROVE  a \in state'.approvals
    OBVIOUS
  <2> USE DEF ApprovalInv, StateInv, ApprovalTypeOK
  <2>1. CASE UNCHANGED state
    BY <2>1
  <2>2. CASE RequestReview
    BY <2>2 DEF RequestReview, RequestReviewOf, State
  <2>3. CASE Supersede
    BY <2>3 DEF Supersede, SupersedeOf, State
  <2>4. ASSUME NEW p \in Person, DecideApprove(p) PROVE a \in state'.approvals
    BY <2>4 DEF DecideApprove, ApproveOf, State
  <2>5. ASSUME NEW e \in Editor, Revoke(e) PROVE a \in state'.approvals
    <3>1. swept[e] = head
      BY <2>5 DEF Revoke, SweptAtHead
    <3> QED
      BY <2>5, <3>1 DEF Revoke, ContentChangedOf, ApprovalsOf, State
  <2> QED
    BY <2>1, <2>2, <2>3, <2>4, <2>5 DEF ApprovalNext, approvalVars, Review, Approve, Edit, ListStatus, PassFails
<1> QED
  BY <1>1, ApprovalInvariance, PTL DEF CurrentApprovalStays, ApprovalSpec

-----------------------------------------------------------------------------
(***************************************************************************)
(* Proofs about ThreadAnswer for any clients, questions, stops and errors. *)
(*                                                                         *)
(* A job that the worker has is running (Claims), so it posts again only   *)
(* when it was claimed again, which needs a worker that was gone (Posted). *)
(* The flag is up only as long as a job will delete it (Flagged).          *)
(***************************************************************************)

Message == [by : {"person", "ai"}, job : 0 .. MaxQuestions, read : Nat]

\* Who is under way has a question, and a job where it needs one.
Claims ==
    /\ worker.step = "idle" <=> worker.job = 0
    /\ worker.job # 0 => job[worker.job] = "running"
    /\ \A j \in Job : job[j] # "none" => about[j] \in 1 .. Len(messages)
    /\ \A c \in Client :
          /\ client[c].step # "idle" => client[c].question \in 1 .. Len(messages)
          /\ client[c].step = "flag" => client[c].job \in Job
    /\ \A j \in Job : again[j] <= stops + errors

PostsOf(j) == {n \in Answers : messages[n].job = j}
Posts(j) == Cardinality(PostsOf(j))

\* The claim under way, or the last one, has posted.
MayHavePosted(j) ==
    \/ worker.job = j /\ worker.step \in {"clear", "finish"}
    \/ job[j] \in {"done", "failed"}

Posted ==
    \A j \in Job :
        /\ Posts(j) <= again[j] + 1
        /\ ~MayHavePosted(j) => Posts(j) <= again[j]

\* A job is to be worked on that deletes the flag.
WillClear == \E j \in Job : ~Cleared(j)

Flagged == answering /\ ~early => WillClear

IInv == TypeOK /\ Claims /\ Posted /\ Flagged

-----------------------------------------------------------------------------
(* Messages and bounds. *)

LEMMA Bounds ==
    /\ MaxQuestions \in Nat /\ MaxStatus \in Nat /\ MaxStops \in Nat /\ MaxErrors \in Nat
    /\ Job \subseteq Nat \ {0} /\ 0 \notin Job /\ \A j \in Job : j \in 0 .. MaxQuestions
BY BoundsAssumption DEF Job

LEMMA Numbered ==
    ASSUME TypeOK
    PROVE  /\ messages \in Seq(Message) /\ Len(messages) \in Nat /\ DOMAIN messages = 1 .. Len(messages)
           /\ Questions \subseteq 1 .. Len(messages) /\ Answers \subseteq 1 .. Len(messages)
           /\ \A n \in 1 .. Len(messages) : messages[n] \in Message
<1>1. messages \in Seq(Message)
  BY DEF TypeOK, Message
<1>2. /\ Len(messages) \in Nat /\ DOMAIN messages = 1 .. Len(messages)
      /\ \A n \in 1 .. Len(messages) : messages[n] \in Message
  BY <1>1, LenProperties, ElementOfSeq
<1> QED
  BY <1>1, <1>2 DEF Questions, Answers

LEMMA OneMore ==
    ASSUME TypeOK, NEW m \in Message, messages' = Append(messages, m)
    PROVE  /\ messages' \in Seq(Message) /\ Len(messages') = Len(messages) + 1
           /\ Len(messages) \in Nat /\ 1 .. Len(messages) \subseteq 1 .. Len(messages')
           /\ Len(messages) + 1 \in 1 .. Len(messages')
           /\ DOMAIN messages' = 1 .. Len(messages')
           /\ messages'[Len(messages) + 1] = m
           /\ \A n \in 1 .. Len(messages) : messages'[n] = messages[n]
<1>1. messages \in Seq(Message) /\ Len(messages) \in Nat
  BY Numbered
<1>2. /\ messages' \in Seq(Message) /\ Len(messages') = Len(messages) + 1
      /\ messages'[Len(messages) + 1] = m
      /\ \A n \in 1 .. Len(messages) : messages'[n] = messages[n]
  BY <1>1, AppendProperties
<1> QED
  BY <1>1, <1>2, LenProperties

\* The worker has a job as long as it is not idle.
LEMMA AtWork ==
    ASSUME TypeOK, Claims, worker.step # "idle"
    PROVE  /\ worker.job \in Job /\ job[worker.job] = "running" /\ about[worker.job] \in 1 .. Len(messages)
<1>1. worker.job \in 0 .. MaxQuestions /\ worker.job # 0
  BY DEF TypeOK, Claims
<1>2. worker.job \in Job
  BY <1>1, Bounds DEF Job
<1> QED
  BY <1>1, <1>2 DEF Claims

NoRequest == [step |-> "idle", question |-> 0, job |-> 0]

-----------------------------------------------------------------------------
(* The types. *)

LEMMA TypeStep == TypeOK /\ Claims /\ [Next]_vars => TypeOK'
<1> SUFFICES ASSUME TypeOK, Claims, [Next]_vars PROVE TypeOK'
  OBVIOUS
<1>0. /\ hosted \in Modes /\ open \in BOOLEAN /\ Len(messages) \in Nat
      /\ messages \in Seq([by : {"person", "ai"}, job : 0 .. MaxQuestions, read : Nat])
      /\ job \in [Job -> {"none", "queued", "running", "done", "failed"}]
      /\ about \in [Job -> Nat] /\ locked \subseteq Job /\ answering \in BOOLEAN
      /\ client \in [Client -> [step : {"idle", "ask", "flag"}, question : Nat, job : 0 .. MaxQuestions]]
      /\ worker \in [step : {"idle", "read", "write", "clear", "finish"}, job : 0 .. MaxQuestions, read : Nat]
      /\ statuses \in 0 .. MaxStatus /\ stops \in 0 .. MaxStops /\ errors \in 0 .. MaxErrors
      /\ lost \subseteq 1 .. Len(messages)
      /\ again \in [Job -> 0 .. MaxStops + MaxErrors] /\ early \in BOOLEAN
  BY Numbered DEF TypeOK
<1>b. MaxQuestions \in Nat /\ MaxStatus \in Nat /\ MaxStops \in Nat /\ MaxErrors \in Nat /\ 0 \in 0 .. MaxQuestions
  BY Bounds
<1>n. NoRequest \in [step : {"idle", "ask", "flag"}, question : Nat, job : 0 .. MaxQuestions]
  BY <1>b DEF NoRequest
<1>w. NoWork \in [step : {"idle", "read", "write", "clear", "finish"}, job : 0 .. MaxQuestions, read : Nat]
  BY <1>b DEF NoWork
<1>1. ASSUME NEW c \in Client, PostMessage(c) PROVE TypeOK'
  <2>1. [by |-> "person", job |-> 0, read |-> 0] \in Message
    BY <1>b DEF Message
  <2>2. /\ messages' \in Seq([by : {"person", "ai"}, job : 0 .. MaxQuestions, read : Nat])
        /\ 1 .. Len(messages) \subseteq 1 .. Len(messages')
    BY <1>1, <2>1, OneMore DEF PostMessage, Message
  <2>3. client' \in [Client -> [step : {"idle", "ask", "flag"}, question : Nat, job : 0 .. MaxQuestions]]
    BY <1>0, <1>1, <1>b DEF PostMessage
  <2>4. UNCHANGED <<hosted, open, job, about, locked, answering, worker, statuses, stops, errors, lost, again, early>>
    BY <1>1 DEF PostMessage, queue, counters, history
  <2> QED
    BY <1>0, <2>2, <2>3, <2>4 DEF TypeOK
<1>2. ASSUME NEW c \in Client, InsertJob(c) PROVE TypeOK'
  <2>1. PICK j \in Job : /\ job' = [job EXCEPT ![j] = "queued"]
                         /\ about' = [about EXCEPT ![j] = client[c].question]
                         /\ client' = [client EXCEPT ![c].step = "flag", ![c].job = j]
    BY <1>2 DEF InsertJob
  <2>2. j \in 0 .. MaxQuestions /\ client[c].question \in Nat
    BY <1>0, Bounds
  <2>3. job' \in [Job -> {"none", "queued", "running", "done", "failed"}] /\ about' \in [Job -> Nat]
    BY <1>0, <2>1, <2>2
  <2>4. client' \in [Client -> [step : {"idle", "ask", "flag"}, question : Nat, job : 0 .. MaxQuestions]]
    <3> DEFINE x == [client[c] EXCEPT !.step = "flag", !.job = j]
    <3>1. x \in [step : {"idle", "ask", "flag"}, question : Nat, job : 0 .. MaxQuestions]
      BY <1>0, <2>2
    <3>2. client' = [client EXCEPT ![c] = x]
      BY <1>0, <2>1
    <3> HIDE DEF x
    <3> QED
      BY <1>0, <3>1, <3>2
  <2>5. UNCHANGED <<hosted, open, messages, locked, answering, worker, statuses, stops, errors, lost, again, early>>
    BY <1>2 DEF InsertJob, thread, counters, history
  <2> QED
    BY <1>0, <2>3, <2>4, <2>5 DEF TypeOK
<1>3. ASSUME NEW c \in Client, AskFails(c) PROVE TypeOK'
  <2>1. client' \in [Client -> [step : {"idle", "ask", "flag"}, question : Nat, job : 0 .. MaxQuestions]]
    BY <1>0, <1>3, <1>n DEF AskFails, Answered, NoRequest
  <2>2. errors' \in 0 .. MaxErrors
    BY <1>0, <1>3, <1>b DEF AskFails
  <2>3. lost' \subseteq 1 .. Len(messages)
    BY <1>0, <1>3 DEF AskFails, Claims
  <2>4. UNCHANGED <<hosted, open, messages, job, about, locked, answering, worker, statuses, stops, again, early>>
    BY <1>3 DEF AskFails, thread, queue
  <2> QED
    BY <1>0, <2>1, <2>2, <2>3, <2>4 DEF TypeOK
<1>4. ASSUME NEW c \in Client, StoreFlag(c) PROVE TypeOK'
  <2>1. client' \in [Client -> [step : {"idle", "ask", "flag"}, question : Nat, job : 0 .. MaxQuestions]]
    BY <1>0, <1>4, <1>n DEF StoreFlag, Answered, NoRequest
  <2>2. answering' \in BOOLEAN /\ early' \in BOOLEAN
    BY <1>4 DEF StoreFlag
  <2>3. UNCHANGED <<hosted, open, messages, job, about, locked, worker, statuses, stops, errors, lost, again>>
    BY <1>4 DEF StoreFlag, thread, queue, counters
  <2> QED
    BY <1>0, <2>1, <2>2, <2>3 DEF TypeOK
<1>5. CASE SetThreadStatus
  <2>1. open' \in BOOLEAN /\ statuses' \in 0 .. MaxStatus
    BY <1>0, <1>5, <1>b DEF SetThreadStatus
  <2>2. UNCHANGED <<hosted, messages, job, about, locked, answering, client, worker, stops, errors, lost, again, early>>
    BY <1>5 DEF SetThreadStatus, queue, history
  <2> QED
    BY <1>0, <2>1, <2>2 DEF TypeOK
<1>6. ASSUME NEW j \in Job, ClaimJob(j) PROVE TypeOK'
  <2>1. j \in 0 .. MaxQuestions
    BY Bounds
  <2>2. /\ job' \in [Job -> {"none", "queued", "running", "done", "failed"}] /\ locked' \subseteq Job
        /\ worker' \in [step : {"idle", "read", "write", "clear", "finish"}, job : 0 .. MaxQuestions, read : Nat]
    BY <1>0, <1>6, <2>1 DEF ClaimJob
  <2>3. UNCHANGED <<hosted, open, messages, about, answering, client, statuses, stops, errors, lost, again, early>>
    BY <1>6 DEF ClaimJob, thread, counters, history
  <2> QED
    BY <1>0, <2>2, <2>3 DEF TypeOK
<1>7. CASE ReadThread
  <2>1. worker' \in [step : {"idle", "read", "write", "clear", "finish"}, job : 0 .. MaxQuestions, read : Nat]
    BY <1>0, <1>7 DEF ReadThread
  <2>2. UNCHANGED <<hosted, open, messages, job, about, locked, answering, client, statuses, stops, errors, lost, again, early>>
    BY <1>7 DEF ReadThread, thread, queue, counters, history
  <2> QED
    BY <1>0, <2>1, <2>2 DEF TypeOK
<1>8. CASE PostAI
  <2>1. worker' \in [step : {"idle", "read", "write", "clear", "finish"}, job : 0 .. MaxQuestions, read : Nat]
    BY <1>0, <1>8 DEF PostAI
  <2>2. /\ messages' \in Seq([by : {"person", "ai"}, job : 0 .. MaxQuestions, read : Nat])
        /\ 1 .. Len(messages) \subseteq 1 .. Len(messages')
    <3>1. [by |-> "ai", job |-> worker.job, read |-> worker.read] \in Message
      BY <1>0 DEF Message
    <3>2. CASE open
      BY <1>8, <3>1, <3>2, OneMore DEF PostAI, Message
    <3>3. CASE ~open
      BY <1>0, <1>8, <3>3 DEF PostAI
    <3> QED
      BY <3>2, <3>3
  <2>3. lost' \subseteq 1 .. Len(messages)
    BY <1>0, <1>8, AtWork DEF PostAI
  <2>4. UNCHANGED <<hosted, open, job, about, locked, answering, client, statuses, stops, errors, again, early>>
    BY <1>8 DEF PostAI, queue, counters
  <2> QED
    BY <1>0, <2>1, <2>2, <2>3, <2>4 DEF TypeOK
<1>9. CASE AnswerFails
  <2>1. worker' \in [step : {"idle", "read", "write", "clear", "finish"}, job : 0 .. MaxQuestions, read : Nat]
    BY <1>0, <1>9 DEF AnswerFails
  <2>2. errors' \in 0 .. MaxErrors
    BY <1>0, <1>9, <1>b DEF AnswerFails
  <2>3. lost' \subseteq 1 .. Len(messages)
    BY <1>0, <1>9, AtWork DEF AnswerFails
  <2>4. UNCHANGED <<hosted, open, messages, job, about, locked, answering, client, statuses, stops, again, early>>
    BY <1>9 DEF AnswerFails, thread, queue
  <2> QED
    BY <1>0, <2>1, <2>2, <2>3, <2>4 DEF TypeOK
<1>10. CASE ClearFlag
  <2>1. worker' \in [step : {"idle", "read", "write", "clear", "finish"}, job : 0 .. MaxQuestions, read : Nat]
        /\ answering' \in BOOLEAN
    BY <1>0, <1>10 DEF ClearFlag
  <2>2. UNCHANGED <<hosted, open, messages, job, about, locked, client, statuses, stops, errors, lost, again, early>>
    BY <1>10 DEF ClearFlag, thread, queue, counters, history
  <2> QED
    BY <1>0, <2>1, <2>2 DEF TypeOK
<1>11. CASE FinishJob
  <2>1. /\ job' \in [Job -> {"none", "queued", "running", "done", "failed"}] /\ locked' \subseteq Job
        /\ worker' \in [step : {"idle", "read", "write", "clear", "finish"}, job : 0 .. MaxQuestions, read : Nat]
    BY <1>0, <1>11, <1>w DEF FinishJob
  <2>2. UNCHANGED <<hosted, open, messages, about, answering, client, statuses, stops, errors, lost, again, early>>
    BY <1>11 DEF FinishJob, thread, counters, history
  <2> QED
    BY <1>0, <2>1, <2>2 DEF TypeOK
<1>12. CASE FinishFails
  <2>1. errors' \in 0 .. MaxErrors
    BY <1>0, <1>12, <1>b DEF FinishFails
  <2>2. again' \in [Job -> 0 .. MaxStops + MaxErrors]
    <3>1. worker.job \in Job
      BY <1>12, AtWork DEF FinishFails
    <3>2. again[worker.job] + 1 \in 0 .. MaxStops + MaxErrors
      BY <1>0, <1>12, <1>b, <3>1 DEF FinishFails, Claims
    <3> QED
      BY <1>0, <1>12, <3>1, <3>2 DEF FinishFails
  <2>3. UNCHANGED <<hosted, open, messages, job, about, locked, answering, client, statuses, stops, lost, early>>
        /\ worker' = NoWork
    BY <1>12 DEF FinishFails, thread, queue
  <2> QED
    BY <1>0, <1>w, <2>1, <2>2, <2>3 DEF TypeOK
<1>13. CASE Restart
  <2>1. stops' \in 0 .. MaxStops
    BY <1>0, <1>13, <1>b DEF Restart
  <2>2. again' \in [Job -> 0 .. MaxStops + MaxErrors]
    <3>1. CASE worker.job = 0
      BY <1>0, <1>13, <3>1 DEF Restart
    <3>2. CASE worker.job # 0
      <4>1. worker.job \in Job
        BY <3>2, AtWork DEF Claims
      <4>2. again[worker.job] + 1 \in 0 .. MaxStops + MaxErrors
        BY <1>0, <1>13, <1>b, <4>1 DEF Restart, Claims
      <4> QED
        BY <1>0, <1>13, <3>2, <4>1, <4>2 DEF Restart
    <3> QED
      BY <3>1, <3>2
  <2>3. lost' \subseteq 1 .. Len(messages)
    <3>1. {client[c].question : c \in {d \in Client : client[d].step = "ask"}} \subseteq 1 .. Len(messages)
      BY DEF Claims
    <3>2. {about[j] : j \in {i \in Job : job[i] \in Active}} \subseteq 1 .. Len(messages)
      BY DEF Claims, Active
    <3> QED
      BY <1>0, <1>13, <3>1, <3>2 DEF Restart
  <2>4. client' \in [Client -> [step : {"idle", "ask", "flag"}, question : Nat, job : 0 .. MaxQuestions]]
    BY <1>13, <1>n DEF Restart, NoRequest
  <2>5. job' \in [Job -> {"none", "queued", "running", "done", "failed"}] /\ locked' \subseteq Job
    BY <1>0, <1>13 DEF Restart
  <2>6. UNCHANGED <<hosted, open, messages, about, statuses, errors, early>>
        /\ worker' = NoWork /\ answering' = FALSE
    BY <1>13 DEF Restart, thread
  <2> QED
    BY <1>0, <1>w, <2>1, <2>2, <2>3, <2>4, <2>5, <2>6 DEF TypeOK
<1>14. ASSUME NEW j \in Job, LockRunsOut(j) PROVE TypeOK'
  <2>1. UNCHANGED <<hosted, open, messages, job, about, answering, client, worker, statuses, stops, errors, lost, again, early>>
        /\ locked' \subseteq Job
    BY <1>0, <1>14 DEF LockRunsOut, thread, counters, history
  <2> QED
    BY <1>0, <2>1 DEF TypeOK
<1>15. CASE UNCHANGED vars
  <2>1. UNCHANGED <<hosted, open, messages, job, about, locked, answering, client, worker, statuses, stops, errors, lost, again, early>>
    BY <1>15 DEF vars, thread, queue, counters, history
  <2> QED
    BY <1>0, <2>1 DEF TypeOK
<1> QED
  BY <1>1, <1>2, <1>3, <1>4, <1>5, <1>6, <1>7, <1>8, <1>9, <1>10, <1>11, <1>12, <1>13, <1>14, <1>15
  DEF Next, Request, Worker

-----------------------------------------------------------------------------
(* Who has which job. *)

LEMMA ClaimsStep == TypeOK /\ Claims /\ [Next]_vars => Claims'
<1> SUFFICES ASSUME TypeOK, Claims, [Next]_vars PROVE Claims'
  OBVIOUS
<1>0. /\ Len(messages) \in Nat
      /\ job \in [Job -> {"none", "queued", "running", "done", "failed"}]
      /\ about \in [Job -> Nat]
      /\ client \in [Client -> [step : {"idle", "ask", "flag"}, question : Nat, job : 0 .. MaxQuestions]]
      /\ worker \in [step : {"idle", "read", "write", "clear", "finish"}, job : 0 .. MaxQuestions, read : Nat]
      /\ stops \in Nat /\ errors \in Nat /\ again \in [Job -> Nat] /\ 0 \notin Job
      /\ MaxStops \in Nat /\ MaxErrors \in Nat
  BY Numbered, Bounds DEF TypeOK
<1>h. /\ worker.step = "idle" <=> worker.job = 0
      /\ worker.job # 0 => job[worker.job] = "running"
      /\ \A j \in Job : job[j] # "none" => about[j] \in 1 .. Len(messages)
      /\ \A c \in Client :
            /\ client[c].step # "idle" => client[c].question \in 1 .. Len(messages)
            /\ client[c].step = "flag" => client[c].job \in Job
      /\ \A j \in Job : again[j] <= stops + errors
  BY DEF Claims
<1>w. NoWork.step = "idle" /\ NoWork.job = 0
  BY DEF NoWork
<1>1. ASSUME NEW c \in Client, PostMessage(c) PROVE Claims'
  <2>1. [by |-> "person", job |-> 0, read |-> 0] \in Message
    BY Bounds DEF Message
  <2>2. Len(messages) + 1 \in 1 .. Len(messages') /\ 1 .. Len(messages) \subseteq 1 .. Len(messages')
    BY <1>1, <2>1, OneMore DEF PostMessage
  <2>3. \A d \in Client :
            /\ client'[d].step # "idle" => client'[d].question \in 1 .. Len(messages')
            /\ client'[d].step = "flag" => client'[d].job \in Job
    BY <1>0, <1>1, <1>h, <2>2 DEF PostMessage
  <2>4. UNCHANGED <<job, about, worker, stops, errors, again>>
    BY <1>1 DEF PostMessage, queue, counters, history
  <2>5. \A j \in Job : job[j] # "none" => about[j] \in 1 .. Len(messages')
    BY <1>h, <2>2
  <2> QED
    BY <1>h, <2>3, <2>4, <2>5 DEF Claims
<1>2. ASSUME NEW c \in Client, InsertJob(c) PROVE Claims'
  <2>1. PICK j \in Job : /\ NewJob(j)
                         /\ job' = [job EXCEPT ![j] = "queued"]
                         /\ about' = [about EXCEPT ![j] = client[c].question]
                         /\ client' = [client EXCEPT ![c].step = "flag", ![c].job = j]
    BY <1>2 DEF InsertJob
  <2>2. client[c].step = "ask" /\ client[c].question \in 1 .. Len(messages) /\ job[j] = "none"
    BY <1>2, <1>h, <2>1 DEF InsertJob, NewJob
  <2>3. UNCHANGED <<messages, worker, stops, errors, again>>
    BY <1>2 DEF InsertJob, thread, counters, history
  <2>4. \A d \in Client :
            /\ client'[d].step # "idle" => client'[d].question \in 1 .. Len(messages)
            /\ client'[d].step = "flag" => client'[d].job \in Job
    BY <1>0, <1>h, <2>1, <2>2
  <2>5. \A i \in Job : job'[i] # "none" => about'[i] \in 1 .. Len(messages)
    BY <1>0, <1>h, <2>1, <2>2
  <2>6. worker.job # 0 => job'[worker.job] = "running"
    BY <1>0, <1>h, <2>1, <2>2
  <2> QED
    BY <1>h, <2>3, <2>4, <2>5, <2>6 DEF Claims
<1>3. ASSUME NEW c \in Client, AskFails(c) \/ StoreFlag(c) PROVE Claims'
  <2>1. client' = [client EXCEPT ![c] = NoRequest]
    BY <1>3 DEF AskFails, StoreFlag, Answered, NoRequest
  <2>2. UNCHANGED <<messages, job, about, worker, stops, again>> /\ errors' \in {errors, errors + 1}
    BY <1>3 DEF AskFails, StoreFlag, thread, queue, counters
  <2>3. \A d \in Client :
            /\ client'[d].step # "idle" => client'[d].question \in 1 .. Len(messages)
            /\ client'[d].step = "flag" => client'[d].job \in Job
    BY <1>0, <1>h, <2>1 DEF NoRequest
  <2>4. \A j \in Job : again[j] <= stops + errors'
    BY <1>0, <1>h, <2>2
  <2> QED
    BY <1>h, <2>2, <2>3, <2>4 DEF Claims
<1>4. CASE SetThreadStatus
  BY <1>4, <1>h DEF SetThreadStatus, queue, history, Claims
<1>5. ASSUME NEW j \in Job, ClaimJob(j) PROVE Claims'
  <2>1. /\ UNCHANGED <<messages, about, client, stops, errors, again>>
        /\ job' = [job EXCEPT ![j] = "running"]
        /\ worker' = [step |-> "read", job |-> j, read |-> 0]
        /\ job[j] # "none"
    BY <1>5 DEF ClaimJob, Claimable, thread, counters, history
  <2>2. worker'.step = "read" /\ worker'.job = j /\ job'[j] = "running"
    BY <1>0, <2>1
  <2>3. \A i \in Job : job'[i] # "none" => about[i] \in 1 .. Len(messages)
    BY <1>0, <1>h, <2>1
  <2> QED
    BY <1>0, <1>h, <2>1, <2>2, <2>3 DEF Claims
<1>6. CASE ReadThread \/ ClearFlag \/ AnswerFails
  <2>1. /\ UNCHANGED <<messages, job, about, client, stops, again>> /\ errors' \in {errors, errors + 1}
        /\ worker.step # "idle" /\ worker'.step # "idle" /\ worker'.job = worker.job
    BY <1>0, <1>6 DEF ReadThread, ClearFlag, AnswerFails, thread, queue, counters, history
  <2>2. \A j \in Job : again[j] <= stops + errors'
    BY <1>0, <1>h, <2>1
  <2> QED
    BY <1>h, <2>1, <2>2 DEF Claims
<1>7. CASE PostAI
  <2>1. /\ UNCHANGED <<job, about, client, stops, errors, again>>
        /\ worker.step # "idle" /\ worker'.step # "idle" /\ worker'.job = worker.job
    BY <1>0, <1>7 DEF PostAI, queue, counters
  <2>2. 1 .. Len(messages) \subseteq 1 .. Len(messages')
    <3>1. [by |-> "ai", job |-> worker.job, read |-> worker.read] \in Message
      BY <1>0 DEF Message
    <3> QED
      BY <1>7, <3>1, OneMore DEF PostAI
  <2>3. /\ \A j \in Job : job[j] # "none" => about[j] \in 1 .. Len(messages')
        /\ \A c \in Client : client[c].step # "idle" => client[c].question \in 1 .. Len(messages')
    BY <1>h, <2>2
  <2> QED
    BY <1>h, <2>1, <2>3 DEF Claims
<1>8. CASE FinishJob
  <2>1. worker.job \in Job /\ job[worker.job] = "running"
    BY <1>8, AtWork DEF FinishJob
  <2>2. PICK status \in {"done", "failed"} : job' = [job EXCEPT ![worker.job] = status]
    BY <1>8 DEF FinishJob
  <2>3. UNCHANGED <<messages, about, client, stops, errors, again>> /\ worker' = NoWork
    BY <1>8 DEF FinishJob, thread, counters, history
  <2>4. \A i \in Job : job'[i] # "none" => about[i] \in 1 .. Len(messages)
    BY <1>0, <1>h, <2>1, <2>2
  <2> QED
    BY <1>h, <1>w, <2>3, <2>4 DEF Claims
<1>9. CASE FinishFails
  <2>1. worker.job \in Job
    BY <1>9, AtWork DEF FinishFails
  <2>2. \A j \in Job : again'[j] <= stops + errors'
    BY <1>0, <1>9, <1>h, <2>1 DEF FinishFails
  <2>3. UNCHANGED <<messages, job, about, client, stops>> /\ worker' = NoWork
    BY <1>9 DEF FinishFails, thread, queue
  <2> QED
    BY <1>h, <1>w, <2>2, <2>3 DEF Claims
<1>10. CASE Restart
  <2>1. /\ UNCHANGED <<messages, about, errors>> /\ worker' = NoWork /\ stops' = stops + 1
        /\ client' = [c \in Client |-> NoRequest]
        /\ job' = IF hosted THEN job ELSE [j \in Job |-> IF job[j] \in Active THEN "failed" ELSE job[j]]
        /\ again' = IF worker.job # 0 THEN [again EXCEPT ![worker.job] = @ + 1] ELSE again
    BY <1>10 DEF Restart, thread, NoRequest
  <2>2. \A i \in Job : job'[i] # "none" => about[i] \in 1 .. Len(messages)
    BY <1>0, <1>h, <2>1 DEF Active
  <2>3. \A j \in Job : again'[j] <= stops + 1 + errors
    BY <1>0, <1>h, <2>1
  <2>4. \A c \in Client : client'[c].step = "idle"
    BY <2>1 DEF NoRequest
  <2> QED
    BY <1>w, <2>1, <2>2, <2>3, <2>4 DEF Claims
<1>11. CASE UNCHANGED vars \/ \E j \in Job : LockRunsOut(j)
  <2>1. UNCHANGED <<messages, job, about, client, worker, stops, errors, again>>
    BY <1>11 DEF vars, LockRunsOut, thread, queue, counters, history
  <2> QED
    BY <1>h, <2>1 DEF Claims
<1> QED
  BY <1>1, <1>2, <1>3, <1>4, <1>5, <1>6, <1>7, <1>8, <1>9, <1>10, <1>11 DEF Next, Request, Worker

-----------------------------------------------------------------------------
(* What a job posts. *)

LEMMA PostsFinite ==
    ASSUME TypeOK, NEW j
    PROVE  IsFiniteSet(PostsOf(j)) /\ Posts(j) \in Nat
<1>1. PostsOf(j) \subseteq 1 .. Len(messages) /\ Len(messages) \in Nat
  BY Numbered DEF PostsOf
<1>2. IsFiniteSet(1 .. Len(messages))
  BY <1>1, FS_Interval
<1> QED
  BY <1>1, <1>2, FS_Subset, FS_CardinalityType DEF Posts

\* The answer of a job is one post more of this job, and of no other.
LEMMA PostsGrow ==
    ASSUME TypeOK, Claims, PostAI, NEW j \in Job
    PROVE  Posts(j)' <= Posts(j) + IF j = worker.job THEN 1 ELSE 0
<1>0. Posts(j) \in Nat /\ IsFiniteSet(PostsOf(j))
  BY PostsFinite
<1>1. CASE ~open
  <2>1. UNCHANGED messages
    BY <1>1 DEF PostAI
  <2>2. PostsOf(j)' = PostsOf(j)
    BY <2>1 DEF PostsOf, Answers
  <2> QED
    BY <1>0, <2>2 DEF Posts
<1>2. CASE open
  <2> DEFINE m == [by |-> "ai", job |-> worker.job, read |-> worker.read]
  <2>1. m \in Message /\ m.by = "ai" /\ m.job = worker.job
    BY DEF Message, TypeOK
  <2>2. messages' = Append(messages, m)
    BY <1>2 DEF PostAI
  <2> HIDE DEF m
  <2> DEFINE l == Len(messages)
  <2>3. /\ DOMAIN messages' = 1 .. l + 1 /\ messages'[l + 1] = m /\ l \in Nat
        /\ \A n \in 1 .. l : messages'[n] = messages[n]
        /\ DOMAIN messages = 1 .. l
    BY <2>1, <2>2, OneMore, Numbered
  <2> HIDE DEF l
  <2>4. PostsOf(j)' = PostsOf(j) \cup (IF j = worker.job THEN {l + 1} ELSE {})
    BY <2>1, <2>3 DEF PostsOf, Answers
  <2>5. l + 1 \notin PostsOf(j)
    BY <2>3 DEF PostsOf, Answers
  <2>6. CASE j = worker.job
    <3>1. PostsOf(j)' = PostsOf(j) \cup {l + 1}
      BY <2>4, <2>6
    <3>2. Cardinality(PostsOf(j) \cup {l + 1}) = Cardinality(PostsOf(j)) + 1
      BY <1>0, <2>5, FS_AddElement
    <3> QED
      BY <1>0, <2>6, <3>1, <3>2 DEF Posts
  <2>7. CASE j # worker.job
    BY <1>0, <2>4, <2>7 DEF Posts
  <2> QED
    BY <2>6, <2>7
<1> QED
  BY <1>1, <1>2

LEMMA PostsStay ==
    ASSUME TypeOK, NEW j, UNCHANGED messages
    PROVE  Posts(j)' = Posts(j)
BY DEF Posts, PostsOf, Answers

LEMMA PostedStep == TypeOK /\ Claims /\ Posted /\ [Next]_vars => Posted'
<1> SUFFICES ASSUME TypeOK, Claims, Posted, [Next]_vars, NEW j \in Job
             PROVE  /\ Posts(j)' <= again'[j] + 1
                    /\ ~MayHavePosted(j)' => Posts(j)' <= again'[j]
  BY DEF Posted
<1>p. Posts(j) \in Nat
  BY PostsFinite
<1>0. /\ Posts(j) \in Nat /\ again \in [Job -> Nat]
      /\ job \in [Job -> {"none", "queued", "running", "done", "failed"}]
      /\ worker \in [step : {"idle", "read", "write", "clear", "finish"}, job : 0 .. MaxQuestions, read : Nat]
      /\ 0 \notin Job
  BY <1>p, Bounds DEF TypeOK
<1>h. Posts(j) <= again[j] + 1 /\ (~MayHavePosted(j) => Posts(j) <= again[j])
  BY DEF Posted
<1>k. UNCHANGED messages => Posts(j)' = Posts(j)
  BY PostsStay
\* Steps that leave what a job may have posted.
<1>s. ASSUME Posts(j)' = Posts(j), again'[j] = again[j], MayHavePosted(j) => MayHavePosted(j)'
      PROVE  Posts(j)' <= again'[j] + 1 /\ (~MayHavePosted(j)' => Posts(j)' <= again'[j])
  BY <1>h, <1>s
<1>1. ASSUME NEW c \in Client, PostMessage(c) PROVE Posts(j)' <= again'[j] + 1 /\ (~MayHavePosted(j)' => Posts(j)' <= again'[j])
  <2> DEFINE m == [by |-> "person", job |-> 0, read |-> 0]
  <2>1. m \in Message /\ m.by # "ai"
    BY Bounds DEF Message
  <2>2. messages' = Append(messages, m) /\ UNCHANGED <<again, worker, job>>
    BY <1>1 DEF PostMessage, history, queue
  <2> HIDE DEF m
  <2>3. /\ DOMAIN messages' = 1 .. Len(messages) + 1 /\ messages'[Len(messages) + 1] = m /\ Len(messages) \in Nat
        /\ \A x \in 1 .. Len(messages) : messages'[x] = messages[x]
        /\ DOMAIN messages = 1 .. Len(messages)
    BY <2>1, <2>2, OneMore, Numbered
  <2>4. PostsOf(j)' = PostsOf(j)
    BY <2>1, <2>3 DEF PostsOf, Answers
  <2>5. Posts(j)' = Posts(j)
    BY <2>4 DEF Posts
  <2>6. MayHavePosted(j) => MayHavePosted(j)'
    BY <2>2 DEF MayHavePosted
  <2> QED
    BY <1>s, <2>2, <2>5, <2>6
<1>2. ASSUME NEW c \in Client, InsertJob(c) PROVE Posts(j)' <= again'[j] + 1 /\ (~MayHavePosted(j)' => Posts(j)' <= again'[j])
  <2>1. UNCHANGED <<messages, again, worker>> /\ \E i \in Job : job[i] = "none" /\ job' = [job EXCEPT ![i] = "queued"]
    BY <1>2 DEF InsertJob, NewJob, thread, history
  <2>2. MayHavePosted(j) => MayHavePosted(j)'
    BY <1>0, <2>1 DEF MayHavePosted
  <2> QED
    BY <1>k, <1>s, <2>1, <2>2
<1>3. CASE \/ \E c \in Client : AskFails(c) \/ StoreFlag(c)
           \/ SetThreadStatus \/ UNCHANGED vars \/ \E i \in Job : LockRunsOut(i)
  <2>1. UNCHANGED <<messages, again, worker, job>>
    BY <1>3 DEF AskFails, StoreFlag, SetThreadStatus, LockRunsOut, vars, thread, queue, history
  <2>2. MayHavePosted(j) => MayHavePosted(j)'
    BY <2>1 DEF MayHavePosted
  <2> QED
    BY <1>k, <1>s, <2>1, <2>2
<1>4. ASSUME NEW i \in Job, ClaimJob(i) PROVE Posts(j)' <= again'[j] + 1 /\ (~MayHavePosted(j)' => Posts(j)' <= again'[j])
  <2>1. /\ UNCHANGED <<messages, again>> /\ worker.job = 0 /\ job[i] \in {"queued", "running"}
        /\ job' = [job EXCEPT ![i] = "running"]
    BY <1>4 DEF ClaimJob, Claimable, thread, history, Claims
  <2>2. MayHavePosted(j) => MayHavePosted(j)'
    BY <1>0, <2>1 DEF MayHavePosted
  <2> QED
    BY <1>k, <1>s, <2>1, <2>2
<1>5. CASE ReadThread \/ ClearFlag \/ AnswerFails
  <2>1. /\ UNCHANGED <<messages, again, job>> /\ worker'.job = worker.job
        /\ worker.step \in {"clear", "finish"} => worker'.step \in {"clear", "finish"}
    BY <1>0, <1>5 DEF ReadThread, ClearFlag, AnswerFails, thread, queue, history
  <2>2. MayHavePosted(j) => MayHavePosted(j)'
    BY <2>1 DEF MayHavePosted
  <2> QED
    BY <1>k, <1>s, <2>1, <2>2
<1>6. CASE PostAI
  <2>1. /\ UNCHANGED <<again, job>> /\ worker.step = "write" /\ worker'.job = worker.job /\ worker'.step = "clear"
    BY <1>0, <1>6 DEF PostAI, queue
  <2>2. job[worker.job] = "running" /\ worker.job \in Job
    BY <2>1, AtWork
  <2>3. Posts(j)' <= Posts(j) + IF j = worker.job THEN 1 ELSE 0
    BY <1>6, PostsGrow
  <2>4. Posts(j)' \in Nat
    <3>1. TypeOK'
      BY TypeStep
    <3>2. messages' \in Seq(Message) /\ Len(messages') \in Nat /\ DOMAIN messages' = 1 .. Len(messages')
      BY <3>1, LenProperties DEF TypeOK, Message
    <3>3. PostsOf(j)' \subseteq 1 .. Len(messages') /\ IsFiniteSet(1 .. Len(messages'))
      BY <3>2, FS_Interval DEF PostsOf, Answers
    <3> QED
      BY <3>3, FS_Subset, FS_CardinalityType DEF Posts
  <2>5. CASE j = worker.job
    <3>1. Posts(j) <= again[j] /\ MayHavePosted(j)'
      BY <1>h, <2>1, <2>2, <2>5 DEF MayHavePosted
    <3> QED
      BY <1>0, <2>1, <2>3, <2>4, <2>5, <3>1
  <2>6. CASE j # worker.job
    <3>1. MayHavePosted(j) <=> MayHavePosted(j)'
      BY <2>1, <2>6 DEF MayHavePosted
    <3> QED
      BY <1>0, <1>h, <2>1, <2>3, <2>4, <2>6, <3>1
  <2> QED
    BY <2>5, <2>6
<1>7. CASE FinishJob
  <2>1. /\ UNCHANGED <<messages, again>> /\ worker.step = "finish" /\ worker' = NoWork
        /\ \E status \in {"done", "failed"} : job' = [job EXCEPT ![worker.job] = status]
    BY <1>7 DEF FinishJob, thread, history
  <2>2. worker.job \in Job
    BY <2>1, AtWork
  <2>3. MayHavePosted(j) => MayHavePosted(j)'
    BY <1>0, <2>1, <2>2 DEF MayHavePosted
  <2> QED
    BY <1>k, <1>s, <2>1, <2>3
<1>8. CASE FinishFails \/ Restart
  <2>1. UNCHANGED messages /\ worker' = NoWork
    BY <1>8 DEF FinishFails, Restart, thread
  <2>2. NoWork.job = 0
    BY DEF NoWork
  <2>3. again' = IF worker.job # 0 THEN [again EXCEPT ![worker.job] = @ + 1] ELSE again
    BY <1>8, <1>0, AtWork DEF FinishFails, Restart
  <2>4. job[j] \in {"done", "failed"} => job'[j] \in {"done", "failed"}
    BY <1>8, <1>0 DEF FinishFails, Restart, queue, Active
  <2>5. CASE worker.job = j
    <3>1. again'[j] = again[j] + 1
      BY <1>0, <2>3, <2>5
    <3> QED
      BY <1>0, <1>h, <1>k, <2>1, <3>1
  <2>6. CASE worker.job # j
    <3>1. again'[j] = again[j]
      BY <1>0, <2>3, <2>6
    <3>2. MayHavePosted(j) => MayHavePosted(j)'
      BY <2>4, <2>6 DEF MayHavePosted
    <3> QED
      BY <1>k, <1>s, <2>1, <3>1, <3>2
  <2> QED
    BY <2>5, <2>6
<1> QED
  BY <1>1, <1>2, <1>3, <1>4, <1>5, <1>6, <1>7, <1>8 DEF Next, Request, Worker

-----------------------------------------------------------------------------
(* The flag. *)

LEMMA FlaggedStep == TypeOK /\ Claims /\ Flagged /\ [Next]_vars => Flagged'
<1> SUFFICES ASSUME TypeOK, Claims, Flagged, [Next]_vars, answering', ~early' PROVE WillClear'
  BY DEF Flagged
<1>0. /\ job \in [Job -> {"none", "queued", "running", "done", "failed"}]
      /\ worker \in [step : {"idle", "read", "write", "clear", "finish"}, job : 0 .. MaxQuestions, read : Nat]
      /\ 0 \notin Job
  BY Bounds DEF TypeOK
<1>s. ASSUME answering, ~early, \A j \in Job : Cleared(j)' => Cleared(j) PROVE WillClear'
  <2>1. PICK k \in Job : ~Cleared(k)
    BY <1>s DEF Flagged, WillClear
  <2> QED
    BY <1>s, <2>1 DEF WillClear, Cleared
<1>1. ASSUME NEW c \in Client, StoreFlag(c) PROVE WillClear'
  <2>1. client[c].job \in Job /\ ~Cleared(client[c].job) /\ UNCHANGED <<job, worker>>
    BY <1>1 DEF StoreFlag, queue, Claims
  <2>2. PICK i \in Job : ~Cleared(i)
    BY <2>1
  <2> QED
    BY <2>1, <2>2 DEF WillClear, Cleared
<1>2. ASSUME NEW c \in Client, InsertJob(c) PROVE WillClear'
  <2>1. UNCHANGED <<answering, early, worker>> /\ \E i \in Job : job' = [job EXCEPT ![i] = "queued"]
    BY <1>2 DEF InsertJob, history
  <2>2. \A j \in Job : Cleared(j)' => Cleared(j)
    BY <1>0, <2>1 DEF Cleared, Active
  <2> QED
    BY <1>s, <2>1, <2>2
<1>3. CASE \/ \E c \in Client : PostMessage(c) \/ AskFails(c)
           \/ SetThreadStatus \/ UNCHANGED vars \/ \E i \in Job : LockRunsOut(i)
  <2>1. UNCHANGED <<answering, early, worker, job>>
    BY <1>3 DEF PostMessage, AskFails, SetThreadStatus, LockRunsOut, vars, queue, history
  <2>2. \A j \in Job : Cleared(j)' => Cleared(j)
    BY <2>1 DEF Cleared
  <2> QED
    BY <1>s, <2>1, <2>2
<1>4. ASSUME NEW i \in Job, ClaimJob(i) PROVE WillClear'
  <2>1. /\ UNCHANGED <<answering, early>> /\ worker' = [step |-> "read", job |-> i, read |-> 0]
        /\ job' = [job EXCEPT ![i] = "running"]
    BY <1>4 DEF ClaimJob, history
  <2>2. worker'.step # "finish"
    BY <2>1
  <2>3. \A j \in Job : Cleared(j)' => Cleared(j)
    BY <1>0, <2>1, <2>2 DEF Cleared, Active
  <2> QED
    BY <1>s, <2>1, <2>3
<1>5. CASE ReadThread \/ PostAI \/ AnswerFails
  <2>1. UNCHANGED <<answering, early, job>> /\ worker'.step # "finish"
    BY <1>0, <1>5 DEF ReadThread, PostAI, AnswerFails, queue, history
  <2>2. \A j \in Job : Cleared(j)' => Cleared(j)
    BY <2>1 DEF Cleared
  <2> QED
    BY <1>s, <2>1, <2>2
<1>6. ~ClearFlag /\ ~Restart
  BY DEF ClearFlag, Restart
<1>7. CASE FinishJob
  <2>1. worker.job \in Job /\ worker.step = "finish"
    BY <1>7, AtWork DEF FinishJob
  <2>2. /\ UNCHANGED <<answering, early>> /\ worker' = NoWork
        /\ \E status \in {"done", "failed"} : job' = [job EXCEPT ![worker.job] = status]
    BY <1>7 DEF FinishJob, history
  <2>3. worker'.step # "finish"
    BY <2>2 DEF NoWork
  <2>4. \A j \in Job : Cleared(j)' => Cleared(j)
    BY <1>0, <2>1, <2>2, <2>3 DEF Cleared, Active
  <2> QED
    BY <1>s, <2>2, <2>4
<1>8. CASE FinishFails
  <2>1. UNCHANGED <<answering, early, job>> /\ worker' = NoWork
    BY <1>8 DEF FinishFails, queue
  <2>2. worker'.step # "finish"
    BY <2>1 DEF NoWork
  <2>3. \A j \in Job : Cleared(j)' => Cleared(j)
    BY <2>1, <2>2 DEF Cleared
  <2> QED
    BY <1>s, <2>1, <2>3
<1> QED
  BY <1>1, <1>2, <1>3, <1>4, <1>5, <1>6, <1>7, <1>8 DEF Next, Request, Worker

-----------------------------------------------------------------------------
(* The theorems. *)

LEMMA Initially == Init => IInv
<1> SUFFICES ASSUME Init PROVE IInv
  OBVIOUS
<1>1. /\ 0 \in 0 .. MaxQuestions /\ 0 \in 0 .. MaxStatus /\ 0 \in 0 .. MaxStops /\ 0 \in 0 .. MaxErrors
      /\ 0 \in 0 .. MaxStops + MaxErrors
  BY Bounds
<1>2. /\ NoWork \in [step : {"idle", "read", "write", "clear", "finish"}, job : 0 .. MaxQuestions, read : Nat]
      /\ NoWork.step = "idle" /\ NoWork.job = 0
  BY <1>1 DEF NoWork
<1>3. client \in [Client -> [step : {"idle", "ask", "flag"}, question : Nat, job : 0 .. MaxQuestions]]
      /\ \A c \in Client : client[c].step = "idle"
  BY <1>1 DEF Init
<1>4. messages = << >> /\ messages \in Seq([by : {"person", "ai"}, job : 0 .. MaxQuestions, read : Nat])
  BY DEF Init
<1>5. TypeOK
  BY <1>1, <1>2, <1>3, <1>4 DEF Init, TypeOK
<1>6. Claims
  BY <1>2, <1>3, Bounds DEF Init, Claims
<1>7. Posted
  <2> SUFFICES ASSUME NEW j \in Job PROVE Posts(j) = 0 /\ again[j] = 0
    BY DEF Posted
  <2>1. PostsOf(j) = {}
    BY <1>4 DEF PostsOf, Answers
  <2> QED
    BY <2>1, FS_EmptySet DEF Init, Posts
<1>8. Flagged
  BY DEF Flagged, Init
<1> QED
  BY <1>5, <1>6, <1>7, <1>8 DEF IInv

LEMMA Step == IInv /\ [Next]_vars => IInv'
BY TypeStep, ClaimsStep, PostedStep, FlaggedStep DEF IInv

LEMMA Invariance == Spec => []IInv
BY Initially, Step, PTL DEF Spec

\* The thread, its jobs and what is under way keep their types.
THEOREM TypeCorrect == Spec => []TypeOK
<1>1. IInv => TypeOK
  BY DEF IInv
<1> QED
  BY <1>1, Invariance, PTL

\* A job answers once, and once more for each time that its worker was gone before its end
\* was stored (answerThread, RunNext).
THEOREM JobsAnswerOnce == Spec => []OneAnswerOfAJob
<1>1. IInv => OneAnswerOfAJob
  <2> SUFFICES ASSUME IInv, NEW j \in Job PROVE Posts(j) <= 1 + again[j]
    BY DEF OneAnswerOfAJob, Posts, PostsOf
  <2>1. Posts(j) \in Nat
    BY PostsFinite DEF IInv
  <2>2. Posts(j) <= again[j] + 1 /\ again[j] \in 0 .. MaxStops + MaxErrors
    BY DEF IInv, Posted, TypeOK
  <2> QED
    BY <2>1, <2>2, Bounds
<1> QED
  BY <1>1, Invariance, PTL

\* The sign that an answer is being written goes away with the last job, unless it was set
\* after its job was over (Ask).
THEOREM FlagGoes == Spec => []FlagEnds
<1>1. IInv => FlagEnds
  BY DEF IInv, Flagged, WillClear, FlagEnds, Cleared
<1> QED
  BY <1>1, Invariance, PTL
=============================================================================
