------------------------- MODULE WaiverSidecarProofs -------------------------
(***************************************************************************)
(* Proofs about WaiverSidecar for any handlers, waivers, people and texts. *)
(*                                                                         *)
(* Always holds of every state.  A new waiver is in the hands of one       *)
(* handler, what a handler read is some version, an entry is of a waiver   *)
(* that was written, what one person's decision closes was written before, *)
(* and an approval that wrote nothing is not the last one unless it was    *)
(* overtaken.  From it follow the invariants of every interleaving.        *)
(*                                                                         *)
(* Turn holds as long as one handler at a time works and none stops part   *)
(* way.  The handler that works read what there is; what is written is     *)
(* decided, and the status of a waiver follows the sidecar, but for what   *)
(* this handler has left to do.  At rest nothing is left to do.            *)
(***************************************************************************)
EXTENDS WaiverSidecar, SequenceTheorems, TLAPS

Deciding == {"alone", "approve"}

Sweeping == {"sweep", "list", "decide"}

Over == {"approved", "invalidated", "withdrawn"}

\* What a handler works on at each of its steps.
JobFits(step, j) ==
    /\ step = "idle" <=> j.kind = "none"
    /\ step = "ask" <=> j.kind = "ask"
    /\ step = "read" => j.kind = "approve"
    /\ step \in {"decisions", "append"} => j.kind \in Deciding
    /\ step = "write" => j.kind \in Deciding \cup {"withdraw"}
    /\ step \in {"rows", "withdraw"} => j.kind = "withdraw"
    /\ j.kind \in Deciding \cup {"ask"} => j.waiver \in WaiverId
    /\ j.kind \notin Deciding \cup {"ask"} => j.waiver = NoEntry
    /\ j.kind \in Deciding \cup {"ask", "withdraw"} => j.user \in User

Jobs == \A h \in Handler : JobFits(pc[h], job[h])

\* A new waiver is in the hands of the handler that asks for it.
Asked ==
    \A h \in Handler :
        /\ job[h].kind = "ask" => ~Alone(job[h].waiver)
        /\ job[h].kind = "alone" => Alone(job[h].waiver)
        /\ job[h].kind \in {"ask", "alone"} =>
              /\ waivers[job[h].waiver].status = "none"
              /\ \A g \in Handler \ {h} : job[g].waiver # job[h].waiver
        /\ pc[h] = "ask" \/ (pc[h] \in {"decisions", "write"} /\ job[h].kind = "alone") =>
              job[h].waiver \notin written

\* The versions that a handler goes by, and what it knows of the waivers there.
ReadsFit(h) ==
    /\ base[h] <= head
    /\ sweep[h].version <= head
    /\ pc[h] \in {"list", "decide"} => sweep[h].version >= 1
    /\ pc[h] = "decide" => sweep[h].left \cap Ack = {}
    /\ pc[h] # "decide" => sweep[h].seen = {}
    /\ pc[h] = "withdraw" => sweep[h].left \subseteq Ack
    /\ pc[h] = "write" /\ ~local => dec[h] = versions[base[h]].sidecar
    /\ pc[h] = "write" /\ job[h].kind \in Deciding => Fits(h)
    /\ pc[h] = "write" /\ job[h].kind = "withdraw" => dec[h]["trace"] # NoEntry

Reads == \A h \in Handler : ReadsFit(h)

\* An entry is of a waiver that was written, under its own key.
Known(d, wrote) == \A k \in Key : d[k] # NoEntry => d[k] \in wrote /\ KeyOf(d[k]) = k

Entries ==
    /\ \A v \in 1 .. head : Known(versions[v].sidecar, written)
    /\ Known(file, written)
    /\ \A h \in Handler : Known(dec[h], written) /\ \A d \in sweep[h].seen : Known(d, written)

\* One person's decision is enough for the waiver.
OneDecides(w) == Alone(w) \/ NeededApprovals = 1

WrittenFirst ==
    /\ \A w \in WaiverId : OneDecides(w) /\ waivers[w].status \in Over => w \in written
    /\ \A h \in Handler : job[h].kind \in Deciding =>
          /\ pc[h] \in Sweeping => job[h].waiver \in written
          /\ pc[h] = "append" /\ OneDecides(job[h].waiver) => job[h].waiver \in written

\* The next approval of w is its last one.
IsLast(w) == Len(waivers[w].approvals) + 1 >= needed(policy)

\* An approval that wrote no entry is not the last one, unless it was overtaken.
OvertakenOf(h, w) ==
    \/ w \in written
    \/ h \in overlap.handlers
    \/ job[h].kind = "approve" /\ (waivers[w].status = "requested" => ~IsLast(w))

Overtaken ==
    \A h \in Handler :
        pc[h] = "append" /\ job[h].kind \in Deciding => OvertakenOf(h, job[h].waiver)

Streams ==
    \A w \in WaiverId :
        /\ waivers[w].status # "none" =>
              /\ waivers[w].policy = policy
              /\ waivers[w].scope = IF w \in Ack THEN "trace" ELSE "check"
        /\ waivers[w].status = "requested" => ~Alone(w)
        /\ w \in Ack => waivers[w].status \in {"none", "approved", "withdrawn"}
        /\ waivers[w].status = "withdrawn" => w \in Ack

Always ==
    /\ TypeOK /\ Jobs /\ Asked /\ Reads /\ Entries /\ WrittenFirst /\ Streams
    /\ NoLostUpdate /\ EntryFitsItsText /\ ApprovedWasWritten /\ Overtaken

-----------------------------------------------------------------------------
(* In turn: one handler at a time changes the waivers or the sidecar. *)

Busy(h) == pc[h] \notin {"idle", "ask"}

headText == versions[head].text

\* What the handler read is what there is.
ReadsNow(h) ==
    /\ pc[h] \in {"decisions", "write"} => base[h] = head
    /\ pc[h] = "write" => dec[h] = sidecar
    /\ pc[h] \in {"list", "decide"} => sweep[h].version = head
    /\ pc[h] = "decide" =>
          /\ sweep[h].seen \subseteq {sidecar}
          /\ \A w \in sweep[h].left :
                /\ sweep[h].rows[w] = waivers[w].status
                /\ waivers[w].status \in {"approved", "invalidated"}
    /\ pc[h] = "withdraw" => \A w \in sweep[h].left : waivers[w].status = "approved"

\* The preview of an approval says what its append will do.
Previewed(h) ==
    job[h].kind = "approve" =>
        LET w == job[h].waiver
        IN  /\ waivers[w].status = "requested"
            /\ ~HasApproved(waivers[w], job[h].user)
            /\ pc[h] = "append" => (w \in written <=> IsLast(w))
            /\ pc[h] # "append" => IsLast(w)

\* The handler wrote the entry of w, and has not yet appended its decision.
Pending(h, w) ==
    /\ pc[h] \in Sweeping \cup {"append"}
    /\ job[h].kind \in Deciding
    /\ job[h].waiver = w
    /\ sidecar[KeyOf(w)] = w
    /\ w \notin Ack => hash[w] = headText

\* The sweep of the handler has not yet come to w.
Unswept(h, w) ==
    \/ pc[h] \in {"sweep", "list"}
    \/ pc[h] = "decide" /\ w \in sweep[h].left

\* The handler took the entry of the trace ID, and has yet to withdraw w.
Withdrawing(h) == job[h].kind = "withdraw" /\ pc[h] # "write"
TakesAway(h, w) == Withdrawing(h) /\ (pc[h] = "withdraw" => w \in sweep[h].left)

Applies == sidecar["check"] # NoEntry /\ hash[sidecar["check"]] = headText

Reader(h) == ReadsNow(h) /\ Previewed(h) /\ (Withdrawing(h) => sidecar["trace"] = NoEntry)

\* What is written is decided, but for what the handlers in H have yet to append.
Told(H) == \A w \in written : waivers[w].status \in Over \/ \E h \in H : Pending(h, w)

\* The status of a waiver follows the entry, but for the sweeps in H.
CheckAgrees(H) ==
    \A w \in WaiverId \ Ack :
        /\ waivers[w].status = "approved" /\ hash[w] = headText => Applies
        /\ waivers[w].status = "approved" /\ hash[w] # headText => \E h \in H : Unswept(h, w)
        /\ waivers[w].status = "invalidated" /\ hash[w] = headText /\ Applies => \E h \in H : Unswept(h, w)

TraceAgrees(H) ==
    \A w \in Ack :
        /\ sidecar["trace"] = w => waivers[w].status = "approved" \/ \E h \in H : Pending(h, w)
        /\ waivers[w].status = "approved" /\ sidecar["trace"] = NoEntry => \E h \in H : TakesAway(h, w)

TurnOf(H) == (\A h \in H : Reader(h)) /\ Told(H) /\ CheckAgrees(H) /\ TraceAgrees(H)

Turn == (\A g, h \in Handler : Busy(g) /\ Busy(h) => g = h) /\ TurnOf(Handler)

IInv == Always /\ (inTurn => Turn)

-----------------------------------------------------------------------------
(* What each command makes of a waiver. *)

LEMMA EvolveOne == \A s, e : EvolveAll(s, <<e>>) = Evolve(s, e) /\ EvolveAll(s, << >>) = s
BY DEF EvolveAll

LEMMA EvolveTwo == \A s, d, e : EvolveAll(s, <<d, e>>) = Evolve(Evolve(s, d), e)
BY DEF EvolveAll

LEMMA PolicyIsOne ==
    /\ policy \in Policy
    /\ needed(policy) \in Nat
    /\ NeededApprovals = 1 => needed(policy) = 1
    /\ \A u : CanApprove(policy, AsNonAuthor(u))
<1>1. NeededApprovals \in 0 .. MaxNeeded /\ NeededApprovals \in Nat
  BY NeededAssumption, MaxNeededAssumption
<1>2. policy \in Policy
  BY <1>1 DEF policy, Policy
<1> QED
  BY <1>1, <1>2 DEF policy, needed, CanApprove, AsNonAuthor

\* A request of the handlers: it waits, or is approved by the one who asked.
LEMMA RequestedOf ==
    ASSUME NEW w \in WaiverId, NEW u \in User, NEW s \in State, s.status = "none",
           NEW t, t = EvolveAll(s, DecideRequest(s, RequestOf(w, u)))
    PROVE  /\ t \in State
           /\ t.policy = policy
           /\ t.scope = IF w \in Ack THEN "trace" ELSE "check"
           /\ t.status = IF Alone(w) THEN "approved" ELSE "requested"
<1> DEFINE r == RequestOf(w, u)
           d == AfterRequested(r)
<1>0. /\ policy \in Policy /\ policy.name = "n_approvals"
      /\ r.scope \in {"trace", "check"} /\ r.policy = policy /\ r.by = u
      /\ r.scope = IF w \in Ack THEN "trace" ELSE "check"
      /\ r.alone <=> Alone(w)
      /\ ReasonIsEnough(r)
      /\ DecidedAlone(r) <=> Alone(w)
  BY PolicyIsOne DEF RequestOf, ReasonIsEnough, DecidedAlone, conflictDecision, policy
<1>1. /\ NoWaiver \in State
      /\ NoWaiver.approvals = << >>
  <2>1. NoWaiver.policy \in Policy
    BY MaxNeededAssumption DEF NoWaiver, Policy
  <2> QED
    BY <2>1 DEF NoWaiver, State, Statuses, Scopes, Endings
<1>2. /\ d \in State
      /\ d.policy = policy /\ d.scope = r.scope /\ d.status = "requested"
      /\ d.approvals = << >>
  BY <1>0, <1>1 DEF AfterRequested, NoWaiver, State, Statuses, Scopes
<1>3. Evolve(s, Requested(r)) = d
  BY DEF Evolve, Requested
<1>4. CASE ~Alone(w)
  <2>1. DecideRequest(s, r) = <<Requested(r)>>
    BY <1>0, <1>4 DEF DecideRequest
  <2>2. t = d
    BY <2>1, <1>3, EvolveOne
  <2> QED
    BY <1>0, <1>2, <1>4, <2>2
<1>5. CASE Alone(w)
  <2> DEFINE e == Approved(u, TRUE)
  <2>1. DecideRequest(s, r) = <<Requested(r), e>>
    BY <1>0, <1>5 DEF DecideRequest
  <2>2. Evolve(d, e) = AfterApproved(d, e) /\ e.final /\ e.by = u
    BY DEF Evolve, Approved
  <2>3. t = AfterApproved(d, e)
    <3> HIDE DEF d, e, r
    <3> QED
      BY <2>1, <2>2, <1>3, EvolveTwo DEF r
  <2> HIDE DEF d, e
  <2>4. Append(d.approvals, u) \in Seq(User \cup {Speccy})
    BY <1>2, AppendProperties DEF State
  <2>5. t = [d EXCEPT !.approvals = Append(d.approvals, u), !.status = "approved", !.decidedBy = u]
    BY <2>2, <2>3 DEF AfterApproved
  <2> QED
    BY <1>0, <1>2, <1>5, <2>4, <2>5 DEF State, Statuses
<1> QED
  BY <1>4, <1>5

\* An approval: refused, one of several, or the last.
LEMMA ApprovedOf ==
    ASSUME NEW u \in User, NEW s \in State, s.status # "none" => s.policy = policy,
           NEW events, events = DecideApprove(s, AsNonAuthor(u)),
           NEW t, t = EvolveAll(s, events)
    PROVE  /\ t \in State
           /\ t.policy = s.policy /\ t.scope = s.scope
           /\ events # << >> <=> s.status = "requested" /\ ~HasApproved(s, u)
           /\ events = << >> => t = s
           /\ events # << >> =>
                 t.status = IF Len(s.approvals) + 1 >= needed(policy) THEN "approved" ELSE "requested"
<1>1. CASE s.status = "requested" /\ ~HasApproved(s, u)
  <2> DEFINE last == Len(s.approvals) + 1 >= needed(policy)
             e == Approved(u, last)
  <2>1. events = <<e>>
    BY <1>1, PolicyIsOne DEF DecideApprove, AsNonAuthor
  <2>2. Evolve(s, e) = AfterApproved(s, e) /\ e.by = u /\ e.final = last
    BY DEF Evolve, Approved
  <2> HIDE DEF e, last
  <2>3. t = AfterApproved(s, e)
    BY <2>1, <2>2, EvolveOne
  <2>4. Append(s.approvals, u) \in Seq(User \cup {Speccy})
    BY AppendProperties DEF State
  <2>5. events # << >>
    BY <2>1
  <2>6. t = IF last THEN [s EXCEPT !.approvals = Append(s.approvals, u), !.status = "approved", !.decidedBy = u]
                    ELSE [s EXCEPT !.approvals = Append(s.approvals, u)]
    BY <2>2, <2>3 DEF AfterApproved
  <2>7. t \in State /\ t.policy = s.policy /\ t.scope = s.scope
    BY <2>4, <2>6 DEF State, Statuses
  <2>8. t.status = IF last THEN "approved" ELSE "requested"
    BY <1>1, <2>6 DEF State
  <2> QED
    BY <1>1, <2>5, <2>7, <2>8 DEF last
<1>2. CASE ~(s.status = "requested" /\ ~HasApproved(s, u))
  <2>1. events = << >>
    BY <1>2 DEF DecideApprove, AsNonAuthor
  <2> QED
    BY <1>2, <2>1, EvolveOne
<1> QED
  BY <1>1, <1>2

LEMMA RejectedOf ==
    ASSUME NEW u \in User, NEW s \in State,
           DecideReject(s, AsNonAuthor(u), "long") # << >>,
           NEW t, t = EvolveAll(s, DecideReject(s, AsNonAuthor(u), "long"))
    PROVE  /\ t \in State
           /\ t.policy = s.policy /\ t.scope = s.scope
           /\ s.status = "requested" /\ t.status = "rejected"
<1>1. /\ s.status = "requested"
      /\ DecideReject(s, AsNonAuthor(u), "long") = <<Rejected(u)>>
  BY DEF DecideReject, AsNonAuthor
<1>2. Evolve(s, Rejected(u)) = [s EXCEPT !.status = "rejected", !.decidedBy = u]
  BY DEF Evolve, Rejected
<1>3. t = [s EXCEPT !.status = "rejected", !.decidedBy = u]
  BY <1>1, <1>2, EvolveOne
<1> QED
  BY <1>1, <1>3 DEF State, Statuses

LEMMA InvalidatedOf ==
    ASSUME NEW s \in State, NEW holds \in BOOLEAN,
           NEW t, t = EvolveAll(s, DecideInvalidate(s, holds, "section_changed"))
    PROVE  /\ t \in State
           /\ t.policy = s.policy /\ t.scope = s.scope
           /\ IF s.status = "approved" /\ ~holds THEN t.status = "invalidated" ELSE t = s
<1>1. CASE s.status = "approved" /\ ~holds
  <2>1. DecideInvalidate(s, holds, "section_changed") = <<Invalidated("section_changed")>>
    BY <1>1 DEF DecideInvalidate
  <2>2. Evolve(s, Invalidated("section_changed")) =
            [s EXCEPT !.status = "invalidated", !.endedBecause = "section_changed"]
    BY DEF Evolve, Invalidated, AfterInvalidated
  <2>3. t = [s EXCEPT !.status = "invalidated", !.endedBecause = "section_changed"]
    BY <2>1, <2>2, EvolveOne
  <2> QED
    BY <1>1, <2>3 DEF State, Statuses, Endings
<1>2. CASE ~(s.status = "approved" /\ ~holds)
  <2>1. DecideInvalidate(s, holds, "section_changed") = << >>
    BY <1>2 DEF DecideInvalidate
  <2> QED
    BY <1>2, <2>1, EvolveOne
<1> QED
  BY <1>1, <1>2

LEMMA RestoredOf ==
    ASSUME NEW s \in State, NEW holds \in BOOLEAN, NEW found \in BOOLEAN,
           NEW t, t = EvolveAll(s, DecideRestore(s, holds, found))
    PROVE  /\ t \in State
           /\ t.policy = s.policy /\ t.scope = s.scope
           /\ IF s.status = "invalidated" /\ holds /\ found THEN t.status = "approved" ELSE t = s
<1>1. CASE s.status = "invalidated" /\ holds /\ found
  <2>1. DecideRestore(s, holds, found) = <<Restored>>
    BY <1>1 DEF DecideRestore
  <2>2. Evolve(s, Restored) = [s EXCEPT !.status = "approved", !.endedBecause = "none"]
    BY DEF Evolve, Restored, AfterRestored
  <2>3. t = [s EXCEPT !.status = "approved", !.endedBecause = "none"]
    BY <2>1, <2>2, EvolveOne
  <2> QED
    BY <1>1, <2>3 DEF State, Statuses
<1>2. CASE ~(s.status = "invalidated" /\ holds /\ found)
  <2>1. DecideRestore(s, holds, found) = << >>
    BY <1>2 DEF DecideRestore
  <2> QED
    BY <1>2, <2>1, EvolveOne
<1> QED
  BY <1>1, <1>2

LEMMA WithdrawnOf ==
    ASSUME NEW s \in State, NEW u \in User,
           NEW events, events = DecideWithdraw(s, u),
           NEW t, t = EvolveAll(s, events)
    PROVE  /\ t \in State
           /\ t.policy = s.policy /\ t.scope = s.scope
           /\ events # << >> <=> s.status = "approved" /\ s.scope \in {"trace", "standalone"}
           /\ IF events # << >> THEN t.status = "withdrawn" ELSE t = s
<1>1. CASE s.status = "approved" /\ s.scope \in {"trace", "standalone"}
  <2>1. events = <<Withdrawn(u)>>
    BY <1>1 DEF DecideWithdraw, Acknowledgement
  <2>2. Evolve(s, Withdrawn(u)) = [s EXCEPT !.status = "withdrawn", !.withdrawnBy = u]
    BY DEF Evolve, Withdrawn
  <2>3. t = [s EXCEPT !.status = "withdrawn", !.withdrawnBy = u]
    BY <2>1, <2>2, EvolveOne
  <2>4. events # << >>
    BY <2>1
  <2> QED
    BY <1>1, <2>3, <2>4 DEF State, Statuses
<1>2. CASE ~(s.status = "approved" /\ s.scope \in {"trace", "standalone"})
  <2>1. events = << >>
    BY <1>2 DEF DecideWithdraw, Acknowledgement
  <2> QED
    BY <1>2, <2>1, EvolveOne
<1> QED
  BY <1>1, <1>2

-----------------------------------------------------------------------------
(* The steps by what they store. *)

Decides(h) ==
    \/ RequestWaiver(h) \/ ApproveWaiver(h) \/ WithdrawOne(h) \/ SweepOne(h)
    \/ \E w \in WaiverId, u \in User : RejectWaiver(h, w, u)

Reading(h) ==
    \/ \E w \in WaiverId, u \in User : Approve(h, w, u)
    \/ \E u \in User : Withdraw(h, u)
    \/ ReadDoc(h) \/ ReadDecisions(h) \/ WithdrawRows(h) \/ SweepDoc(h) \/ SweepList(h)

Ending(h) == ReadDecisionsRefused(h) \/ WriteSidecarRefused(h) \/ WithdrawEnd(h) \/ SweepEnd(h) \/ Fail(h)

Storing(h) ==
    \/ \E w \in WaiverId, u \in User : Ask(h, w, u)
    \/ \E t \in Text : Edit(h, t)
    \/ WriteFile(h) \/ WriteSidecar(h)

LEMMA StepKinds == Next => \E h \in Handler : Decides(h) \/ Reading(h) \/ Ending(h) \/ Storing(h)
BY DEF Next, Decides, Reading, Ending, Storing

LEMMA ReadingStores ==
    \A h \in Handler : Reading(h) \/ Ending(h) => UNCHANGED <<mode, versions, file, waivers, hash, written>>
<1> SUFFICES ASSUME NEW h \in Handler, Reading(h) \/ Ending(h)
             PROVE  UNCHANGED <<mode, versions, file, waivers, hash, written>>
  OBVIOUS
<1>1. CASE Reading(h)
  BY <1>1 DEF Reading, Approve, Withdraw, ReadDoc, ReadDecisions, WithdrawRows, SweepDoc, SweepList, stored
<1>2. CASE Ending(h)
  BY <1>2 DEF Ending, ReadDecisionsRefused, WriteSidecarRefused, WithdrawEnd, SweepEnd, Fail, stored
<1> QED
  BY <1>1, <1>2

\* What a step makes of the history of overlaps.
Overlap(h) ==
    \/ UNCHANGED overlap
    \/ Fail(h) /\ overlap' = [overlap EXCEPT !.handlers = @ \ {h}]
    \/ ApproveWaiver(h)

LEMMA OverlapSteps ==
    ASSUME NEW h \in Handler, Decides(h) \/ Reading(h) \/ Ending(h) \/ Storing(h)
    PROVE  Overlap(h)
<1>1. CASE Decides(h)
  BY <1>1 DEF Decides, RequestWaiver, WithdrawOne, SweepOne, RejectWaiver, Overlap
<1>2. CASE Reading(h)
  BY <1>2 DEF Reading, Approve, Withdraw, ReadDoc, ReadDecisions, WithdrawRows, SweepDoc, SweepList, stored, Overlap
<1>3. CASE Ending(h)
  BY <1>3 DEF Ending, ReadDecisionsRefused, WriteSidecarRefused, WithdrawEnd, SweepEnd, Fail, stored, Overlap
<1>4. CASE Storing(h)
  BY <1>4 DEF Storing, Ask, Edit, WriteFile, WriteSidecar, Overlap
<1> QED
  BY <1>1, <1>2, <1>3, <1>4

\* What an approval records of those it overtakes, and of its own end.
LEMMA OverlapTypes ==
    ASSUME TypeOK, Jobs, Next
    PROVE  overlap' \in [handlers : SUBSET Handler, waivers : SUBSET WaiverId]
<1>0. overlap \in [handlers : SUBSET Handler, waivers : SUBSET WaiverId]
  BY DEF TypeOK
<1>1. PICK h \in Handler : Decides(h) \/ Reading(h) \/ Ending(h) \/ Storing(h)
  BY StepKinds
<1>2. CASE ApproveWaiver(h)
  <2>1. job[h].waiver \in WaiverId
    BY <1>2 DEF ApproveWaiver, Jobs, JobFits, Deciding
  <2> DEFINE w == job[h].waiver
             events == DecideApprove(waivers[w], AsNonAuthor(job[h].user))
             last == h \in overlap.handlers /\ EvolveAll(waivers[w], events).status = "approved"
  <2>2. overlap' = [handlers |-> (overlap.handlers \ {h}) \cup {g \in Approving(h, w) : events # << >>},
                    waivers |-> overlap.waivers \cup {x \in {w} : last}]
    BY <1>2 DEF ApproveWaiver
  <2> HIDE DEF events, last
  <2> QED
    BY <1>0, <2>1, <2>2 DEF Approving
<1> QED
  BY <1>0, <1>1, <1>2, OverlapSteps DEF Overlap

LEMMA StoringStores == \A h \in Handler : Storing(h) => UNCHANGED waivers
BY DEF Storing, Ask, Edit, WriteFile, WriteSidecar

LEMMA DecidingStores ==
    \A h \in Handler : Decides(h) => UNCHANGED <<mode, versions, file, hash, written>>
BY DEF Decides, RequestWaiver, ApproveWaiver, WithdrawOne, SweepOne, RejectWaiver

-----------------------------------------------------------------------------
(* Types. *)

Job == [kind : {"none", "ask", "alone", "approve", "edit", "withdraw"},
        waiver : WaiverId \cup {NoEntry}, user : User \cup {NoUser}]

Sweep == [version : 0 .. MaxVersions, rows : [WaiverId -> Statuses],
          left : SUBSET WaiverId, seen : SUBSET Sidecar]

LEMMA EntryTypes ==
    /\ NoEntries \in Sidecar
    /\ \A w \in WaiverId : w # NoEntry /\ KeyOf(w) \in Key
    /\ NoSweep \in Sweep
    /\ 1 \in 1 .. MaxVersions /\ MaxVersions \in Nat
<1>1. 0 \in 0 .. MaxVersions /\ 1 \in 1 .. MaxVersions /\ MaxVersions \in Nat
  BY MaxVersionsAssumption
<1>2. NoSweep.rows \in [WaiverId -> Statuses]
  BY DEF NoSweep, Statuses
<1>3. NoEntries \in Sidecar
  BY DEF NoEntries, Sidecar
<1> QED
  BY <1>1, <1>2, <1>3, NoEntryAssumption DEF NoSweep, KeyOf, Key, Sweep

\* A sidecar that a handler reads, of any version there is.
LEMMA DecisionsTypes ==
    ASSUME TypeOK, NEW v \in 1 .. head
    PROVE  Decisions(v) \in Sidecar
<1>1. versions[v] \in [text : Text, sidecar : Sidecar]
  BY ElementOfSeq DEF TypeOK, head
<1> QED
  BY <1>1 DEF Decisions, TypeOK

LEMMA VersionTypes ==
    ASSUME TypeOK
    PROVE  /\ head \in Nat /\ head >= 1 /\ head \in 1 .. head
           /\ \A v \in 1 .. head : versions[v] \in [text : Text, sidecar : Sidecar]
<1>1. versions \in Seq([text : Text, sidecar : Sidecar]) /\ head \in Nat /\ head >= 1
  BY DEF TypeOK, head
<1>2. \A v \in 1 .. head : versions[v] \in [text : Text, sidecar : Sidecar]
  BY <1>1, ElementOfSeq DEF head
<1> QED
  BY <1>1, <1>2

\* The doc with one more version.
LEMMA NewVersion ==
    ASSUME TypeOK, NEW n \in [text : Text, sidecar : Sidecar], versions' = Append(versions, n)
    PROVE  /\ versions' \in Seq([text : Text, sidecar : Sidecar])
           /\ head' = head + 1
           /\ versions'[head + 1] = n
           /\ \A v \in 1 .. head : versions'[v] = versions[v]
BY AppendProperties DEF TypeOK, head

\* The entry of a waiver in the place of its key, or none for the trace ID.
LEMMA ContentOf ==
    ASSUME TypeOK, Jobs, NEW h \in Handler, pc[h] = "write"
    PROVE  /\ Content(h) \in Sidecar
           /\ job[h].kind \in Deciding =>
                 /\ job[h].waiver \in WaiverId
                 /\ Content(h)[KeyOf(job[h].waiver)] = job[h].waiver
                 /\ \A k \in Key \ {KeyOf(job[h].waiver)} : Content(h)[k] = dec[h][k]
           /\ job[h].kind \notin Deciding =>
                 /\ job[h].kind = "withdraw" /\ job[h].waiver = NoEntry
                 /\ Content(h)["trace"] = NoEntry /\ Content(h)["check"] = dec[h]["check"]
<1>0. dec[h] \in [Key -> WaiverId \cup {NoEntry}]
  BY DEF TypeOK, Sidecar
<1>1. CASE job[h].kind = "withdraw"
  <2>1. Content(h) = [dec[h] EXCEPT !["trace"] = NoEntry]
    BY <1>1 DEF Content
  <2> QED
    BY <1>0, <1>1, <2>1 DEF Jobs, JobFits, Deciding, Sidecar, Key
<1>2. CASE job[h].kind # "withdraw"
  <2>1. job[h].kind \in Deciding /\ job[h].waiver \in WaiverId
    BY <1>2 DEF Jobs, JobFits
  <2>2. Content(h) = [dec[h] EXCEPT ![KeyOf(job[h].waiver)] = job[h].waiver]
    BY <1>2 DEF Content
  <2>3. KeyOf(job[h].waiver) \in Key
    BY <2>1, EntryTypes
  <2> HIDE DEF Content
  <2> QED
    BY <1>0, <2>1, <2>2, <2>3 DEF Sidecar
<1> QED
  BY <1>1, <1>2

\* What becomes of a waiver in a step.
Transition(w) ==
    /\ waivers'[w] \in State
    /\ waivers'[w].status # "none" =>
          /\ waivers'[w].policy = policy
          /\ waivers'[w].scope = IF w \in Ack THEN "trace" ELSE "check"
    /\ \/ waivers'[w] = waivers[w]
       \/ /\ waivers[w].status = "none"
          /\ waivers'[w].status = IF Alone(w) THEN "approved" ELSE "requested"
       \/ /\ waivers[w].status = "requested"
          /\ waivers'[w].status \in {"requested", "approved", "rejected"}
       \/ w \notin Ack /\ waivers[w].status = "approved" /\ waivers'[w].status = "invalidated"
       \/ w \notin Ack /\ waivers[w].status = "invalidated" /\ waivers'[w].status = "approved"
       \/ w \in Ack /\ waivers[w].status = "approved" /\ waivers'[w].status = "withdrawn"

\* A new waiver is moved by the handler that has it, and one that waits is
\* approved by a handler that appends.
Appended(w) ==
    /\ waivers[w].status = "none" /\ waivers'[w] # waivers[w] =>
          \E h \in Handler : job[h].kind \in {"ask", "alone"} /\ job[h].waiver = w /\ job'[h] = NoJob
    /\ \/ waivers[w].status \in {"none", "requested"} /\ waivers'[w].status \in Over
       \/ waivers[w].status = "requested" /\ waivers'[w].status = "requested" /\ waivers'[w] # waivers[w]
       => \E h \in Handler :
             pc[h] = "append" /\ job[h].kind \in Deciding /\ job[h].waiver = w /\ job'[h] = NoJob

LEMMA WaiversStep ==
    ASSUME TypeOK, Jobs, Asked, Reads, Streams, Next
    PROVE  /\ waivers' \in [WaiverId -> State]
           /\ \A w \in WaiverId : Transition(w) /\ Appended(w)
<1>0. waivers \in [WaiverId -> State]
  BY DEF TypeOK
<1>a. ASSUME UNCHANGED waivers
      PROVE  /\ waivers' \in [WaiverId -> State]
             /\ \A w \in WaiverId : Transition(w) /\ Appended(w)
  BY <1>0, <1>a DEF Transition, Appended, Streams, Over
<1>b. ASSUME NEW x \in WaiverId, NEW t \in State, waivers' = [waivers EXCEPT ![x] = t],
             Transition(x), Appended(x)
      PROVE  /\ waivers' \in [WaiverId -> State]
             /\ \A w \in WaiverId : Transition(w) /\ Appended(w)
  <2>1. waivers' \in [WaiverId -> State] /\ \A w \in WaiverId \ {x} : waivers'[w] = waivers[w]
    BY <1>0, <1>b
  <2>2. ASSUME NEW w \in WaiverId \ {x} PROVE Transition(w) /\ Appended(w)
    BY <1>0, <2>1 DEF Transition, Appended, Streams, Over
  <2> QED
    BY <1>b, <2>1, <2>2
<1> SUFFICES ASSUME NEW h \in Handler, Decides(h)
             PROVE  /\ waivers' \in [WaiverId -> State]
                    /\ \A w \in WaiverId : Transition(w) /\ Appended(w)
  BY <1>a, StepKinds, ReadingStores, StoringStores DEF stored
<1>1. CASE RequestWaiver(h)
  <2> DEFINE x == job[h].waiver
             u == job[h].user
             t == EvolveAll(waivers[x], DecideRequest(waivers[x], RequestOf(x, u)))
  <2>1. job[h].kind \in {"ask", "alone"} /\ x \in WaiverId /\ u \in User
    BY <1>1 DEF RequestWaiver, Jobs, JobFits, Deciding
  <2>2. waivers[x].status = "none" /\ waivers[x] \in State
    BY <1>0, <2>1 DEF Asked
  <2>3. waivers' = [waivers EXCEPT ![x] = t]
    BY <1>1 DEF RequestWaiver, Apply
  <2>4. /\ t \in State /\ t.policy = policy
        /\ t.scope = IF x \in Ack THEN "trace" ELSE "check"
        /\ t.status = IF Alone(x) THEN "approved" ELSE "requested"
    <3> HIDE DEF t, x, u
    <3> QED
      BY <2>1, <2>2, RequestedOf DEF t
  <2>5. Alone(x) => pc[h] = "append" /\ job[h].kind = "alone"
    BY <1>1, <2>1 DEF RequestWaiver, Asked, Jobs, JobFits
  <2> HIDE DEF t
  <2>6. waivers'[x] = t /\ job'[h] = NoJob
    <3>1. job' = [job EXCEPT ![h] = NoJob] /\ job \in [Handler -> Job]
      BY <1>1 DEF RequestWaiver, Return, TypeOK, Job
    <3> QED
      BY <1>0, <2>1, <2>3, <3>1
  <2>7. Transition(x) /\ Appended(x)
    BY <2>1, <2>2, <2>4, <2>5, <2>6 DEF Transition, Appended, Over, Deciding
  <2> QED
    BY <1>b, <2>1, <2>3, <2>4, <2>7
<1>2. CASE ApproveWaiver(h)
  <2> DEFINE x == job[h].waiver
             u == job[h].user
             events == DecideApprove(waivers[x], AsNonAuthor(u))
             t == EvolveAll(waivers[x], events)
  <2>1. pc[h] = "append" /\ job[h].kind \in Deciding /\ x \in WaiverId /\ u \in User
    BY <1>2 DEF ApproveWaiver, Jobs, JobFits, Deciding
  <2>2. /\ waivers[x] \in State
        /\ waivers[x].status # "none" => waivers[x].policy = policy
    BY <1>0, <2>1 DEF Streams
  <2>3. waivers' = [waivers EXCEPT ![x] = t]
    BY <1>2 DEF ApproveWaiver, Apply
  <2>4. /\ t \in State
        /\ t.policy = waivers[x].policy /\ t.scope = waivers[x].scope
        /\ \/ t = waivers[x]
           \/ waivers[x].status = "requested" /\ t.status \in {"requested", "approved"}
    <3> HIDE DEF events, t, x, u
    <3> QED
      BY <2>1, <2>2, ApprovedOf DEF t, events
  <2> HIDE DEF t
  <2>6. waivers'[x] = t /\ job'[h] = NoJob
    <3>1. job' = [job EXCEPT ![h] = NoJob] /\ job \in [Handler -> Job]
      BY <1>2 DEF ApproveWaiver, Return, TypeOK, Job
    <3> QED
      BY <1>0, <2>1, <2>3, <3>1
  <2>7. Transition(x) /\ Appended(x)
    BY <2>1, <2>2, <2>4, <2>6 DEF Transition, Appended, Over, Streams
  <2> QED
    BY <1>b, <2>1, <2>3, <2>4, <2>7
<1>3. CASE WithdrawOne(h)
  <2> PICK x \in sweep[h].left : Apply(x, DecideWithdraw(waivers[x], job[h].user))
    BY <1>3 DEF WithdrawOne
  <2> DEFINE u == job[h].user
             events == DecideWithdraw(waivers[x], u)
             t == EvolveAll(waivers[x], events)
  <2>1. x \in WaiverId /\ x \in Ack /\ u \in User
    BY <1>3, AckAssumption DEF WithdrawOne, Jobs, JobFits, Reads, ReadsFit
  <2>2. /\ waivers[x] \in State
        /\ waivers[x].status # "none" => waivers[x].policy = policy /\ waivers[x].scope = "trace"
    BY <1>0, <2>1 DEF Streams
  <2>3. waivers' = [waivers EXCEPT ![x] = t]
    BY DEF Apply
  <2>4. /\ t \in State
        /\ t.policy = waivers[x].policy /\ t.scope = waivers[x].scope
        /\ t = waivers[x] \/ (waivers[x].status = "approved" /\ t.status = "withdrawn")
    <3> HIDE DEF events, t, u
    <3> QED
      BY <2>1, <2>2, WithdrawnOf DEF t, events
  <2> HIDE DEF t
  <2>6. waivers'[x] = t
    BY <1>0, <2>1, <2>3
  <2>7. Transition(x) /\ Appended(x)
    BY <2>1, <2>2, <2>4, <2>6 DEF Transition, Appended, Over
  <2> QED
    BY <1>b, <2>1, <2>3, <2>4, <2>7
<1>4. CASE SweepOne(h)
  <2>0. PICK x \in sweep[h].left :
            \/ Apply(x, DecideInvalidate(waivers[x], Holds(h, x), "section_changed"))
            \/ Apply(x, DecideRestore(waivers[x], Holds(h, x), InSidecar(h, x)))
    BY <1>4 DEF SweepOne
  <2>1. x \in WaiverId /\ x \notin Ack
    <3>1. sweep[h].left \subseteq WaiverId
      BY DEF TypeOK
    <3> QED
      BY <1>4, <3>1 DEF SweepOne, Reads, ReadsFit
  <2>2. /\ waivers[x] \in State
        /\ waivers[x].status # "none" => waivers[x].policy = policy /\ waivers[x].scope = "check"
    BY <1>0, <2>1 DEF Streams
  <2>3. PICK t \in State :
            /\ waivers' = [waivers EXCEPT ![x] = t]
            /\ t.policy = waivers[x].policy /\ t.scope = waivers[x].scope
            /\ \/ t = waivers[x]
               \/ waivers[x].status = "approved" /\ t.status = "invalidated"
               \/ waivers[x].status = "invalidated" /\ t.status = "approved"
    <3> DEFINE holds == Holds(h, x)
               found == InSidecar(h, x)
               i == EvolveAll(waivers[x], DecideInvalidate(waivers[x], holds, "section_changed"))
               r == EvolveAll(waivers[x], DecideRestore(waivers[x], holds, found))
    <3>1. holds \in BOOLEAN /\ found \in BOOLEAN
      BY DEF Holds, InSidecar
    <3>2. waivers' = [waivers EXCEPT ![x] = i] \/ waivers' = [waivers EXCEPT ![x] = r]
      BY <2>0 DEF Apply
    <3> HIDE DEF holds, found, i, r
    <3>3. /\ i \in State /\ i.policy = waivers[x].policy /\ i.scope = waivers[x].scope
          /\ i = waivers[x] \/ (waivers[x].status = "approved" /\ i.status = "invalidated")
      BY <2>2, <3>1, InvalidatedOf DEF i
    <3>4. /\ r \in State /\ r.policy = waivers[x].policy /\ r.scope = waivers[x].scope
          /\ r = waivers[x] \/ (waivers[x].status = "invalidated" /\ r.status = "approved")
      BY <2>2, <3>1, RestoredOf DEF r
    <3> QED
      BY <3>2, <3>3, <3>4
  <2>6. waivers'[x] = t
    BY <1>0, <2>1, <2>3
  <2>7. Transition(x) /\ Appended(x)
    BY <2>1, <2>2, <2>3, <2>6 DEF Transition, Appended, Over
  <2> QED
    BY <1>b, <2>1, <2>3, <2>7
<1>5. ASSUME NEW x \in WaiverId, NEW u \in User, RejectWaiver(h, x, u)
      PROVE  /\ waivers' \in [WaiverId -> State]
             /\ \A w \in WaiverId : Transition(w) /\ Appended(w)
  <2> DEFINE t == EvolveAll(waivers[x], DecideReject(waivers[x], AsNonAuthor(u), "long"))
  <2>1. DecideReject(waivers[x], AsNonAuthor(u), "long") # << >> /\ waivers[x] \in State
    BY <1>0, <1>5 DEF RejectWaiver
  <2>3. waivers' = [waivers EXCEPT ![x] = t]
    BY <1>5 DEF RejectWaiver, Apply
  <2>4. /\ t \in State
        /\ t.policy = waivers[x].policy /\ t.scope = waivers[x].scope
        /\ waivers[x].status = "requested" /\ t.status = "rejected"
    <3> HIDE DEF t
    <3> QED
      BY <2>1, RejectedOf DEF t
  <2> HIDE DEF t
  <2>6. waivers'[x] = t
    BY <1>0, <2>3
  <2>7. Transition(x) /\ Appended(x)
    BY <2>4, <2>6 DEF Transition, Appended, Over, Streams
  <2> QED
    BY <1>b, <2>3, <2>4, <2>7
<1> QED
  BY <1>1, <1>2, <1>3, <1>4, <1>5 DEF Decides

LEMMA StoredTypes ==
    ASSUME TypeOK, Jobs, Next
    PROVE  /\ mode' = mode /\ mode' \in Modes
           /\ versions' \in Seq([text : Text, sidecar : Sidecar]) /\ head' \in 1 .. MaxVersions
           /\ file' \in Sidecar
           /\ hash' \in [WaiverId -> Text]
           /\ written' \subseteq WaiverId
<1>0. /\ mode \in Modes
      /\ versions \in Seq([text : Text, sidecar : Sidecar]) /\ head \in 1 .. MaxVersions
      /\ file \in Sidecar
      /\ hash \in [WaiverId -> Text]
      /\ written \subseteq WaiverId
      /\ MaxVersions \in Nat /\ MaxLocal \in 1 .. MaxVersions
      /\ versions[head] \in [text : Text, sidecar : Sidecar]
  BY VersionTypes, MaxVersionsAssumption DEF TypeOK
<1>1. CASE UNCHANGED <<mode, versions, file, hash, written>>
  BY <1>0, <1>1 DEF head
<1>2. PICK h \in Handler : Decides(h) \/ Reading(h) \/ Ending(h) \/ Storing(h)
  BY StepKinds
<1>3. ASSUME NEW w \in WaiverId, NEW u \in User, Ask(h, w, u)
      PROVE  UNCHANGED <<mode, versions, file, written>> /\ hash' \in [WaiverId -> Text]
  BY <1>0, <1>3 DEF Ask
<1>4. ASSUME NEW n \in [text : Text, sidecar : Sidecar], versions' = Append(versions, n), head < MaxVersions
      PROVE  versions' \in Seq([text : Text, sidecar : Sidecar]) /\ head' \in 1 .. MaxVersions
  BY <1>0, <1>4, NewVersion
<1>5. ASSUME NEW t \in Text, Edit(h, t)
      PROVE  /\ UNCHANGED <<mode, file, hash, written>>
             /\ versions' \in Seq([text : Text, sidecar : Sidecar]) /\ head' \in 1 .. MaxVersions
  <2>1. [versions[head] EXCEPT !.text = t] \in [text : Text, sidecar : Sidecar]
    BY <1>0
  <2>2. head < MaxVersions
    BY <1>0, <1>5 DEF Edit
  <2> QED
    BY <1>4, <1>5, <2>1, <2>2 DEF Edit
<1>6. CASE WriteFile(h)
  <2>1. Content(h) \in Sidecar
    BY <1>6, ContentOf DEF WriteFile
  <2>2. written' \subseteq WaiverId
    BY <1>0, <1>6 DEF WriteFile, Wrote, TypeOK
  <2> QED
    BY <1>0, <1>6, <2>1, <2>2 DEF WriteFile, head
<1>7. CASE WriteSidecar(h)
  <2>1. Content(h) \in Sidecar
    BY <1>7, ContentOf DEF WriteSidecar
  <2>2. written' \subseteq WaiverId
    BY <1>0, <1>7 DEF WriteSidecar, Wrote, TypeOK
  <2>3. [versions[head] EXCEPT !.sidecar = Content(h)] \in [text : Text, sidecar : Sidecar]
    BY <1>0, <2>1
  <2>4. versions' \in Seq([text : Text, sidecar : Sidecar]) /\ head' \in 1 .. MaxVersions
    <3>1. CASE UNCHANGED versions
      BY <1>0, <3>1 DEF head
    <3>2. CASE head < MaxVersions /\ versions' = Append(versions, [versions[head] EXCEPT !.sidecar = Content(h)])
      BY <1>4, <2>3, <3>2
    <3> QED
      BY <1>7, <3>1, <3>2 DEF WriteSidecar
  <2> QED
    BY <1>0, <1>7, <2>2, <2>4 DEF WriteSidecar
<1>8. CASE Reading(h) \/ Ending(h)
  BY <1>1, <1>8, ReadingStores DEF stored
<1>9. CASE Decides(h)
  BY <1>1, <1>9, DecidingStores
<1>10. CASE Storing(h)
  BY <1>0, <1>3, <1>5, <1>6, <1>7, <1>10 DEF Storing, head
<1> QED
  BY <1>2, <1>8, <1>9, <1>10

\* What a handler has of its own.
OwnTypes ==
    /\ pc \in [Handler -> Steps]
    /\ job \in [Handler -> Job]
    /\ base \in [Handler -> 1 .. MaxVersions]
    /\ dec \in [Handler -> Sidecar]
    /\ sweep \in [Handler -> Sweep]
    /\ inTurn \in BOOLEAN

LEMMA SweptOne ==
    ASSUME OwnTypes, NEW h \in Handler, SweepOne(h)
    PROVE  \E w \in sweep[h].left, d \in {SweepDecisions(h), sweep[h].seen} :
              /\ sweep' = [sweep EXCEPT ![h] =
                             [version |-> sweep[h].version, rows |-> sweep[h].rows,
                              left |-> sweep[h].left \ {w}, seen |-> d]]
              /\ IF sweep[h].rows[w] = "approved"
                   THEN Apply(w, DecideInvalidate(waivers[w], Holds(h, w), "section_changed"))
                   ELSE Apply(w, DecideRestore(waivers[w], Holds(h, w), InSidecar(h, w)))
<1> DEFINE all == SweepDecisions(h)
           After(w, d) == [version |-> sweep[h].version, rows |-> sweep[h].rows,
                           left |-> sweep[h].left \ {w}, seen |-> d]
<1>1. sweep \in [Handler -> Sweep] /\ sweep[h] \in Sweep
  BY DEF OwnTypes
<1>2. PICK w \in sweep[h].left :
        IF sweep[h].rows[w] = "approved"
          THEN /\ Apply(w, DecideInvalidate(waivers[w], Holds(h, w), "section_changed"))
               /\ sweep' = [sweep EXCEPT ![h].left = @ \ {w}]
          ELSE /\ Apply(w, DecideRestore(waivers[w], Holds(h, w), InSidecar(h, w)))
               /\ sweep' = [sweep EXCEPT
                               ![h].left = @ \ {w},
                               ![h].seen = IF Holds(h, w) THEN all ELSE @]
  BY DEF SweepOne
<1> HIDE DEF all
<1>3. CASE sweep[h].rows[w] = "approved"
  <2>1. sweep' = [sweep EXCEPT ![h] = After(w, sweep[h].seen)]
    BY <1>1, <1>2, <1>3 DEF Sweep
  <2> QED
    BY <1>2, <1>3, <2>1
<1>4. CASE sweep[h].rows[w] # "approved" /\ Holds(h, w)
  <2>1. sweep' = [sweep EXCEPT ![h] = After(w, all)]
    BY <1>1, <1>2, <1>4 DEF Sweep
  <2> QED
    BY <1>2, <1>4, <2>1 DEF all
<1>5. CASE sweep[h].rows[w] # "approved" /\ ~Holds(h, w)
  <2>1. sweep' = [sweep EXCEPT ![h] = After(w, sweep[h].seen)]
    BY <1>1, <1>2, <1>5 DEF Sweep
  <2> QED
    BY <1>2, <1>5, <2>1
<1> QED
  BY <1>3, <1>4, <1>5

LEMMA ReturnTypes == \A h \in Handler : OwnTypes /\ Return(h) /\ inTurn' \in BOOLEAN => OwnTypes'
<1> SUFFICES ASSUME NEW h \in Handler, OwnTypes, Return(h), inTurn' \in BOOLEAN PROVE OwnTypes'
  OBVIOUS
<1>1. NoJob \in Job /\ NoSweep \in Sweep /\ NoEntries \in Sidecar /\ 1 \in 1 .. MaxVersions /\ "idle" \in Steps
  BY EntryTypes DEF NoJob, Job, Sweep, Steps
<1> HIDE DEF NoJob, NoSweep
<1> QED
  BY <1>1 DEF Return, GoTo, OwnTypes

LEMMA HandlerTypes ==
    ASSUME TypeOK, Jobs, Reads, Next
    PROVE  OwnTypes'
<1>0. /\ OwnTypes
      /\ head \in 1 .. MaxVersions /\ head \in 0 .. MaxVersions
      /\ waivers \in [WaiverId -> State]
  BY DEF TypeOK, OwnTypes, Job, Sweep
<1>1. PICK h \in Handler : Decides(h) \/ Reading(h) \/ Ending(h) \/ Storing(h)
  BY StepKinds
<1>2. ASSUME NEW r \in Job, job' = [job EXCEPT ![h] = r] PROVE job' \in [Handler -> Job]
  BY <1>0, <1>2 DEF OwnTypes
<1>3. ASSUME NEW s \in Steps, GoTo(h, s) PROVE pc' \in [Handler -> Steps]
  BY <1>0, <1>3 DEF OwnTypes, GoTo
<1>4. Begins => inTurn' \in BOOLEAN
  BY <1>0 DEF Begins, OwnTypes
<1>s. {"idle", "ask", "read", "decisions", "write", "sweep", "list", "decide", "append", "rows", "withdraw"} = Steps
  BY DEF Steps
<1>5. CASE Ending(h)
  <2>1. CASE Return(h)
    <3>1. inTurn' \in BOOLEAN
      BY <1>0, <1>5 DEF Ending, ReadDecisionsRefused, WriteSidecarRefused, WithdrawEnd, SweepEnd, Fail, OwnTypes
    <3> QED
      BY <1>0, <2>1, <3>1, ReturnTypes
  <2>2. CASE SweepEnd(h) /\ ~Return(h)
    <3>1. UNCHANGED <<job, base, dec, inTurn>> /\ sweep' = [sweep EXCEPT ![h] = NoSweep]
      BY <2>2 DEF SweepEnd
    <3>2. pc' \in [Handler -> Steps]
      BY <1>3, <1>s, <2>2 DEF SweepEnd
    <3>3. NoSweep \in Sweep
      BY EntryTypes DEF Sweep
    <3> HIDE DEF NoSweep
    <3> QED
      BY <1>0, <3>1, <3>2, <3>3 DEF OwnTypes
  <2> QED
    BY <1>5, <2>1, <2>2 DEF Ending, ReadDecisionsRefused, WriteSidecarRefused, WithdrawEnd, Fail
<1>6. CASE Decides(h)
  <2>1. CASE Return(h) /\ inTurn' = inTurn
    BY <1>0, <2>1, ReturnTypes DEF OwnTypes
  <2>2. ASSUME NEW w \in WaiverId, NEW u \in User, RejectWaiver(h, w, u) PROVE OwnTypes'
    BY <1>0, <1>4, <2>2 DEF OwnTypes, RejectWaiver
  <2>3. CASE WithdrawOne(h) /\ ~Return(h)
    <3>1. UNCHANGED <<pc, job, base, dec, inTurn>>
      BY <2>3 DEF WithdrawOne
    <3>2. PICK w \in sweep[h].left : sweep' = [sweep EXCEPT ![h].left = @ \ {w}]
      BY <2>3 DEF WithdrawOne
    <3>3. sweep' \in [Handler -> Sweep]
      BY <1>0, <3>2 DEF OwnTypes, Sweep
    <3> QED
      BY <1>0, <3>1, <3>3 DEF OwnTypes
  <2>4. CASE SweepOne(h)
    <3>1. UNCHANGED <<pc, job, base, dec, inTurn>>
      BY <2>4 DEF SweepOne
    <3>2. SweepDecisions(h) \subseteq Sidecar
      <4>1. sweep[h].version \in 1 .. head
        BY <1>0, <2>4 DEF SweepOne, Reads, ReadsFit, OwnTypes, Sweep
      <4>2. sweep[h].seen \subseteq Sidecar
        BY <1>0 DEF OwnTypes, Sweep
      <4> QED
        BY <4>1, <4>2, DecisionsTypes DEF SweepDecisions
    <3>3. PICK w \in sweep[h].left, d \in {SweepDecisions(h), sweep[h].seen} :
              sweep' = [sweep EXCEPT ![h] =
                          [version |-> sweep[h].version, rows |-> sweep[h].rows,
                           left |-> sweep[h].left \ {w}, seen |-> d]]
      BY <1>0, <2>4, SweptOne
    <3>4. sweep' \in [Handler -> Sweep]
      <4>1. sweep[h] \in Sweep /\ d \subseteq Sidecar
        BY <1>0, <3>2 DEF OwnTypes, Sweep
      <4> QED
        BY <1>0, <3>3, <4>1 DEF OwnTypes, Sweep
    <3> QED
      BY <1>0, <3>1, <3>4 DEF OwnTypes
  <2> QED
    BY <1>6, <2>1, <2>2, <2>3, <2>4 DEF Decides, RequestWaiver, ApproveWaiver, WithdrawOne
<1>7. CASE Reading(h)
  <2>1. ASSUME NEW w \in WaiverId, NEW u \in User, Approve(h, w, u) PROVE OwnTypes'
    <3>1. [kind |-> "approve", waiver |-> w, user |-> u] \in Job
      BY DEF Job
    <3>2. job' \in [Handler -> Job]
      BY <1>2, <2>1, <3>1 DEF Approve
    <3>3. pc' \in [Handler -> Steps]
      BY <1>3, <1>s, <2>1 DEF Approve
    <3>4. UNCHANGED <<base, dec, sweep>> /\ inTurn' \in BOOLEAN
      BY <1>4, <2>1 DEF Approve
    <3> QED
      BY <1>0, <3>2, <3>3, <3>4 DEF OwnTypes
  <2>2. ASSUME NEW u \in User, Withdraw(h, u) PROVE OwnTypes'
    <3>1. [kind |-> "withdraw", waiver |-> NoEntry, user |-> u] \in Job
      BY DEF Job
    <3>2. job' \in [Handler -> Job]
      BY <1>2, <2>2, <3>1 DEF Withdraw
    <3>3. pc' \in [Handler -> Steps]
      BY <1>3, <1>s, <2>2 DEF Withdraw
    <3>4. dec' \in [Handler -> Sidecar]
      BY <1>0, <2>2, DecisionsTypes DEF Withdraw, OwnTypes
    <3>5. base' \in [Handler -> 1 .. MaxVersions] /\ UNCHANGED sweep /\ inTurn' \in BOOLEAN
      BY <1>0, <1>4, <2>2 DEF Withdraw, OwnTypes
    <3> QED
      BY <1>0, <3>2, <3>3, <3>4, <3>5 DEF OwnTypes
  <2>3. CASE ReadDoc(h)
    <3>1. pc' \in [Handler -> Steps]
      BY <1>3, <1>s, <2>3 DEF ReadDoc
    <3> QED
      BY <1>0, <2>3, <3>1 DEF ReadDoc, OwnTypes
  <2>4. CASE ReadDecisions(h)
    <3>1. pc' \in [Handler -> Steps]
      BY <1>3, <1>s, <2>4 DEF ReadDecisions
    <3>2. base[h] \in 1 .. head
      BY <1>0 DEF Reads, ReadsFit, OwnTypes
    <3>3. dec' \in [Handler -> Sidecar]
      BY <1>0, <2>4, <3>2, DecisionsTypes DEF ReadDecisions, OwnTypes
    <3> QED
      BY <1>0, <2>4, <3>1, <3>3 DEF ReadDecisions, OwnTypes
  <2>5. CASE WithdrawRows(h) \/ SweepDoc(h) \/ SweepList(h)
    <3>1. pc' \in [Handler -> Steps]
      BY <1>3, <1>s, <2>5 DEF WithdrawRows, SweepDoc, SweepList
    <3>2. UNCHANGED <<job, base, dec, inTurn>>
      BY <2>5 DEF WithdrawRows, SweepDoc, SweepList
    <3>3. sweep' \in [Handler -> Sweep]
      <4>1. CASE WithdrawRows(h)
        BY <1>0, <4>1, AckAssumption DEF WithdrawRows, OwnTypes, Sweep
      <4>2. CASE SweepDoc(h)
        BY <1>0, <4>2 DEF SweepDoc, OwnTypes, Sweep
      <4>3. CASE SweepList(h)
        <5>1. [w \in WaiverId |-> waivers[w].status] \in [WaiverId -> Statuses]
          BY <1>0 DEF State
        <5> QED
          BY <1>0, <4>3, <5>1 DEF SweepList, OwnTypes, Sweep
      <4> QED
        BY <2>5, <4>1, <4>2, <4>3
    <3> QED
      BY <1>0, <3>1, <3>2, <3>3 DEF OwnTypes
  <2> QED
    BY <1>7, <2>1, <2>2, <2>3, <2>4, <2>5 DEF Reading
<1>8. CASE Storing(h)
  <2>1. ASSUME NEW w \in WaiverId, NEW u \in User, Ask(h, w, u) PROVE OwnTypes'
    <3>1. \A k \in {"ask", "alone"} : [kind |-> k, waiver |-> w, user |-> u] \in Job
      BY DEF Job
    <3>2. job' \in [Handler -> Job]
      BY <1>2, <2>1, <3>1 DEF Ask
    <3>3. pc' \in [Handler -> Steps]
      BY <1>3, <1>s, <2>1 DEF Ask
    <3>4. inTurn' \in BOOLEAN
      BY <1>0, <1>4, <2>1 DEF Ask, OwnTypes
    <3>5. base' \in [Handler -> 1 .. MaxVersions] /\ UNCHANGED <<dec, sweep>>
      BY <1>0, <2>1 DEF Ask, OwnTypes
    <3> QED
      BY <1>0, <3>2, <3>3, <3>4, <3>5 DEF OwnTypes
  <2>2. ASSUME NEW t \in Text, Edit(h, t) PROVE OwnTypes'
    <3>1. [NoJob EXCEPT !.kind = "edit"] \in Job
      BY DEF Job, NoJob
    <3>2. job' \in [Handler -> Job]
      BY <1>2, <2>2, <3>1 DEF Edit
    <3>3. pc' \in [Handler -> Steps]
      BY <1>3, <1>s, <2>2 DEF Edit
    <3>4. UNCHANGED <<base, dec, sweep>> /\ inTurn' \in BOOLEAN
      BY <1>4, <2>2 DEF Edit
    <3> QED
      BY <1>0, <3>2, <3>3, <3>4 DEF OwnTypes
  <2>3. CASE WriteFile(h) \/ WriteSidecar(h)
    <3>1. pc' \in [Handler -> Steps]
      BY <1>3, <1>s, <2>3 DEF WriteFile, WriteSidecar
    <3> QED
      BY <1>0, <2>3, <3>1 DEF WriteFile, WriteSidecar, OwnTypes
  <2> QED
    BY <1>8, <2>1, <2>2, <2>3 DEF Storing
<1> QED
  BY <1>1, <1>5, <1>6, <1>7, <1>8

LEMMA TypeStep == TypeOK /\ Jobs /\ Asked /\ Reads /\ Streams /\ Next => TypeOK'
<1> SUFFICES ASSUME TypeOK, Jobs, Asked, Reads, Streams, Next PROVE TypeOK'
  OBVIOUS
<1>1. OwnTypes'
  BY HandlerTypes
<1>2. waivers' \in [WaiverId -> State]
  BY WaiversStep
<1> QED
  BY <1>1, <1>2, StoredTypes, OverlapTypes DEF TypeOK, OwnTypes, Job, Sweep

-----------------------------------------------------------------------------
(* Jobs. *)

Acts(h) == Decides(h) \/ Reading(h) \/ Ending(h) \/ Storing(h)

\* A step of a handler moves no other one.
LEMMA OthersStay ==
    ASSUME TypeOK, NEW h \in Handler, Acts(h)
    PROVE  \A g \in Handler \ {h} :
              /\ pc'[g] = pc[g] /\ job'[g] = job[g] /\ base'[g] = base[g]
              /\ dec'[g] = dec[g] /\ sweep'[g] = sweep[g]
<1>0. OwnTypes
  BY DEF TypeOK, OwnTypes, Job, Sweep
<1>1. CASE Return(h)
  BY <1>0, <1>1 DEF Return, GoTo, OwnTypes
<1>2. CASE Ending(h)
  BY <1>0, <1>1, <1>2 DEF Ending, ReadDecisionsRefused, WriteSidecarRefused, WithdrawEnd, SweepEnd, Fail,
     GoTo, OwnTypes
<1>3. CASE Reading(h)
  BY <1>0, <1>3 DEF Reading, Approve, Withdraw, ReadDoc, ReadDecisions, WithdrawRows, SweepDoc, SweepList,
     GoTo, OwnTypes
<1>4. CASE Decides(h)
  <2>1. UNCHANGED <<pc, job, base, dec, sweep>> \/ Return(h)
        \/ (UNCHANGED <<pc, job, base, dec>> /\ \E r : sweep' = [sweep EXCEPT ![h] = r])
    BY <1>4 DEF Decides, RequestWaiver, ApproveWaiver, WithdrawOne, SweepOne, RejectWaiver
  <2> QED
    BY <1>0, <1>1, <2>1 DEF OwnTypes
<1>5. CASE Storing(h)
  BY <1>0, <1>5 DEF Storing, Ask, Edit, WriteFile, WriteSidecar, GoTo, OwnTypes
<1> QED
  BY <1>2, <1>3, <1>4, <1>5 DEF Acts

LEMMA Returned ==
    ASSUME TypeOK, NEW h \in Handler, Return(h)
    PROVE  /\ pc'[h] = "idle" /\ job'[h] = NoJob /\ base'[h] = 1
           /\ dec'[h] = NoEntries /\ sweep'[h] = NoSweep
BY DEF Return, GoTo, TypeOK

LEMMA JobsStep == TypeOK /\ Jobs /\ Reads /\ Next => Jobs'
<1> SUFFICES ASSUME TypeOK, Jobs, Reads, Next PROVE Jobs'
  OBVIOUS
<1>1. PICK h \in Handler : Acts(h)
  BY StepKinds DEF Acts
<1>0. /\ JobFits(pc[h], job[h])
      /\ pc \in [Handler -> Steps] /\ job \in [Handler -> Job]
  BY DEF Jobs, TypeOK, Job
<1>2. SUFFICES JobFits(pc'[h], job'[h])
  <2>1. ASSUME NEW g \in Handler \ {h} PROVE JobFits(pc'[g], job'[g])
    BY <1>1, <2>1, OthersStay DEF Jobs
  <2> QED
    BY <1>2, <2>1 DEF Jobs
<1>3. CASE Return(h)
  BY <1>3, Returned DEF JobFits, NoJob, Deciding
<1>4. CASE UNCHANGED <<pc, job>>
  BY <1>0, <1>4
<1>5. CASE Ending(h)
  BY <1>0, <1>3, <1>5 DEF Ending, ReadDecisionsRefused, WriteSidecarRefused, WithdrawEnd, SweepEnd, Fail,
     GoTo, JobFits, Deciding, Job
<1>6. CASE Decides(h)
  BY <1>3, <1>4, <1>6 DEF Decides, RequestWaiver, ApproveWaiver, WithdrawOne, SweepOne, RejectWaiver
<1>7. CASE Reading(h)
  <2>1. ASSUME NEW w \in WaiverId, NEW u \in User, Approve(h, w, u) PROVE JobFits(pc'[h], job'[h])
    BY <1>0, <2>1 DEF Approve, GoTo, JobFits, Deciding
  <2>2. ASSUME NEW u \in User, Withdraw(h, u) PROVE JobFits(pc'[h], job'[h])
    BY <1>0, <2>2 DEF Withdraw, GoTo, JobFits, Deciding
  <2> QED
    BY <1>0, <1>7, <2>1, <2>2 DEF Reading, ReadDoc, ReadDecisions, WithdrawRows, SweepDoc, SweepList,
       GoTo, JobFits, Deciding
<1>8. CASE Storing(h)
  <2>1. ASSUME NEW w \in WaiverId, NEW u \in User, Ask(h, w, u) PROVE JobFits(pc'[h], job'[h])
    BY <1>0, <2>1 DEF Ask, GoTo, JobFits, Deciding
  <2>2. ASSUME NEW t \in Text, Edit(h, t) PROVE JobFits(pc'[h], job'[h])
    BY <1>0, <2>2 DEF Edit, GoTo, JobFits, Deciding, NoJob
  <2>3. CASE WriteFile(h) \/ WriteSidecar(h)
    <3>1. pc[h] = "write" /\ job'[h] = job[h]
      BY <2>3 DEF WriteFile, WriteSidecar
    <3>2. Content(h) = dec[h] => job[h].kind \in Deciding
      BY <3>1, ContentOf DEF Reads, ReadsFit
    <3>3. pc'[h] = "sweep" \/ (pc'[h] = "append" /\ job[h].kind \in Deciding)
      BY <1>0, <2>3, <3>2 DEF WriteFile, WriteSidecar, GoTo
    <3> QED
      BY <1>0, <3>1, <3>3 DEF JobFits, Deciding
  <2> QED
    BY <1>8, <2>1, <2>2, <2>3 DEF Storing
<1> QED
  BY <1>1, <1>5, <1>6, <1>7, <1>8 DEF Acts

LEMMA AskedStep == TypeOK /\ Jobs /\ Asked /\ Reads /\ Streams /\ Next => Asked'
<1> SUFFICES ASSUME TypeOK, Jobs, Asked, Reads, Streams, Next PROVE Asked'
  OBVIOUS
<1>1. PICK h \in Handler : Acts(h)
  BY StepKinds DEF Acts
<1>0. /\ pc \in [Handler -> Steps] /\ job \in [Handler -> Job]
      /\ mode' = mode
      /\ \A g \in Handler \ {h} : pc'[g] = pc[g] /\ job'[g] = job[g]
      /\ NoEntry \notin WaiverId
      /\ \A w \in WaiverId : Appended(w)
  BY <1>1, OthersStay, StoredTypes, WaiversStep, NoEntryAssumption DEF TypeOK, Job
<1>j. \A g \in Handler : job[g].kind \in Deciding \cup {"ask"} => job[g].waiver \in WaiverId
  BY DEF Jobs, JobFits
\* The waiver that the handler takes is in nobody's hands.
<1>2. \/ job'[h] = job[h]
      \/ /\ job'[h].kind \notin {"ask", "alone"}
         /\ \A g \in Handler \ {h} : job[g].kind \in {"ask", "alone"} => job'[h].waiver # job[g].waiver
      \/ \E w \in WaiverId, u \in User : Ask(h, w, u)
  <2>1. CASE job'[h].waiver = NoEntry /\ job'[h].kind \notin {"ask", "alone"}
    BY <1>0, <1>j, <2>1 DEF Deciding
  <2>2. CASE Return(h)
    BY <2>1, <2>2, Returned DEF NoJob
  <2>3. ASSUME NEW w \in WaiverId, NEW u \in User, Approve(h, w, u)
        PROVE  /\ job'[h].kind \notin {"ask", "alone"}
               /\ \A g \in Handler \ {h} : job[g].kind \in {"ask", "alone"} => job'[h].waiver # job[g].waiver
    <3>1. DecideApprove(waivers[w], AsNonAuthor(u)) # << >>
      BY <2>3 DEF Approve
    <3>2. waivers[w].status = "requested"
      BY <3>1 DEF DecideApprove
    <3>3. job'[h].kind = "approve" /\ job'[h].waiver = w
      BY <1>0, <2>3 DEF Approve
    <3> QED
      BY <3>2, <3>3 DEF Asked
  <2>4. CASE Ending(h) \/ Decides(h)
    BY <2>2, <2>4 DEF Ending, ReadDecisionsRefused, WriteSidecarRefused, WithdrawEnd, SweepEnd, Fail,
       Decides, RequestWaiver, ApproveWaiver, WithdrawOne, SweepOne, RejectWaiver
  <2>5. CASE Reading(h)
    BY <1>0, <2>1, <2>3, <2>5 DEF Reading, Withdraw, ReadDoc, ReadDecisions, WithdrawRows, SweepDoc, SweepList
  <2>6. CASE Storing(h)
    BY <1>0, <2>1, <2>6 DEF Storing, Edit, NoJob, WriteFile, WriteSidecar
  <2> QED
    BY <1>1, <2>4, <2>5, <2>6 DEF Acts
<1>3. ASSUME NEW g \in Handler, job'[g].kind \in {"ask", "alone"}, job'[g] = job[g]
      PROVE  waivers'[job[g].waiver].status = "none"
  <2>1. job[g].waiver \in WaiverId /\ waivers[job[g].waiver].status = "none"
    BY <1>j, <1>3 DEF Asked, Deciding
  <2>2. \A k \in Handler : job[k].waiver = job[g].waiver => job'[k] # NoJob
    BY <1>0, <1>3 DEF Asked, NoJob
  <2> QED
    BY <1>0, <2>1, <2>2 DEF Appended
<1>4. ASSUME NEW g \in Handler, job'[g] = job[g], pc'[g] = pc[g],
             pc[g] = "ask" \/ (pc[g] \in {"decisions", "write"} /\ job[g].kind = "alone")
      PROVE  job[g].waiver \notin written'
  <2>1. job[g].waiver \notin written /\ job[g].kind \in {"ask", "alone"}
    BY <1>4 DEF Asked, Jobs, JobFits
  <2>2. CASE UNCHANGED written
    BY <2>1, <2>2
  <2>3. CASE WriteFile(h) \/ WriteSidecar(h)
    <3>1. pc[h] = "write" /\ pc'[h] # "write" /\ written' \subseteq written \cup {job[h].waiver}
      BY <1>0, <2>3 DEF WriteFile, WriteSidecar, GoTo, Wrote
    <3>2. g # h
      BY <1>4, <3>1
    <3> QED
      BY <2>1, <3>1, <3>2 DEF Asked
  <2> QED
    BY <1>1, <2>2, <2>3, ReadingStores, DecidingStores DEF Acts, Storing, Ask, Edit, stored
<1>5. ASSUME NEW w \in WaiverId, NEW u \in User, Ask(h, w, u) PROVE Asked'
  <2>1. /\ job'[h].waiver = w /\ job'[h].kind \in {"ask", "alone"}
        /\ pc'[h] = "ask" <=> job'[h].kind = "ask"
        /\ job'[h].kind = "alone" <=> Alone(w)
        /\ waivers' = waivers /\ written' = written
        /\ waivers[w].status = "none" /\ w \notin written
        /\ \A g \in Handler : job[g].waiver # w
    BY <1>0, <1>5 DEF Ask, GoTo
  <2> QED
    BY <1>0, <1>3, <1>4, <2>1 DEF Asked, Alone
<1>6. CASE /\ ~\E w \in WaiverId, u \in User : Ask(h, w, u)
           /\ \/ job'[h] = job[h]
              \/ /\ job'[h].kind \notin {"ask", "alone"}
                 /\ \A g \in Handler \ {h} : job[g].kind \in {"ask", "alone"} => job'[h].waiver # job[g].waiver
  <2>1. job'[h].kind \in {"ask", "alone"} => pc'[h] = pc[h] \/ pc'[h] \notin {"ask", "decisions", "write"}
                                           \/ ReadDecisions(h)
    <3>1. CASE Return(h)
      BY <3>1, Returned
    <3>2. CASE Ending(h) \/ Decides(h)
      BY <1>0, <3>1, <3>2 DEF Ending, ReadDecisionsRefused, WriteSidecarRefused, WithdrawEnd, SweepEnd, Fail,
         Decides, RequestWaiver, ApproveWaiver, WithdrawOne, SweepOne, RejectWaiver, GoTo
    <3>3. CASE Reading(h)
      BY <1>0, <3>3 DEF Reading, Approve, Withdraw, ReadDoc, ReadDecisions, WithdrawRows, SweepDoc, SweepList,
         GoTo, Jobs, JobFits
    <3>4. CASE Storing(h)
      BY <1>0, <1>6, <3>4 DEF Storing, Edit, NoJob, WriteFile, WriteSidecar, GoTo
    <3> QED
      BY <1>1, <3>2, <3>3, <3>4 DEF Acts
  <2>2. job'[h].kind \in {"ask", "alone"} => job'[h] = job[h]
    BY <1>6
  <2>3. ReadDecisions(h) => pc[h] = "decisions" /\ written' = written
    BY DEF ReadDecisions, stored
  <2>4. ASSUME NEW g \in Handler, job'[g].kind \in {"ask", "alone"}
        PROVE  /\ job'[g] = job[g]
               /\ waivers'[job[g].waiver].status = "none"
               /\ \A k \in Handler \ {g} : job'[k].waiver # job[g].waiver
    <3>1. job'[g] = job[g]
      BY <1>0, <2>2, <2>4
    <3>2. \A k \in Handler \ {g} : job[k].waiver # job[g].waiver
      BY <2>4, <3>1 DEF Asked
    <3> QED
      BY <1>0, <1>3, <1>6, <2>4, <3>1, <3>2
  <2>5. ASSUME NEW g \in Handler,
               pc'[g] = "ask" \/ (pc'[g] \in {"decisions", "write"} /\ job'[g].kind = "alone")
        PROVE  job'[g].waiver \notin written'
    <3>1. job'[g].kind \in {"ask", "alone"}
      BY <2>5, JobsStep DEF Jobs, JobFits
    <3>2. job'[g] = job[g]
      BY <2>4, <3>1
    <3>3. CASE pc'[g] = pc[g]
      BY <1>4, <2>5, <3>2, <3>3
    <3>4. CASE pc'[g] # pc[g]
      <4>1. g = h /\ pc[h] = "decisions" /\ written' = written
        BY <1>0, <2>1, <2>3, <2>5, <3>1, <3>4
      <4> QED
        BY <2>5, <3>1, <3>2, <4>1 DEF Asked, Jobs, JobFits
    <3> QED
      BY <3>3, <3>4
  <2>6. \A g \in Handler :
          /\ (job[g].kind = "ask" => ~Alone(job[g].waiver))'
          /\ (job[g].kind = "alone" => Alone(job[g].waiver))'
    BY <1>0, <2>4 DEF Asked, Alone
  <2> QED
    BY <2>4, <2>5, <2>6 DEF Asked
<1> QED
  BY <1>1, <1>2, <1>5, <1>6

-----------------------------------------------------------------------------
(* What the handlers read, and the entries. *)

\* Versions and entries are only added, and the text of a waiver is fixed when
\* it is asked for.
LEMMA StoreGrows ==
    ASSUME TypeOK, Jobs, Next
    PROVE  /\ head \in Nat /\ head' \in Nat /\ head <= head'
           /\ \A v \in 1 .. head : versions'[v] = versions[v]
           /\ written \subseteq written'
           /\ \A w \in WaiverId : hash'[w] # hash[w] =>
                 /\ w \notin written /\ waivers[w].status = "none"
                 /\ \A h \in Handler : job[h].waiver # w
<1>0. /\ head \in Nat
      /\ \A w \in WaiverId : hash[w] \in Text
      /\ versions[head] \in [text : Text, sidecar : Sidecar]
  BY VersionTypes DEF TypeOK
<1>1. PICK h \in Handler : Acts(h)
  BY StepKinds DEF Acts
<1>2. ASSUME NEW n \in [text : Text, sidecar : Sidecar], versions' = Append(versions, n)
      PROVE  head' = head + 1 /\ \A v \in 1 .. head : versions'[v] = versions[v]
  BY <1>2, NewVersion
<1>3. CASE UNCHANGED <<versions, written, hash>>
  BY <1>0, <1>3 DEF head
<1>4. ASSUME NEW w \in WaiverId, NEW u \in User, Ask(h, w, u)
      PROVE  /\ UNCHANGED <<versions, written>>
             /\ \A x \in WaiverId : hash'[x] # hash[x] => x = w
             /\ w \notin written /\ waivers[w].status = "none"
             /\ \A g \in Handler : job[g].waiver # w
  BY <1>4 DEF Ask, TypeOK
<1>5. ASSUME NEW t \in Text, Edit(h, t)
      PROVE  /\ UNCHANGED <<written, hash>>
             /\ head' = head + 1 /\ \A v \in 1 .. head : versions'[v] = versions[v]
  <2>1. [versions[head] EXCEPT !.text = t] \in [text : Text, sidecar : Sidecar]
    BY <1>0
  <2> QED
    BY <1>2, <1>5, <2>1 DEF Edit
<1>6. CASE WriteFile(h)
  BY <1>0, <1>6 DEF WriteFile, Wrote, head
<1>7. CASE WriteSidecar(h)
  <2>1. [versions[head] EXCEPT !.sidecar = Content(h)] \in [text : Text, sidecar : Sidecar]
    BY <1>0, <1>7, ContentOf DEF WriteSidecar
  <2>2. UNCHANGED versions \/ versions' = Append(versions, [versions[head] EXCEPT !.sidecar = Content(h)])
    BY <1>7 DEF WriteSidecar
  <2>3. UNCHANGED versions \/ (head' = head + 1 /\ \A v \in 1 .. head : versions'[v] = versions[v])
    BY <1>2, <2>1, <2>2
  <2> QED
    BY <1>0, <1>7, <2>3 DEF WriteSidecar, Wrote, head
<1>8. CASE Storing(h)
  BY <1>0, <1>4, <1>5, <1>6, <1>7, <1>8 DEF Storing, head
<1> QED
  BY <1>1, <1>3, <1>8, ReadingStores, DecidingStores DEF Acts, stored

LEMMA ReadsStep == TypeOK /\ Jobs /\ Reads /\ Next => Reads'
<1> SUFFICES ASSUME TypeOK, Jobs, Reads, Next PROVE Reads'
  OBVIOUS
<1>1. PICK h \in Handler : Acts(h)
  BY StepKinds DEF Acts
<1>0. /\ OwnTypes
      /\ head \in Nat /\ head' \in Nat /\ head <= head' /\ head >= 1
      /\ \A v \in 1 .. head : versions'[v] = versions[v]
      /\ mode' = mode
      /\ \A g \in Handler : job[g].waiver \in WaiverId => hash'[job[g].waiver] = hash[job[g].waiver]
      /\ \A g \in Handler : job[g].kind \in Deciding => job[g].waiver \in WaiverId
      /\ \A g \in Handler : base[g] \in 1 .. head
  BY StoreGrows, StoredTypes DEF TypeOK, OwnTypes, Job, Sweep, Jobs, JobFits, Reads, ReadsFit
\* What one handler knows does not depend on what the others do.
<1>2. ASSUME NEW g \in Handler, base'[g] = base[g], job'[g] = job[g], Fits(g), job[g].waiver \in WaiverId
      PROVE  Fits(g)'
  BY <1>0, <1>2 DEF Fits
<1>3. ASSUME NEW g \in Handler, UNCHANGED <<pc[g], job[g], base[g], dec[g], sweep[g]>>
      PROVE  ReadsFit(g)'
  <2>1. sweep[g].version \in Nat
    BY <1>0 DEF OwnTypes, Sweep
  <2> QED
    BY <1>0, <1>2, <1>3, <2>1 DEF Reads, ReadsFit, local
<1>4. SUFFICES ReadsFit(h)'
  BY <1>1, <1>3, <1>4, OthersStay DEF Reads
<1>r. /\ ReadsFit(h) /\ sweep[h].version \in 0 .. head /\ base[h] \in 1 .. head
      /\ pc[h] \in Steps
  BY <1>0 DEF Reads, ReadsFit, OwnTypes, Sweep
<1>5. CASE Return(h)
  BY <1>0, <1>5, Returned DEF ReadsFit, NoSweep
<1>6. CASE Ending(h)
  <2>1. CASE SweepEnd(h) /\ ~Return(h)
    <3>1. /\ pc'[h] \in {"rows", "append"} /\ sweep'[h] = NoSweep
          /\ base'[h] = base[h]
      BY <1>0, <2>1 DEF SweepEnd, GoTo, OwnTypes
    <3> QED
      BY <1>0, <1>r, <3>1 DEF ReadsFit, NoSweep
  <2> QED
    BY <1>5, <1>6, <2>1 DEF Ending, ReadDecisionsRefused, WriteSidecarRefused, WithdrawEnd, Fail
<1>7. CASE Decides(h)
  <2>1. ASSUME NEW w \in WaiverId, NEW u \in User, RejectWaiver(h, w, u) PROVE ReadsFit(h)'
    BY <1>3, <2>1 DEF RejectWaiver
  <2>2. CASE (WithdrawOne(h) \/ SweepOne(h)) /\ ~Return(h)
    <3>1. /\ UNCHANGED <<pc, base, job, dec>>
          /\ pc[h] \in {"withdraw", "decide"}
      BY <2>2 DEF WithdrawOne, SweepOne
    <3>2. /\ sweep'[h].version = sweep[h].version /\ sweep'[h].left \subseteq sweep[h].left
          /\ pc[h] = "withdraw" => sweep'[h].seen = sweep[h].seen
      <4>1. CASE WithdrawOne(h)
        BY <1>0, <2>2, <4>1 DEF WithdrawOne, OwnTypes, Sweep
      <4>2. CASE SweepOne(h)
        <5>1. pc[h] = "decide"
          BY <4>2 DEF SweepOne
        <5> QED
          BY <1>0, <4>2, <5>1, SweptOne DEF OwnTypes
      <4> QED
        BY <2>2, <4>1, <4>2
    <3> QED
      BY <1>0, <1>r, <3>1, <3>2 DEF ReadsFit
  <2> QED
    BY <1>5, <1>7, <2>1, <2>2 DEF Decides, RequestWaiver, ApproveWaiver
<1>8. CASE Reading(h)
  <2>1. ASSUME NEW w \in WaiverId, NEW u \in User, Approve(h, w, u) PROVE ReadsFit(h)'
    <3>1. pc[h] = "idle" /\ pc'[h] \in {"read", "append"} /\ UNCHANGED <<base, sweep>>
      BY <1>0, <2>1 DEF Approve, GoTo, OwnTypes
    <3> QED
      BY <1>0, <1>r, <3>1 DEF ReadsFit
  <2>2. ASSUME NEW u \in User, Withdraw(h, u) PROVE ReadsFit(h)'
    <3>1. /\ pc[h] = "idle" /\ pc'[h] = "write" /\ UNCHANGED sweep /\ base'[h] = head /\ dec'[h] = Decisions(head)
          /\ job'[h].kind = "withdraw"
          /\ Decisions(head)["trace"] # NoEntry
          /\ UNCHANGED versions
      BY <1>0, <2>2 DEF Withdraw, GoTo, OwnTypes, stored
    <3> QED
      BY <1>0, <1>r, <3>1 DEF ReadsFit, Decisions, local, Deciding
  <2>3. CASE ReadDoc(h)
    <3>1. pc[h] = "read" /\ pc'[h] = "decisions" /\ base'[h] = head /\ UNCHANGED sweep
      BY <1>0, <2>3 DEF ReadDoc, GoTo, OwnTypes
    <3> QED
      BY <1>0, <1>r, <3>1 DEF ReadsFit
  <2>4. CASE ReadDecisions(h)
    <3>1. /\ pc'[h] = "write" /\ UNCHANGED <<base, sweep, job>> /\ dec'[h] = Decisions(base[h])
          /\ Fits(h) /\ pc[h] = "decisions"
      BY <1>0, <2>4 DEF ReadDecisions, GoTo, OwnTypes
    <3>2. job[h].kind \in Deciding
      BY <3>1 DEF Jobs, JobFits
    <3>3. Fits(h)'
      BY <1>0, <1>2, <3>1, <3>2
    <3> QED
      BY <1>0, <1>r, <3>1, <3>2, <3>3 DEF ReadsFit, Decisions, local, Deciding
  <2>5. CASE WithdrawRows(h)
    <3>1. /\ pc[h] = "rows" /\ pc'[h] = "withdraw" /\ UNCHANGED base
          /\ sweep'[h].version = sweep[h].version /\ sweep'[h].left \subseteq Ack /\ sweep'[h].seen = sweep[h].seen
      BY <1>0, <2>5 DEF WithdrawRows, GoTo, OwnTypes, Sweep
    <3> QED
      BY <1>0, <1>r, <3>1 DEF ReadsFit
  <2>6. CASE SweepDoc(h)
    <3>1. /\ pc[h] = "sweep" /\ pc'[h] = "list" /\ UNCHANGED base
          /\ sweep'[h].version = head /\ sweep'[h].seen = sweep[h].seen
      BY <1>0, <2>6 DEF SweepDoc, GoTo, OwnTypes, Sweep
    <3> QED
      BY <1>0, <1>r, <3>1 DEF ReadsFit
  <2>7. CASE SweepList(h)
    <3>1. /\ pc[h] = "list" /\ pc'[h] = "decide" /\ UNCHANGED base
          /\ sweep'[h].version = sweep[h].version /\ sweep'[h].left \cap Ack = {}
      BY <1>0, <2>7 DEF SweepList, GoTo, OwnTypes, Sweep
    <3> QED
      BY <1>0, <1>r, <3>1 DEF ReadsFit
  <2> QED
    BY <1>8, <2>1, <2>2, <2>3, <2>4, <2>5, <2>6, <2>7 DEF Reading
<1>9. CASE Storing(h)
  <2>1. ASSUME NEW w \in WaiverId, NEW u \in User, Ask(h, w, u) PROVE ReadsFit(h)'
    <3>1. pc[h] = "idle" /\ pc'[h] \in {"ask", "decisions"} /\ base'[h] = head /\ UNCHANGED sweep
      BY <1>0, <2>1 DEF Ask, GoTo, OwnTypes
    <3> QED
      BY <1>0, <1>r, <3>1 DEF ReadsFit
  <2>2. CASE (\E t \in Text : Edit(h, t)) \/ WriteFile(h) \/ WriteSidecar(h)
    <3>1. pc[h] \in {"idle", "write"} /\ pc'[h] \in {"sweep", "append"} /\ UNCHANGED <<base, sweep>>
      BY <1>0, <2>2 DEF Edit, WriteFile, WriteSidecar, GoTo, OwnTypes
    <3> QED
      BY <1>0, <1>r, <3>1 DEF ReadsFit
  <2> QED
    BY <1>9, <2>1, <2>2 DEF Storing
<1> QED
  BY <1>1, <1>6, <1>7, <1>8, <1>9 DEF Acts

LEMMA EntriesStep == TypeOK /\ Jobs /\ Reads /\ Entries /\ Next => Entries'
<1> SUFFICES ASSUME TypeOK, Jobs, Reads, Entries, Next PROVE Entries'
  OBVIOUS
<1>1. PICK h \in Handler : Acts(h)
  BY StepKinds DEF Acts
<1>0. /\ OwnTypes
      /\ head \in Nat /\ head' \in Nat /\ head <= head' /\ head >= 1
      /\ \A v \in 1 .. head : versions'[v] = versions[v]
      /\ \A g \in Handler \ {h} : dec'[g] = dec[g] /\ sweep'[g] = sweep[g]
  BY <1>1, StoreGrows, OthersStay DEF TypeOK, OwnTypes, Job, Sweep
<1>k. /\ \A d : Known(d, written) => Known(d, written')
      /\ Known(NoEntries, written')
  BY StoreGrows DEF Known, NoEntries
<1>2. \A v \in 1 .. head : Known(Decisions(v), written)
  BY DEF Decisions, Entries
<1>3. ASSUME Known(dec'[h], written'), \A d \in sweep'[h].seen : Known(d, written'),
             Known(file', written'), \A v \in 1 .. head' : Known(versions'[v].sidecar, written')
      PROVE  Entries'
  <2>1. \A g \in Handler : Known(dec'[g], written') /\ \A d \in sweep'[g].seen : Known(d, written')
    BY <1>0, <1>k, <1>3 DEF Entries
  <2> QED
    BY <1>3, <2>1 DEF Entries
<1>r. /\ Known(dec[h], written') /\ \A d \in sweep[h].seen : Known(d, written')
      /\ Known(file, written') /\ \A v \in 1 .. head : Known(versions'[v].sidecar, written')
  BY <1>0, <1>k DEF Entries
<1>4. Known(dec'[h], written')
  <2>1. CASE dec'[h] = dec[h]
    BY <1>r, <2>1
  <2>2. CASE Return(h)
    BY <1>k, <2>2, Returned
  <2>3. ASSUME NEW u \in User, Withdraw(h, u) PROVE Known(dec'[h], written')
    BY <1>0, <1>k, <1>2, <2>3 DEF Withdraw, OwnTypes
  <2>4. CASE ReadDecisions(h)
    <3>1. base[h] \in 1 .. head
      BY <1>0 DEF Reads, ReadsFit, OwnTypes
    <3> QED
      BY <1>0, <1>k, <1>2, <2>4, <3>1 DEF ReadDecisions, OwnTypes
  <2>5. CASE Decides(h) \/ Ending(h)
    BY <2>1, <2>2, <2>5 DEF Decides, RequestWaiver, ApproveWaiver, WithdrawOne, SweepOne, RejectWaiver,
       Ending, ReadDecisionsRefused, WriteSidecarRefused, WithdrawEnd, SweepEnd, Fail
  <2>6. CASE Reading(h)
    BY <2>1, <2>3, <2>4, <2>6 DEF Reading, Approve, ReadDoc, WithdrawRows, SweepDoc, SweepList
  <2>7. CASE Storing(h)
    BY <2>1, <2>7 DEF Storing, Ask, Edit, WriteFile, WriteSidecar
  <2> QED
    BY <1>1, <2>5, <2>6, <2>7 DEF Acts
<1>5. \A d \in sweep'[h].seen : Known(d, written')
  <2>1. CASE sweep'[h].seen \subseteq sweep[h].seen
    BY <1>r, <2>1
  <2>2. CASE sweep'[h] = NoSweep
    BY <2>1, <2>2 DEF NoSweep
  <2>3. CASE SweepOne(h)
    <3>1. sweep[h].version \in 1 .. head
      BY <1>0, <2>3 DEF SweepOne, Reads, ReadsFit, OwnTypes, Sweep
    <3>2. \A d \in SweepDecisions(h) : Known(d, written')
      BY <1>k, <1>r, <1>2, <3>1 DEF SweepDecisions
    <3>3. sweep'[h].seen \in {SweepDecisions(h), sweep[h].seen}
      BY <1>0, <2>3, SweptOne DEF OwnTypes
    <3> QED
      BY <1>r, <3>2, <3>3
  <2>4. CASE Return(h)
    BY <2>2, <2>4, Returned
  <2>5. CASE Decides(h) \/ Ending(h)
    <3>1. CASE WithdrawOne(h) /\ ~Return(h)
      BY <1>0, <2>1, <3>1 DEF WithdrawOne, OwnTypes, Sweep
    <3>2. CASE SweepEnd(h) /\ ~Return(h)
      BY <1>0, <2>2, <3>2 DEF SweepEnd, OwnTypes
    <3> QED
      BY <2>1, <2>3, <2>4, <2>5, <3>1, <3>2 DEF Decides, RequestWaiver, ApproveWaiver, RejectWaiver,
         Ending, ReadDecisionsRefused, WriteSidecarRefused, WithdrawEnd, Fail
  <2>6. CASE Reading(h)
    <3>1. CASE WithdrawRows(h) \/ SweepDoc(h) \/ SweepList(h)
      BY <1>0, <2>1, <3>1 DEF WithdrawRows, SweepDoc, SweepList, OwnTypes, Sweep
    <3> QED
      BY <2>1, <2>6, <3>1 DEF Reading, Approve, Withdraw, ReadDoc, ReadDecisions
  <2>7. CASE Storing(h)
    BY <2>1, <2>7 DEF Storing, Ask, Edit, WriteFile, WriteSidecar
  <2> QED
    BY <1>1, <2>5, <2>6, <2>7 DEF Acts
\* A handler writes what it read, with the entry of its waiver or with none.
<1>6. ASSUME pc[h] = "write", Wrote(h) PROVE Known(Content(h), written')
  <2>1. Known(dec[h], written') /\ Content(h) \in Sidecar
    BY <1>r, <1>6, ContentOf
  <2>2. CASE job[h].kind \in Deciding
    <3>1. job[h].waiver \in written'
      BY <1>6, <2>2, ContentOf, NoEntryAssumption DEF Wrote
    <3> QED
      BY <1>6, <2>1, <2>2, <3>1, ContentOf DEF Known
  <2>3. CASE job[h].kind \notin Deciding
    BY <1>6, <2>1, <2>3, ContentOf DEF Known, Key
  <2> QED
    BY <2>2, <2>3
<1>7. Known(file', written')
  BY <1>1, <1>r, <1>6, ReadingStores, DecidingStores DEF Acts, stored, Storing, Ask, Edit, WriteFile, WriteSidecar
<1>8. \A v \in 1 .. head' : Known(versions'[v].sidecar, written')
  <2>1. CASE UNCHANGED versions
    BY <1>r, <2>1 DEF head
  <2>2. ASSUME NEW n \in [text : Text, sidecar : Sidecar], versions' = Append(versions, n), Known(n.sidecar, written')
        PROVE  \A v \in 1 .. head' : Known(versions'[v].sidecar, written')
    <3>1. head' = head + 1 /\ versions'[head + 1] = n
      BY <2>2, NewVersion
    <3>2. ASSUME NEW v \in 1 .. head' PROVE v \in 1 .. head \/ v = head + 1
      BY <1>0, <3>1
    <3> QED
      BY <1>r, <2>2, <3>1, <3>2
  <2>3. versions[head] \in [text : Text, sidecar : Sidecar] /\ Known(versions[head].sidecar, written')
    BY VersionTypes, <1>k DEF Entries
  <2>4. ASSUME NEW t \in Text, Edit(h, t) PROVE \A v \in 1 .. head' : Known(versions'[v].sidecar, written')
    <3>1. [versions[head] EXCEPT !.text = t] \in [text : Text, sidecar : Sidecar]
          /\ [versions[head] EXCEPT !.text = t].sidecar = versions[head].sidecar
      BY <2>3
    <3> QED
      BY <2>2, <2>3, <2>4, <3>1 DEF Edit
  <2>5. CASE WriteSidecar(h)
    <3> DEFINE n == [versions[head] EXCEPT !.sidecar = Content(h)]
    <3>1. n \in [text : Text, sidecar : Sidecar] /\ n.sidecar = Content(h)
      BY <2>3, <2>5, ContentOf DEF WriteSidecar
    <3>2. Known(Content(h), written')
      BY <1>6, <2>5 DEF WriteSidecar
    <3>3. UNCHANGED versions \/ versions' = Append(versions, n)
      BY <2>5 DEF WriteSidecar
    <3> QED
      BY <2>1, <2>2, <3>1, <3>2, <3>3
  <2> QED
    BY <1>1, <2>1, <2>4, <2>5, ReadingStores, DecidingStores DEF Acts, stored, Storing, Ask, WriteFile
<1> QED
  BY <1>3, <1>4, <1>5, <1>7, <1>8

-----------------------------------------------------------------------------
(* The streams, what is written first, and the versions. *)

LEMMA StreamsStep == TypeOK /\ Jobs /\ Asked /\ Reads /\ Streams /\ Next => Streams'
<1> SUFFICES ASSUME TypeOK, Jobs, Asked, Reads, Streams, Next PROVE Streams'
  OBVIOUS
<1>1. mode' = mode /\ \A w \in WaiverId : Transition(w)
  BY StoredTypes, WaiversStep
<1> QED
  BY <1>1 DEF Transition, Streams, Alone

\* A final approval that looks final at once, and what is decided alone, are
\* appended after the write.
LEMMA WrittenStep == TypeOK /\ Jobs /\ Asked /\ Reads /\ Streams /\ WrittenFirst /\ Next => WrittenFirst'
<1> SUFFICES ASSUME TypeOK, Jobs, Asked, Reads, Streams, WrittenFirst, Next PROVE WrittenFirst'
  OBVIOUS
<1>1. PICK h \in Handler : Acts(h)
  BY StepKinds DEF Acts
<1>0. /\ OwnTypes
      /\ mode' = mode /\ written \subseteq written'
      /\ \A w \in WaiverId : (OneDecides(w)' <=> OneDecides(w)) /\ Transition(w) /\ Appended(w)
      /\ \A g \in Handler \ {h} : pc'[g] = pc[g] /\ job'[g] = job[g]
      /\ JobFits(pc[h], job[h])
      /\ \A g \in Handler : job[g].kind \in Deciding => job[g].waiver \in WaiverId
  BY <1>1, StoredTypes, StoreGrows, WaiversStep, OthersStay
  DEF TypeOK, OwnTypes, Job, Sweep, OneDecides, Alone, Jobs, JobFits
<1>2. ASSUME NEW w \in WaiverId, OneDecides(w), waivers'[w].status \in Over PROVE w \in written'
  BY <1>0, <1>2 DEF Transition, Appended, WrittenFirst, Over
<1>3. ASSUME job'[h].kind \in Deciding, pc'[h] \in Sweeping \cup {"append"},
             pc'[h] = "append" => OneDecides(job'[h].waiver)
      PROVE  job'[h].waiver \in written'
  <2>1. ASSUME NEW w \in WaiverId, NEW u \in User, Approve(h, w, u) PROVE FALSE
    <3> DEFINE s == waivers[w]
               preview == DecideApprove(s, AsNonAuthor(u))
    <3>1. /\ preview # << >>
          /\ pc'[h] = IF EvolveAll(s, preview).status = "approved" THEN "read" ELSE "append"
          /\ job'[h].waiver = w
      BY <1>0, <2>1 DEF Approve, GoTo, OwnTypes
    <3>2. s \in State /\ (s.status # "none" => s.policy = policy) /\ (s.status = "requested" => ~Alone(w))
      BY DEF TypeOK, Streams
    <3>3. /\ s.status = "requested"
          /\ EvolveAll(s, preview).status =
               IF Len(s.approvals) + 1 >= needed(policy) THEN "approved" ELSE "requested"
      <4> HIDE DEF s, preview
      <4> QED
        BY <3>1, <3>2, ApprovedOf DEF preview
    <3>4. Len(s.approvals) \in Nat
      BY <3>2, LenProperties DEF State
    <3>5. NeededApprovals = 1
      BY <1>3, <3>1, <3>2, <3>3 DEF OneDecides, Sweeping
    <3> HIDE DEF s, preview
    <3> QED
      BY <1>3, <3>1, <3>3, <3>4, <3>5, PolicyIsOne DEF Sweeping
  <2>2. CASE WriteFile(h) \/ WriteSidecar(h)
    <3>1. pc[h] = "write" /\ job'[h] = job[h] /\ Wrote(h)
      BY <2>2 DEF WriteFile, WriteSidecar
    <3> QED
      BY <1>0, <1>3, <3>1, NoEntryAssumption DEF Wrote
  <2>3. CASE job'[h] = job[h] /\ pc[h] \in Sweeping
    BY <1>0, <1>3, <2>3 DEF WrittenFirst
  <2>4. CASE job'[h] = job[h] /\ pc'[h] = pc[h]
    BY <1>0, <1>3, <2>4 DEF WrittenFirst
  <2>5. CASE Return(h)
    BY <1>3, <2>5, Returned DEF Sweeping
  <2>6. CASE Decides(h) \/ Ending(h)
    BY <2>3, <2>4, <2>5, <2>6 DEF Decides, RequestWaiver, ApproveWaiver, WithdrawOne, SweepOne, RejectWaiver,
       Ending, ReadDecisionsRefused, WriteSidecarRefused, WithdrawEnd, SweepEnd, Fail, Sweeping
  <2>7. CASE Reading(h)
    <3>1. CASE SweepDoc(h) \/ SweepList(h)
      BY <2>3, <3>1 DEF SweepDoc, SweepList, Sweeping
    <3>2. CASE ReadDoc(h) \/ ReadDecisions(h) \/ WithdrawRows(h) \/ \E u \in User : Withdraw(h, u)
      BY <1>0, <1>3, <3>2 DEF ReadDoc, ReadDecisions, WithdrawRows, Withdraw, GoTo, OwnTypes, Sweeping
    <3> QED
      BY <2>1, <2>7, <3>1, <3>2 DEF Reading
  <2>8. CASE Storing(h)
    <3>1. CASE \E w \in WaiverId, u \in User : Ask(h, w, u)
      BY <1>0, <1>3, <3>1 DEF Ask, GoTo, OwnTypes, Sweeping
    <3>2. CASE \E t \in Text : Edit(h, t)
      BY <1>0, <1>3, <3>2 DEF Edit, NoJob, OwnTypes, Deciding
    <3> QED
      BY <2>2, <2>8, <3>1, <3>2 DEF Storing
  <2> QED
    BY <1>1, <2>6, <2>7, <2>8 DEF Acts
<1>4. ASSUME NEW g \in Handler, job'[g].kind \in Deciding, pc'[g] \in Sweeping \cup {"append"},
             pc'[g] = "append" => OneDecides(job'[g].waiver)
      PROVE  job'[g].waiver \in written'
  BY <1>0, <1>3, <1>4 DEF WrittenFirst
<1>5. \A g \in Handler : job'[g].kind \in Deciding => job'[g].waiver \in WaiverId
  BY JobsStep DEF Jobs, JobFits
<1>6. (\A w \in WaiverId : OneDecides(w) /\ waivers[w].status \in Over => w \in written)'
  BY <1>0, <1>2
<1>7. ASSUME NEW g \in Handler, job'[g].kind \in Deciding
      PROVE  /\ pc'[g] \in Sweeping => job'[g].waiver \in written'
             /\ (pc[g] = "append" /\ OneDecides(job[g].waiver) => job[g].waiver \in written)'
  BY <1>0, <1>4, <1>5, <1>7 DEF OneDecides, Alone, Sweeping
<1> QED
  BY <1>6, <1>7 DEF WrittenFirst

\* What is decided now was written, or was decided by an approval that was overtaken.
LEMMA ApprovedStep ==
    TypeOK /\ Jobs /\ Asked /\ Reads /\ Streams /\ WrittenFirst /\ ApprovedWasWritten /\ Overtaken /\ Next
        => ApprovedWasWritten'
<1> SUFFICES ASSUME TypeOK, Jobs, Asked, Reads, Streams, WrittenFirst, ApprovedWasWritten, Overtaken, Next,
                    NEW w \in WaiverId, waivers'[w].status \in Over
             PROVE  w \in written' \cup overlap'.waivers
  BY DEF ApprovedWasWritten, Over
<1>1. PICK h \in Handler : Acts(h)
  BY StepKinds DEF Acts
<1>2. /\ written \subseteq written' /\ Overlap(h) /\ Transition(w) /\ Appended(w)
      /\ \A g \in Handler \ {h} : job'[g] = job[g]
      /\ waivers \in [WaiverId -> State] /\ waivers[w] \in State
      /\ overlap \in [handlers : SUBSET Handler, waivers : SUBSET WaiverId]
  BY <1>1, OverlapSteps, StoreGrows, WaiversStep, OthersStay DEF Acts, TypeOK
<1>3. overlap.waivers \subseteq overlap'.waivers
  <2>1. CASE ApproveWaiver(h)
    BY <2>1 DEF ApproveWaiver
  <2> QED
    BY <1>2, <2>1 DEF Overlap
<1>4. CASE waivers[w].status \in Over
  BY <1>2, <1>3, <1>4 DEF ApprovedWasWritten, Over
<1>5. CASE waivers[w].status \notin Over
  <2>1. waivers[w].status \in {"none", "requested"}
    BY <1>2, <1>5 DEF Transition, Over
  <2>2. pc[h] = "append" /\ job[h].kind \in Deciding /\ job[h].waiver = w /\ waivers' # waivers
    <3>1. PICK g \in Handler : pc[g] = "append" /\ job[g].kind \in Deciding /\ job[g].waiver = w /\ job'[g] = NoJob
      BY <1>2, <2>1 DEF Appended
    <3>2. g = h
      BY <1>2, <3>1 DEF NoJob, Deciding
    <3> QED
      BY <1>5, <3>1, <3>2
  <2>3. RequestWaiver(h) \/ ApproveWaiver(h)
    BY <1>1, <2>2, ReadingStores, StoringStores
    DEF Acts, Decides, WithdrawOne, SweepOne, RejectWaiver
  <2>4. CASE RequestWaiver(h)
    <3>1. job[h].kind = "alone"
      BY <2>2, <2>4 DEF RequestWaiver
    <3> QED
      BY <1>2, <2>2, <3>1 DEF WrittenFirst, OneDecides, Asked, Deciding
  <2>5. CASE ApproveWaiver(h)
    <3> DEFINE u == job[h].user
               events == DecideApprove(waivers[w], AsNonAuthor(u))
               t == EvolveAll(waivers[w], events)
    <3>1. /\ waivers' = [waivers EXCEPT ![w] = t] /\ u \in User
          /\ h \in overlap.handlers /\ t.status = "approved" => w \in overlap'.waivers
      BY <2>2, <2>5 DEF ApproveWaiver, Apply, Jobs, JobFits, Deciding
    <3>2. waivers'[w] = t
      BY <1>2, <3>1
    <3>3. t.status = "approved" /\ waivers[w].status = "requested" /\ IsLast(w)
      <4>1. waivers[w].status # "none" => waivers[w].policy = policy
        BY DEF Streams
      <4> HIDE DEF u, events, t
      <4> QED
        BY <1>2, <1>5, <2>1, <3>1, <3>2, <4>1, ApprovedOf DEF t, events, IsLast, Over
    <3> HIDE DEF u, events, t
    <3>4. w \in written \/ h \in overlap.handlers
      BY <2>2, <3>3 DEF Overtaken, OvertakenOf
    <3> QED
      BY <1>2, <3>1, <3>3, <3>4
  <2> QED
    BY <2>3, <2>4, <2>5
<1> QED
  BY <1>4, <1>5

\* An approval overtakes those that have yet to append, and nothing else brings the
\* last approval of a waiver nearer.
LEMMA OvertakenStep ==
    TypeOK /\ Jobs /\ Asked /\ Reads /\ Streams /\ WrittenFirst /\ Overtaken /\ Next => Overtaken'
<1> SUFFICES ASSUME TypeOK, Jobs, Asked, Reads, Streams, WrittenFirst, Overtaken, Next,
                    NEW g \in Handler, pc'[g] = "append", job'[g].kind \in Deciding
             PROVE  OvertakenOf(g, job[g].waiver)'
  BY DEF Overtaken
<1>1. PICK h \in Handler : Acts(h)
  BY StepKinds DEF Acts
<1>0. /\ OwnTypes
      /\ written \subseteq written' /\ Overlap(h)
      /\ \A w \in WaiverId : Transition(w) /\ Appended(w)
      /\ \A f \in Handler \ {h} : pc'[f] = pc[f] /\ job'[f] = job[f]
      /\ JobFits(pc[h], job[h]) /\ JobFits(pc[g], job[g])
      /\ waivers \in [WaiverId -> State]
      /\ overlap \in [handlers : SUBSET Handler, waivers : SUBSET WaiverId]
  BY <1>1, OverlapSteps, StoreGrows, WaiversStep, OthersStay
  DEF Acts, TypeOK, OwnTypes, Job, Sweep, Jobs
\* Another handler acts.
<1>2. CASE g # h
  <2>1. PICK x \in WaiverId : /\ pc[g] = "append" /\ job[g].kind \in Deciding
                             /\ job'[g] = job[g] /\ x = job[g].waiver
    BY <1>0, <1>2 DEF JobFits
  <2> SUFFICES OvertakenOf(g, x)'
    BY <2>1 DEF OvertakenOf
  <2>2. CASE x \in written
    BY <1>0, <2>2 DEF OvertakenOf
  <2>3. CASE g \in overlap.handlers
    <3>1. CASE ApproveWaiver(h)
      BY <1>2, <2>3, <3>1 DEF ApproveWaiver, OvertakenOf
    <3> QED
      BY <1>0, <1>2, <2>3, <3>1 DEF Overlap, OvertakenOf
  <2>4. CASE job[g].kind = "approve" /\ (waivers[x].status = "requested" => ~IsLast(x))
    <3>1. CASE waivers'[x] = waivers[x]
      BY <2>1, <2>4, <3>1 DEF IsLast, OvertakenOf
    <3>2. CASE waivers'[x] # waivers[x] /\ waivers'[x].status = "requested"
      <4>1. waivers[x].status # "none"
        <5> SUFFICES ASSUME waivers[x].status = "none" PROVE FALSE
          OBVIOUS
        <5>1. PICK f \in Handler : job[f].kind \in {"ask", "alone"} /\ job[f].waiver = x
          BY <1>0, <2>1, <3>2 DEF Appended
        <5> QED
          BY <2>1, <2>4, <5>1 DEF Asked
      <4>2. waivers[x].status = "requested"
        BY <1>0, <2>1, <3>2, <4>1 DEF Transition
      <4>3. PICK f \in Handler : pc[f] = "append" /\ job[f].kind \in Deciding /\ job[f].waiver = x /\ job'[f] = NoJob
        BY <1>0, <2>1, <3>2, <4>2 DEF Appended
      <4>4. f = h
        BY <1>0, <4>3 DEF NoJob, Deciding
      <4>5. RequestWaiver(h) \/ ApproveWaiver(h)
        BY <1>1, <3>2, <4>3, <4>4, ReadingStores, StoringStores
        DEF Acts, Decides, WithdrawOne, SweepOne, RejectWaiver
      <4>6. ApproveWaiver(h)
        BY <4>2, <4>3, <4>4, <4>5 DEF RequestWaiver, Asked
      <4>7. DecideApprove(waivers[x], AsNonAuthor(job[h].user)) # << >>
        <5> SUFFICES ASSUME DecideApprove(waivers[x], AsNonAuthor(job[h].user)) = << >> PROVE FALSE
          OBVIOUS
        <5>1. waivers' = [waivers EXCEPT ![x] = EvolveAll(waivers[x], << >>)]
          BY <4>3, <4>4, <4>6 DEF ApproveWaiver, Apply
        <5> QED
          BY <1>0, <2>1, <3>2, <5>1, EvolveOne
      <4>8. g \in Approving(h, x)
        BY <1>2, <2>1, <2>4 DEF Approving
      <4> QED
        BY <4>3, <4>4, <4>6, <4>7, <4>8 DEF ApproveWaiver, OvertakenOf
    <3>3. CASE waivers'[x].status # "requested"
      BY <2>1, <2>4, <3>3 DEF OvertakenOf
    <3> QED
      BY <3>1, <3>2, <3>3
  <2> QED
    BY <2>1, <2>2, <2>3, <2>4 DEF Overtaken, OvertakenOf
\* The handler itself comes to its append.
<1>3. CASE g = h
  <2>1. ASSUME NEW w \in WaiverId, NEW u \in User, Approve(h, w, u)
        PROVE  /\ job'[h].kind = "approve" /\ job'[h].waiver = w
               /\ waivers'[w].status = "requested" => ~IsLast(w)'
    <3> DEFINE s == waivers[w]
               preview == DecideApprove(s, AsNonAuthor(u))
    <3>1. /\ preview # << >> /\ UNCHANGED waivers
          /\ pc'[h] = IF EvolveAll(s, preview).status = "approved" THEN "read" ELSE "append"
          /\ job'[h].waiver = w /\ job'[h].kind = "approve"
      BY <1>0, <2>1 DEF Approve, GoTo, OwnTypes, stored
    <3>2. s \in State /\ (s.status # "none" => s.policy = policy)
      BY DEF TypeOK, Streams
    <3>3. EvolveAll(s, preview).status = IF IsLast(w) THEN "approved" ELSE "requested"
      <4> HIDE DEF s, preview
      <4> QED
        BY <3>1, <3>2, ApprovedOf DEF preview, IsLast, s
    <3>4. ~IsLast(w)
      BY <1>3, <3>1, <3>3
    <3> QED
      BY <3>1, <3>4 DEF IsLast
  <2>2. CASE WriteFile(h) \/ WriteSidecar(h)
    <3>1. pc[h] = "write" /\ job'[h] = job[h] /\ Wrote(h)
      BY <2>2 DEF WriteFile, WriteSidecar
    <3> QED
      BY <1>0, <1>3, <3>1, NoEntryAssumption DEF Wrote, JobFits, OvertakenOf
  <2>3. CASE job'[h] = job[h] /\ pc[h] \in Sweeping
    BY <1>0, <1>3, <2>3 DEF WrittenFirst, OvertakenOf
  <2>5. CASE Return(h)
    BY <1>3, <2>5, Returned DEF Sweeping
  <2>6. CASE Decides(h) \/ Ending(h)
    BY <1>3, <2>3, <2>5, <2>6 DEF Decides, RequestWaiver, ApproveWaiver, WithdrawOne, SweepOne, RejectWaiver,
       Ending, ReadDecisionsRefused, WriteSidecarRefused, WithdrawEnd, SweepEnd, Fail, Sweeping
  <2>7. CASE Reading(h)
    <3>1. CASE SweepDoc(h) \/ SweepList(h)
      BY <2>3, <3>1 DEF SweepDoc, SweepList, Sweeping
    <3>2. CASE ReadDoc(h) \/ ReadDecisions(h) \/ WithdrawRows(h) \/ \E u \in User : Withdraw(h, u)
      BY <1>0, <1>3, <3>2 DEF ReadDoc, ReadDecisions, WithdrawRows, Withdraw, GoTo, OwnTypes, Sweeping
    <3>3. CASE \E w \in WaiverId, u \in User : Approve(h, w, u)
      BY <1>3, <2>1, <3>3 DEF OvertakenOf
    <3> QED
      BY <2>7, <3>1, <3>2, <3>3 DEF Reading
  <2>8. CASE Storing(h)
    <3>1. CASE \E w \in WaiverId, u \in User : Ask(h, w, u)
      BY <1>0, <1>3, <3>1 DEF Ask, GoTo, OwnTypes, Sweeping
    <3>2. CASE \E t \in Text : Edit(h, t)
      BY <1>0, <1>3, <3>2 DEF Edit, NoJob, OwnTypes, Deciding
    <3> QED
      BY <2>2, <2>8, <3>1, <3>2 DEF Storing
  <2> QED
    BY <1>1, <2>6, <2>7, <2>8 DEF Acts
<1> QED
  BY <1>2, <1>3

LEMMA NewestVersion ==
    ASSUME TypeOK, Jobs, Reads, Next, head' # head
    PROVE  /\ head' = head + 1
           /\ \/ \E h \in Handler, t \in Text :
                    /\ Edit(h, t)
                    /\ versions'[head + 1] = [versions[head] EXCEPT !.text = t]
              \/ \E h \in Handler :
                    /\ WriteSidecar(h)
                    /\ pc[h] = "write" /\ ~local /\ dec[h] = versions[head].sidecar
                    /\ job[h].kind \in Deciding => Fits(h) /\ base[h] = head
                    /\ versions'[head + 1] = [versions[head] EXCEPT !.sidecar = Content(h)]
<1>1. PICK h \in Handler : Acts(h)
  BY StepKinds DEF Acts
<1>2. versions[head] \in [text : Text, sidecar : Sidecar] /\ versions' # versions
  BY VersionTypes DEF head
<1>3. ASSUME NEW n \in [text : Text, sidecar : Sidecar], versions' = Append(versions, n)
      PROVE  head' = head + 1 /\ versions'[head + 1] = n
  BY <1>3, NewVersion
<1>4. ASSUME NEW t \in Text, Edit(h, t)
      PROVE  head' = head + 1 /\ versions'[head + 1] = [versions[head] EXCEPT !.text = t]
  <2>1. [versions[head] EXCEPT !.text = t] \in [text : Text, sidecar : Sidecar]
    BY <1>2
  <2> QED
    BY <1>3, <1>4, <2>1 DEF Edit
<1>5. ASSUME WriteSidecar(h)
      PROVE  /\ head' = head + 1 /\ versions'[head + 1] = [versions[head] EXCEPT !.sidecar = Content(h)]
             /\ pc[h] = "write" /\ ~local /\ dec[h] = versions[head].sidecar
             /\ job[h].kind \in Deciding => Fits(h) /\ base[h] = head
  <2>1. /\ versions' = Append(versions, [versions[head] EXCEPT !.sidecar = Content(h)])
        /\ pc[h] = "write" /\ ~local /\ base[h] = head
    BY <1>2, <1>5 DEF WriteSidecar
  <2>2. [versions[head] EXCEPT !.sidecar = Content(h)] \in [text : Text, sidecar : Sidecar]
    BY <1>2, <2>1, ContentOf
  <2> QED
    BY <1>3, <2>1, <2>2 DEF Reads, ReadsFit
<1> QED
  BY <1>1, <1>2, <1>4, <1>5, ReadingStores, DecidingStores DEF Acts, stored, Storing, Ask, WriteFile

LEMMA NoLostUpdateStep == TypeOK /\ Jobs /\ Reads /\ NoLostUpdate /\ Next => NoLostUpdate'
<1> SUFFICES ASSUME TypeOK, Jobs, Reads, NoLostUpdate, Next PROVE NoLostUpdate'
  OBVIOUS
<1> DEFINE Differ(old, new) ==
              \/ old.sidecar = new.sidecar
              \/ old.text = new.text /\ \E k \in Key : old.sidecar[k] = new.sidecar[k]
<1>0. /\ head \in Nat /\ head >= 1 /\ head' \in Nat
      /\ \A v \in 1 .. head : versions'[v] = versions[v]
      /\ versions[head] \in [text : Text, sidecar : Sidecar]
  BY StoreGrows, VersionTypes
<1>1. \A v \in 2 .. head : Differ(versions'[v - 1], versions'[v])
  <2>1. \A v \in 2 .. head : Differ(versions[v - 1], versions[v])
    BY DEF NoLostUpdate
  <2>2. \A v \in 2 .. head : v \in 1 .. head /\ v - 1 \in 1 .. head
    BY <1>0
  <2> HIDE DEF Differ
  <2> QED
    BY <1>0, <2>1, <2>2
<1>2. head' # head => head' = head + 1 /\ Differ(versions[head], versions'[head + 1])
  <2>1. ASSUME NEW t \in Text, versions'[head + 1] = [versions[head] EXCEPT !.text = t]
        PROVE  Differ(versions[head], versions'[head + 1])
    BY <1>0, <2>1
  <2>2. ASSUME NEW h \in Handler, pc[h] = "write", dec[h] = versions[head].sidecar,
               versions'[head + 1] = [versions[head] EXCEPT !.sidecar = Content(h)]
        PROVE  Differ(versions[head], versions'[head + 1])
    <3>1. \E k \in Key : dec[h][k] = Content(h)[k]
      <4>1. CASE job[h].kind \in Deciding
        <5>1. PICK k \in Key : k # KeyOf(job[h].waiver)
          BY DEF Key, KeyOf
        <5> QED
          BY <2>2, <4>1, <5>1, ContentOf
      <4>2. CASE job[h].kind \notin Deciding
        BY <2>2, <4>2, ContentOf DEF Key
      <4> QED
        BY <4>1, <4>2
    <3> HIDE DEF Content
    <3> QED
      BY <1>0, <2>2, <3>1
  <2> HIDE DEF Differ
  <2> QED
    BY <2>1, <2>2, NewestVersion
<1>3. \A v \in 2 .. head' : Differ(versions'[v - 1], versions'[v])
  <2> HIDE DEF Differ
  <2>1. ASSUME NEW v \in 2 .. head', v \notin 2 .. head
        PROVE  head' # head /\ v = head + 1 /\ v - 1 = head /\ head \in 1 .. head
    BY <1>0, <1>2, <2>1
  <2> QED
    BY <1>0, <1>1, <1>2, <2>1
<1> QED
  BY <1>3 DEF NoLostUpdate

LEMMA FitsItsTextStep == TypeOK /\ Jobs /\ Reads /\ Entries /\ EntryFitsItsText /\ Next => EntryFitsItsText'
<1> SUFFICES ASSUME TypeOK, Jobs, Reads, Entries, EntryFitsItsText, Next PROVE EntryFitsItsText'
  OBVIOUS
<1> DEFINE FitsText(old, new, text) ==
              new.sidecar["check"] \notin {NoEntry, old.sidecar["check"]} => text[new.sidecar["check"]] = new.text
<1>0. /\ head \in Nat /\ head >= 1 /\ head' \in Nat
      /\ \A v \in 1 .. head : versions'[v] = versions[v]
      /\ versions[head] \in [text : Text, sidecar : Sidecar]
      /\ \A w \in written : w \in WaiverId /\ hash'[w] = hash[w]
  BY StoreGrows, VersionTypes DEF TypeOK
<1>1. \A v \in 2 .. head : FitsText(versions'[v - 1], versions'[v], hash')
  <2>1. \A v \in 2 .. head : FitsText(versions[v - 1], versions[v], hash)
    BY DEF EntryFitsItsText
  <2>2. \A v \in 2 .. head : v \in 1 .. head /\ v - 1 \in 1 .. head
    BY <1>0
  <2>3. \A v \in 2 .. head : versions[v].sidecar["check"] # NoEntry => versions[v].sidecar["check"] \in written
    BY <2>2 DEF Entries, Known, Key
  <2> QED
    BY <1>0, <2>1, <2>2, <2>3
<1>2. head' # head => head' = head + 1 /\ FitsText(versions[head], versions'[head + 1], hash')
  <2>1. ASSUME NEW t \in Text, versions'[head + 1] = [versions[head] EXCEPT !.text = t]
        PROVE  FitsText(versions[head], versions'[head + 1], hash')
    BY <1>0, <2>1
  <2>2. ASSUME NEW h \in Handler, WriteSidecar(h), pc[h] = "write", dec[h] = versions[head].sidecar,
               job[h].kind \in Deciding => Fits(h) /\ base[h] = head,
               versions'[head + 1] = [versions[head] EXCEPT !.sidecar = Content(h)]
        PROVE  FitsText(versions[head], versions'[head + 1], hash')
    <3>1. /\ versions'[head + 1].sidecar = Content(h)
          /\ versions'[head + 1].text = versions[head].text
      BY <1>0, <2>2
    <3>2. CASE Content(h)["check"] = dec[h]["check"]
      BY <2>2, <3>1, <3>2
    <3>3. CASE Content(h)["check"] # dec[h]["check"]
      <4>1. job[h].kind \in Deciding /\ KeyOf(job[h].waiver) = "check" /\ Content(h)["check"] = job[h].waiver
        BY <2>2, <3>3, ContentOf DEF Key
      <4>2. job[h].waiver \notin Ack
        BY <4>1 DEF KeyOf
      <4>3. hash[job[h].waiver] = versions[head].text /\ hash' = hash
        BY <2>2, <4>1, <4>2 DEF Fits, WriteSidecar
      <4> QED
        BY <3>1, <4>1, <4>3
    <3> QED
      BY <3>2, <3>3
  <2> HIDE DEF FitsText
  <2> QED
    BY <2>1, <2>2, NewestVersion
<1>3. \A v \in 2 .. head' : FitsText(versions'[v - 1], versions'[v], hash')
  <2> HIDE DEF FitsText
  <2>1. ASSUME NEW v \in 2 .. head', v \notin 2 .. head
        PROVE  head' # head /\ v = head + 1 /\ v - 1 = head /\ head \in 1 .. head
    BY <1>0, <1>2, <2>1
  <2> QED
    BY <1>0, <1>1, <1>2, <2>1
<1> QED
  BY <1>3 DEF EntryFitsItsText

LEMMA AlwaysStep == Always /\ Next => Always'
BY TypeStep, JobsStep, AskedStep, ReadsStep, EntriesStep, WrittenStep, StreamsStep, NoLostUpdateStep, FitsItsTextStep,
   ApprovedStep, OvertakenStep
DEF Always

LEMMA AlwaysInit == Init => Always
<1> SUFFICES ASSUME Init PROVE Always
  OBVIOUS
<1>1. head = 1 /\ versions \in Seq([text : Text, sidecar : Sidecar]) /\ versions[1].sidecar = NoEntries
  BY EntryTypes, TextAssumption DEF Init, head
<1>2. NoWaiver \in State /\ NoWaiver.status = "none"
  BY MaxNeededAssumption DEF NoWaiver, State, Statuses, Scopes, Endings, Policy
<1>3. NoJob \in Job /\ JobFits("idle", NoJob)
  BY DEF NoJob, Job, JobFits, Deciding
<1>4. TypeOK
  BY <1>1, <1>2, <1>3, EntryTypes, TextAssumption DEF Init, TypeOK, Modes, Steps, Job, Sweep
<1>5. Jobs /\ Asked /\ Reads
  BY <1>1, <1>3, EntryTypes DEF Init, Jobs, Asked, Reads, ReadsFit, NoJob, NoSweep
<1>6. Entries
  BY <1>1 DEF Init, Entries, Known, NoEntries, NoSweep
<1>7. WrittenFirst /\ Streams
  BY <1>2, <1>3 DEF Init, WrittenFirst, Streams, Over, NoJob, Deciding
<1>8. NoLostUpdate /\ EntryFitsItsText /\ ApprovedWasWritten /\ Overtaken
  BY <1>1, <1>2 DEF Init, NoLostUpdate, EntryFitsItsText, ApprovedWasWritten, Overtaken
<1> QED
  BY <1>4, <1>5, <1>6, <1>7, <1>8 DEF Always

-----------------------------------------------------------------------------
(* In turn. *)

Quiet(h) == ~Busy(h)

\* A handler that is not busy has nothing left to do.
LEMMA QuietLeavesNothing ==
    ASSUME Jobs, NEW h \in Handler, Quiet(h)
    PROVE  /\ Reader(h)
           /\ \A w : ~Pending(h, w) /\ ~Unswept(h, w) /\ ~TakesAway(h, w)
           /\ job[h].kind \in {"none", "ask"}
<1>1. pc[h] \in {"idle", "ask"} /\ job[h].kind \in {"none", "ask"}
  BY DEF Quiet, Busy, Jobs, JobFits
<1> QED
  BY <1>1 DEF Reader, ReadsNow, Previewed, Withdrawing, Pending, Unswept, TakesAway, Sweeping

LEMMA QuietAfter ==
    ASSUME Jobs', NEW h \in Handler, Quiet(h)'
    PROVE  /\ Reader(h)'
           /\ \A w : ~Pending(h, w)' /\ ~Unswept(h, w)' /\ ~TakesAway(h, w)'
           /\ job'[h].kind \in {"none", "ask"}
<1>1. pc'[h] \in {"idle", "ask"} /\ job'[h].kind \in {"none", "ask"}
  BY DEF Quiet, Busy, Jobs, JobFits
<1> QED
  BY <1>1 DEF Reader, ReadsNow, Previewed, Withdrawing, Pending, Unswept, TakesAway, Sweeping

LEMMA TurnOfOne ==
    ASSUME Jobs, Turn, NEW h \in Handler, \A g \in Handler \ {h} : Quiet(g)
    PROVE  TurnOf({h})
<1>1. \A g \in Handler \ {h}, w \in WaiverId \cup written : ~Pending(g, w) /\ ~Unswept(g, w) /\ ~TakesAway(g, w)
  BY QuietLeavesNothing
<1>2. Reader(h) /\ Told(Handler) /\ CheckAgrees(Handler) /\ TraceAgrees(Handler)
  BY DEF Turn, TurnOf
<1>3. Told({h})
  BY <1>1, <1>2 DEF Told
<1>4. CheckAgrees({h})
  BY <1>1, <1>2 DEF CheckAgrees
<1>5. TraceAgrees({h})
  BY <1>1, <1>2, AckAssumption DEF TraceAgrees
<1> QED
  BY <1>2, <1>3, <1>4, <1>5 DEF TurnOf

LEMMA TurnOfAll ==
    ASSUME Jobs', NEW h \in Handler, TurnOf({h})', \A g \in Handler \ {h} : Quiet(g)'
    PROVE  Turn'
<1>1. \A g \in Handler : Reader(g)'
  BY QuietAfter DEF TurnOf
<1>2. Told(Handler)'
  BY DEF Told, TurnOf
<1>3. CheckAgrees(Handler)'
  BY DEF CheckAgrees, TurnOf
<1>4. TraceAgrees(Handler)'
  BY DEF TraceAgrees, TurnOf
<1>5. \A f, g \in Handler : Busy(f)' /\ Busy(g)' => f = g
  BY DEF Quiet
<1> QED
  BY <1>1, <1>2, <1>3, <1>4, <1>5 DEF Turn, TurnOf

LEMMA SidecarStays ==
    UNCHANGED <<mode, versions, file>> =>
        /\ sidecar' = sidecar /\ headText' = headText /\ head' = head
        /\ hash' = hash => (Applies' <=> Applies)
BY DEF sidecar, headText, head, Decisions, local, Applies

\* A step that stores nothing, and forgets nothing that is left to do.
LEMMA NothingStored ==
    ASSUME NEW h \in Handler, TurnOf({h}), UNCHANGED stored, Reader(h)',
           \A w \in written : Pending(h, w) => Pending(h, w)',
           \A w \in Ack : Pending(h, w) => Pending(h, w)',
           \A w \in WaiverId \ Ack : 
              waivers[w].status \in {"approved", "invalidated"} /\ Unswept(h, w) => Unswept(h, w)',
           \A w \in Ack : waivers[w].status = "approved" /\ TakesAway(h, w) => TakesAway(h, w)'
    PROVE  TurnOf({h})'
<1>1. /\ sidecar' = sidecar /\ headText' = headText /\ (Applies' <=> Applies)
      /\ UNCHANGED <<waivers, hash, written>>
  BY SidecarStays DEF stored
<1>2. Told({h})'
  BY <1>1 DEF TurnOf, Told
<1>3. CheckAgrees({h})'
  BY <1>1 DEF TurnOf, CheckAgrees
<1>4. TraceAgrees({h})'
  BY <1>1 DEF TurnOf, TraceAgrees
<1> QED
  BY <1>2, <1>3, <1>4 DEF TurnOf

\* The types that the steps in turn need.
LEMMA TypesInTurn ==
    ASSUME TypeOK
    PROVE  /\ pc \in [Handler -> Steps] /\ job \in [Handler -> Job] /\ base \in [Handler -> 1 .. MaxVersions]
           /\ dec \in [Handler -> Sidecar] /\ sweep \in [Handler -> Sweep]
           /\ sidecar \in Sidecar /\ head \in Nat /\ head >= 1
           /\ waivers \in [WaiverId -> State] /\ hash \in [WaiverId -> Text]
           /\ written \subseteq WaiverId
<1>1. sidecar \in Sidecar /\ head \in Nat /\ head >= 1
  BY VersionTypes, DecisionsTypes DEF sidecar
<1> QED
  BY <1>1 DEF TypeOK, Job, Sweep

LEMMA SidecarKnown ==
    ASSUME Always
    PROVE  Known(sidecar, written)
BY VersionTypes DEF Always, Entries, sidecar, Decisions

\* The handler ends with nothing left to do.
LEMMA ReturnInTurn ==
    ASSUME Always, NEW h \in Handler, TurnOf({h}), Return(h), UNCHANGED stored, Jobs',
           \A w : ~Pending(h, w), \A w \in WaiverId : ~Unswept(h, w), \A w \in Ack : ~TakesAway(h, w)
    PROVE  TurnOf({h})'
<1>1. Quiet(h)'
  BY Returned DEF Always, Quiet, Busy
<1> QED
  BY <1>1, QuietAfter, NothingStored

\* The first reads of a handler, when no other one is busy.
LEMMA ReadsInTurn ==
    ASSUME Always, Jobs', NEW h \in Handler, TurnOf({h}),
           \/ \E w \in WaiverId, u \in User : Approve(h, w, u)
           \/ \E u \in User : Withdraw(h, u)
           \/ ReadDoc(h) \/ ReadDecisions(h) \/ ReadDecisionsRefused(h) \/ WriteSidecarRefused(h)
    PROVE  TurnOf({h})'
<1>0. /\ UNCHANGED stored /\ sidecar' = sidecar /\ head' = head
      /\ pc \in [Handler -> Steps] /\ job \in [Handler -> Job] /\ base \in [Handler -> 1 .. MaxVersions]
      /\ dec \in [Handler -> Sidecar]
  BY SidecarStays, TypesInTurn
  DEF Always, Approve, Withdraw, ReadDoc, ReadDecisions, ReadDecisionsRefused, WriteSidecarRefused, stored
<1>1. pc[h] \in {"idle", "read", "decisions", "write"} /\ (job[h].kind = "withdraw" => pc[h] = "write")
  <2>1. pc[h] \in {"idle", "read", "decisions", "write"}
    BY DEF Approve, Withdraw, ReadDoc, ReadDecisions, ReadDecisionsRefused, WriteSidecarRefused
  <2>2. JobFits(pc[h], job[h])
    BY DEF Always, Jobs
  <2> QED
    BY <2>1, <2>2 DEF JobFits, Deciding
<1>2. /\ \A w : ~Pending(h, w)
      /\ \A w : ~Unswept(h, w) /\ ~TakesAway(h, w)
  BY <1>1 DEF Pending, Unswept, TakesAway, Withdrawing, Sweeping
<1>3. CASE Return(h)
  BY <1>0, <1>2, <1>3, ReturnInTurn
<1>4. ASSUME NEW w \in WaiverId, NEW u \in User, Approve(h, w, u) PROVE Reader(h)'
  <2> DEFINE s == waivers[w]
             preview == DecideApprove(s, AsNonAuthor(u))
  <2>1. /\ preview # << >>
        /\ pc'[h] = IF EvolveAll(s, preview).status = "approved" THEN "read" ELSE "append"
        /\ job'[h] = [kind |-> "approve", waiver |-> w, user |-> u]
        /\ UNCHANGED <<waivers, written>>
    BY <1>0, <1>4 DEF Approve, GoTo, stored
  <2>2. s \in State /\ (s.status # "none" => s.policy = policy)
    BY DEF Always, TypeOK, Streams
  <2>3. /\ s.status = "requested" /\ ~HasApproved(s, u)
        /\ EvolveAll(s, preview).status = IF IsLast(w) THEN "approved" ELSE "requested"
    <3> HIDE DEF s, preview
    <3> QED
      BY <2>1, <2>2, ApprovedOf DEF preview, s, IsLast
  <2>4. w \notin written
    BY <1>2, <2>3 DEF TurnOf, Told, Over
  <2>5. (pc'[h] = "read" /\ IsLast(w)) \/ (pc'[h] = "append" /\ ~IsLast(w))
    BY <2>1, <2>3
  <2>6. IsLast(w)' <=> IsLast(w)
    BY <2>1 DEF IsLast
  <2> HIDE DEF s, preview
  <2>7. Previewed(h)'
    BY <2>1, <2>3, <2>4, <2>5, <2>6 DEF Previewed, s
  <2>8. ReadsNow(h)' /\ ~Withdrawing(h)'
    BY <2>1, <2>5 DEF ReadsNow, Withdrawing
  <2> QED
    BY <2>7, <2>8 DEF Reader
<1>5. ASSUME NEW u \in User, Withdraw(h, u) PROVE Reader(h)'
  <2>1. /\ pc'[h] = "write" /\ job'[h].kind = "withdraw" /\ base'[h] = head /\ dec'[h] = sidecar
    BY <1>0, <1>5 DEF Withdraw, GoTo, sidecar
  <2> QED
    BY <1>0, <2>1 DEF Reader, ReadsNow, Previewed, Withdrawing
<1>6. ASSUME ReadDoc(h) \/ ReadDecisions(h) PROVE Reader(h)'
  <2>1. job' = job /\ UNCHANGED <<waivers, written>>
    BY <1>0, <1>6 DEF ReadDoc, ReadDecisions, stored
  <2>2. /\ pc[h] \in {"read", "decisions"} /\ pc'[h] \in {"decisions", "write"}
        /\ base'[h] = head /\ (pc'[h] = "write" => dec'[h] = sidecar)
    BY <1>0, <1>6 DEF ReadDoc, ReadDecisions, GoTo, TurnOf, Reader, ReadsNow, sidecar
  <2>3. Previewed(h)'
    BY <2>1, <2>2 DEF TurnOf, Reader, Previewed, IsLast
  <2>4. ReadsNow(h)' /\ ~Withdrawing(h)'
    BY <1>0, <1>1, <2>1, <2>2 DEF ReadsNow, Withdrawing
  <2> QED
    BY <2>3, <2>4 DEF Reader
<1>7. CASE Reader(h)'
  BY <1>0, <1>2, <1>7, NothingStored
<1> QED
  BY <1>3, <1>4, <1>5, <1>6, <1>7 DEF ReadDecisionsRefused, WriteSidecarRefused

\* Alone: the handler asks, with the newest version read.
LEMMA AskInTurn ==
    ASSUME Always, NEW h \in Handler, TurnOf({h}), NEW x \in WaiverId, NEW u \in User, Ask(h, x, u), Alone(x)
    PROVE  TurnOf({h})'
<1>0. /\ sidecar' = sidecar /\ head' = head /\ headText' = headText
      /\ pc \in [Handler -> Steps] /\ job \in [Handler -> Job] /\ base \in [Handler -> 1 .. MaxVersions]
      /\ hash \in [WaiverId -> Text] /\ sidecar \in Sidecar
      /\ UNCHANGED <<waivers, written>>
  BY SidecarStays, TypesInTurn DEF Always, Ask
<1>1. /\ pc[h] = "idle" /\ pc'[h] = "decisions" /\ base'[h] = head
      /\ job'[h].kind = "alone"
      /\ x \notin written /\ waivers[x].status = "none"
      /\ \A w \in WaiverId : w # x => hash'[w] = hash[w]
  BY <1>0 DEF Ask, GoTo
<1>2. /\ \A w : ~Pending(h, w)
      /\ \A w : ~Unswept(h, w) /\ ~TakesAway(h, w)
  BY <1>1, QuietLeavesNothing DEF Always, Quiet, Busy
<1>3. Reader(h)'
  BY <1>0, <1>1 DEF Reader, ReadsNow, Previewed, Withdrawing
<1>4. Applies' <=> Applies
  <2>1. sidecar["check"] # NoEntry => sidecar["check"] \in WaiverId /\ sidecar["check"] # x
    BY <1>0, <1>1, SidecarKnown DEF Known, Sidecar, Key
  <2> QED
    BY <1>0, <1>1, <2>1 DEF Applies
<1>5. Told({h})'
  BY <1>0, <1>2 DEF TurnOf, Told
<1>6. CheckAgrees({h})'
  BY <1>0, <1>1, <1>2, <1>4 DEF TurnOf, CheckAgrees
<1>7. TraceAgrees({h})'
  BY <1>0, <1>2 DEF TurnOf, TraceAgrees
<1> QED
  BY <1>3, <1>5, <1>6, <1>7 DEF TurnOf

\* The section gets another text: a sweep comes to every waiver.
LEMMA EditInTurn ==
    ASSUME Always, Jobs', NEW h \in Handler, TurnOf({h}), NEW t \in Text, Edit(h, t)
    PROVE  TurnOf({h})'
<1>0. /\ UNCHANGED <<mode, file, waivers, hash, written>>
      /\ pc \in [Handler -> Steps] /\ job \in [Handler -> Job]
  BY TypesInTurn DEF Always, Edit
<1>1. /\ pc[h] = "idle" /\ pc'[h] = "sweep" /\ job'[h].kind = "edit"
      /\ t # headText
  BY <1>0 DEF Edit, GoTo, NoJob, headText
<1>2. sidecar' = sidecar /\ headText' = t
  <2>1. versions[head] \in [text : Text, sidecar : Sidecar]
    BY VersionTypes DEF Always
  <2>2. /\ head' = head + 1 /\ versions'[head + 1] = [versions[head] EXCEPT !.text = t]
    <3> DEFINE n == [versions[head] EXCEPT !.text = t]
    <3>1. n \in [text : Text, sidecar : Sidecar] /\ versions' = Append(versions, n)
      BY <2>1 DEF Edit
    <3> HIDE DEF n
    <3>2. head' = head + 1 /\ versions'[head + 1] = n
      BY <3>1, NewVersion DEF Always
    <3> QED
      BY <3>2 DEF n
  <2> QED
    BY <1>0, <2>1, <2>2 DEF sidecar, headText, Decisions, local
<1>3. \A w : ~Pending(h, w) /\ ~Unswept(h, w) /\ ~TakesAway(h, w)
  BY <1>1, QuietLeavesNothing DEF Always, Quiet, Busy
<1>4. Reader(h)'
  BY <1>1 DEF Reader, ReadsNow, Previewed, Withdrawing
<1>5. Told({h})'
  BY <1>0, <1>3 DEF TurnOf, Told
<1>6. CheckAgrees({h})'
  BY <1>0, <1>1, <1>2, <1>3 DEF TurnOf, CheckAgrees, Unswept
<1>7. TraceAgrees({h})'
  BY <1>0, <1>2, <1>3 DEF TurnOf, TraceAgrees
<1> QED
  BY <1>4, <1>5, <1>6, <1>7 DEF TurnOf

\* A sidecar that is written changes one entry, and the text stays.
LEMMA Rewrites ==
    ASSUME Always, NEW h \in Handler, TurnOf({h}), WriteFile(h) \/ WriteSidecar(h)
    PROVE  /\ pc[h] = "write" /\ pc'[h] = "sweep"
           /\ UNCHANGED <<mode, waivers, hash, job>>
           /\ written' = written \cup ({job[h].waiver} \ {NoEntry})
           /\ sidecar' = Content(h) /\ headText' = headText
           /\ job[h].kind \in Deciding =>
                 /\ job[h].waiver \in WaiverId \ written
                 /\ waivers[job[h].waiver].status \notin Over
                 /\ job[h].waiver \notin Ack => hash[job[h].waiver] = headText
<1>0. /\ UNCHANGED <<mode, waivers, hash, job>>
      /\ pc[h] = "write" /\ written' = written \cup ({job[h].waiver} \ {NoEntry})
      /\ pc \in [Handler -> Steps]
      /\ base[h] = head /\ dec[h] = sidecar
  BY TypesInTurn DEF WriteFile, WriteSidecar, Wrote, Always, TurnOf, Reader, ReadsNow
<1>1. ASSUME job[h].kind \in Deciding
      PROVE  /\ job[h].waiver \in WaiverId \ written
             /\ waivers[job[h].waiver].status \notin Over
             /\ job[h].waiver \notin Ack => hash[job[h].waiver] = headText
  <2>1. job[h].waiver \in WaiverId
    BY <1>0, <1>1, ContentOf DEF Always
  <2>2. waivers[job[h].waiver].status \in {"none", "requested"}
    BY <1>0, <1>1 DEF Always, Asked, Deciding, TurnOf, Reader, Previewed
  <2>3. job[h].waiver \notin written
    BY <1>0, <2>2 DEF TurnOf, Told, Over, Pending, Sweeping
  <2>4. Fits(h)
    BY <1>0, <1>1 DEF Always, Reads, ReadsFit
  <2> QED
    BY <1>0, <2>1, <2>2, <2>3, <2>4 DEF Over, Fits, headText
<1>2. Content(h) # dec[h]
  <2>1. CASE job[h].kind \in Deciding
    <3>1. /\ Content(h)[KeyOf(job[h].waiver)] = job[h].waiver /\ KeyOf(job[h].waiver) \in Key
          /\ job[h].waiver # NoEntry
      BY <1>0, <2>1, ContentOf, EntryTypes DEF Always
    <3> QED
      BY <1>0, <1>1, <2>1, <3>1, SidecarKnown DEF Known
  <2>2. CASE job[h].kind \notin Deciding
    <3>1. job[h].kind = "withdraw" /\ Content(h)["trace"] = NoEntry
      BY <1>0, <2>2, ContentOf DEF Always
    <3> QED
      BY <1>0, <3>1 DEF Always, Reads, ReadsFit
  <2> QED
    BY <2>1, <2>2
<1>3. pc'[h] = "sweep"
  BY <1>0, <1>2 DEF WriteFile, WriteSidecar, GoTo
<1>4. CASE WriteFile(h)
  <2>1. local /\ local' /\ file' = Content(h) /\ versions' = versions
    BY <1>4 DEF WriteFile, local
  <2> QED
    BY <1>0, <1>1, <1>3, <2>1 DEF sidecar, headText, head, Decisions
<1>5. CASE WriteSidecar(h)
  <2> DEFINE n == [versions[head] EXCEPT !.sidecar = Content(h)]
  <2>1. versions[head] \in [text : Text, sidecar : Sidecar] /\ Content(h) \in Sidecar
    BY <1>0, VersionTypes, ContentOf DEF Always
  <2>2. n \in [text : Text, sidecar : Sidecar] /\ n.sidecar = Content(h) /\ n.text = headText
    BY <2>1 DEF headText
  <2>3. ~local /\ ~local' /\ versions' = Append(versions, n)
    BY <1>0, <1>2, <1>5 DEF WriteSidecar, local
  <2> HIDE DEF n
  <2>4. head' = head + 1 /\ versions'[head + 1] = n
    BY <2>2, <2>3, NewVersion DEF Always
  <2> QED
    BY <1>0, <1>1, <1>3, <2>2, <2>3, <2>4 DEF sidecar, headText, Decisions
<1> QED
  BY <1>4, <1>5

LEMMA WriteInTurn ==
    ASSUME Always, Jobs', NEW h \in Handler, TurnOf({h}), WriteFile(h) \/ WriteSidecar(h)
    PROVE  TurnOf({h})'
<1> DEFINE x == job[h].waiver
<1>0. /\ pc[h] = "write" /\ pc'[h] = "sweep"
      /\ UNCHANGED <<mode, waivers, hash, job>>
      /\ written' = written \cup ({x} \ {NoEntry})
      /\ sidecar' = Content(h) /\ headText' = headText
      /\ dec[h] = sidecar
  BY Rewrites DEF TurnOf, Reader, ReadsNow
<1>1. \A w : ~Pending(h, w) /\ ~Unswept(h, w) /\ ~TakesAway(h, w)
  BY <1>0 DEF Pending, Unswept, TakesAway, Withdrawing, Sweeping
<1>2. \A w : Unswept(h, w)'
  BY <1>0 DEF Unswept
<1>3. CASE job[h].kind \in Deciding
  <2>1. /\ x \in WaiverId \ written /\ waivers[x].status \notin Over /\ (x \notin Ack => hash[x] = headText)
    BY <1>3, Rewrites
  <2>2. /\ sidecar'[KeyOf(x)] = x /\ \A k \in Key \ {KeyOf(x)} : sidecar'[k] = sidecar[k]
    BY <1>0, <1>3, ContentOf DEF Always
  <2>3. Pending(h, x)'
    BY <1>0, <1>3, <2>1, <2>2 DEF Pending, Sweeping, KeyOf
  <2>4. ~Withdrawing(h)'
    BY <1>0, <1>3 DEF Withdrawing, Deciding
  <2>5. Reader(h)'
    BY <1>0, <2>4 DEF TurnOf, Reader, ReadsNow, Previewed, IsLast
  <2>6. Told({h})'
    BY <1>0, <1>1, <2>3 DEF TurnOf, Told
  <2>7. CheckAgrees({h})'
    <3>1. CASE x \in Ack
      <4>1. sidecar'["check"] = sidecar["check"]
        BY <2>2, <3>1 DEF KeyOf, Key
      <4> QED
        BY <1>0, <1>1, <1>2, <4>1 DEF TurnOf, CheckAgrees, Applies
    <3>2. CASE x \notin Ack
      <4>1. Applies'
        BY <1>0, <2>1, <2>2, <3>2, NoEntryAssumption DEF Applies, KeyOf
      <4> QED
        BY <1>0, <1>1, <1>2, <4>1 DEF TurnOf, CheckAgrees
    <3> QED
      BY <3>1, <3>2
  <2>8. TraceAgrees({h})'
    <3>1. CASE x \in Ack
      <4>1. sidecar'["trace"] = x /\ x # NoEntry
        BY <2>1, <2>2, <3>1, NoEntryAssumption DEF KeyOf
      <4> QED
        BY <1>0, <2>3, <4>1 DEF TraceAgrees
    <3>2. CASE x \notin Ack
      <4>1. sidecar'["trace"] = sidecar["trace"]
        BY <2>2, <3>2 DEF KeyOf, Key
      <4> QED
        BY <1>0, <1>1, <4>1 DEF TurnOf, TraceAgrees
    <3> QED
      BY <3>1, <3>2
  <2> QED
    BY <2>5, <2>6, <2>7, <2>8 DEF TurnOf
<1>4. CASE job[h].kind \notin Deciding
  <2>1. /\ job[h].kind = "withdraw" /\ x = NoEntry /\ sidecar'["trace"] = NoEntry
        /\ sidecar'["check"] = sidecar["check"]
    BY <1>0, <1>4, ContentOf DEF Always
  <2>2. \A w : TakesAway(h, w)'
    BY <1>0, <2>1 DEF TakesAway, Withdrawing
  <2>3. Reader(h)'
    BY <1>0, <2>1 DEF Reader, ReadsNow, Previewed
  <2>4. Told({h})'
    BY <1>0, <1>1, <2>1 DEF TurnOf, Told
  <2>5. CheckAgrees({h})'
    BY <1>0, <1>1, <1>2, <2>1 DEF TurnOf, CheckAgrees, Applies
  <2>6. TraceAgrees({h})'
    BY <2>1, <2>2, NoEntryAssumption, AckAssumption DEF TraceAgrees
  <2> QED
    BY <2>3, <2>4, <2>5, <2>6 DEF TurnOf
<1> QED
  BY <1>3, <1>4

-----------------------------------------------------------------------------
(* The sweep, in turn. *)

LEMMA SweepReadsInTurn ==
    ASSUME Always, Jobs', NEW h \in Handler, TurnOf({h}), SweepDoc(h) \/ SweepList(h)
    PROVE  TurnOf({h})'
<1>0. /\ UNCHANGED stored /\ job' = job /\ sidecar' = sidecar /\ head' = head
      /\ UNCHANGED <<waivers, written>>
      /\ pc \in [Handler -> Steps] /\ sweep \in [Handler -> Sweep]
  BY SidecarStays, TypesInTurn DEF Always, SweepDoc, SweepList, stored
<1>1. /\ pc[h] \in {"sweep", "list"} /\ pc'[h] \in {"list", "decide"}
      /\ pc'[h] = "list" => sweep'[h].version = head
      /\ pc'[h] = "decide" =>
            /\ pc[h] = "list"
            /\ sweep'[h].version = sweep[h].version /\ sweep'[h].seen = sweep[h].seen
            /\ sweep'[h].rows = [w \in WaiverId |-> waivers[w].status]
            /\ sweep'[h].left = {w \in WaiverId \ Ack : waivers[w].status \in {"approved", "invalidated"}}
  <2>1. CASE SweepDoc(h)
    BY <1>0, <2>1 DEF SweepDoc, GoTo, Sweep
  <2>2. CASE SweepList(h)
    BY <1>0, <2>2 DEF SweepList, GoTo, Sweep
  <2> QED
    BY <2>1, <2>2
<1>2. ReadsNow(h)'
  <2>1. pc[h] = "list" => sweep[h].version = head /\ sweep[h].seen = {}
    BY DEF Always, Reads, ReadsFit, TurnOf, Reader, ReadsNow
  <2> QED
    BY <1>0, <1>1, <2>1 DEF ReadsNow
<1>3. Reader(h)'
  BY <1>0, <1>1, <1>2 DEF TurnOf, Reader, Previewed, IsLast, Withdrawing
<1>4. \A w : Pending(h, w) => Pending(h, w)'
  BY <1>0, <1>1, SidecarStays DEF Pending, Sweeping, stored
<1>5. \A w \in WaiverId \ Ack : waivers[w].status \in {"approved", "invalidated"} => Unswept(h, w)'
  BY <1>1 DEF Unswept
<1>6. \A w : TakesAway(h, w) => TakesAway(h, w)'
  BY <1>0, <1>1 DEF TakesAway, Withdrawing
<1> QED
  BY <1>0, <1>3, <1>4, <1>5, <1>6, NothingStored

\* The sweep in turn sees the newest version, the newest sidecar and the waiver as it
\* is: a waiver is left approved only if it holds, and invalidated only if nothing applies.
LEMMA SweepOneInTurn ==
    ASSUME Always, Jobs', NEW h \in Handler, TurnOf({h}), SweepOne(h)
    PROVE  TurnOf({h})'
<1>0. /\ UNCHANGED <<mode, versions, file, hash, written, pc, job>>
      /\ sidecar' = sidecar /\ headText' = headText /\ head' = head /\ (Applies' <=> Applies)
      /\ waivers \in [WaiverId -> State] /\ sweep \in [Handler -> Sweep]
      /\ pc[h] = "decide"
      /\ OwnTypes
  BY SidecarStays, TypesInTurn DEF Always, SweepOne, TypeOK, OwnTypes, Job, Sweep
<1>1. PICK w \in sweep[h].left, d \in {SweepDecisions(h), sweep[h].seen} :
          /\ sweep' = [sweep EXCEPT ![h] =
                         [version |-> sweep[h].version, rows |-> sweep[h].rows,
                          left |-> sweep[h].left \ {w}, seen |-> d]]
          /\ IF sweep[h].rows[w] = "approved"
               THEN Apply(w, DecideInvalidate(waivers[w], Holds(h, w), "section_changed"))
               ELSE Apply(w, DecideRestore(waivers[w], Holds(h, w), InSidecar(h, w)))
  BY <1>0, SweptOne
<1>2. /\ w \in WaiverId \ Ack
      /\ sweep[h].rows[w] = waivers[w].status
      /\ waivers[w].status \in {"approved", "invalidated"}
      /\ sweep[h].version = head
      /\ sweep[h].seen \subseteq {sidecar}
  BY <1>0 DEF Always, Reads, ReadsFit, TurnOf, Reader, ReadsNow, Sweep
<1>3. /\ Holds(h, w) <=> hash[w] = headText
      /\ Holds(h, w) \in BOOLEAN
      /\ SweepDecisions(h) = {sidecar}
  BY <1>2 DEF Holds, headText, SweepDecisions, sidecar
<1>4. InSidecar(h, w) \in BOOLEAN /\ (Holds(h, w) => (InSidecar(h, w) <=> Applies))
  BY <1>3 DEF InSidecar, Applies
<1>5. /\ \A v \in WaiverId \ {w} : waivers'[v] = waivers[v]
      /\ waivers'[w].status \in {"approved", "invalidated"}
      /\ waivers'[w].status = "approved" => hash[w] = headText /\ (waivers[w].status # "approved" => Applies)
      /\ waivers'[w].status = "invalidated" => ~(hash[w] = headText /\ (waivers[w].status = "approved" \/ Applies))
  <2>1. CASE waivers[w].status = "approved"
    <3> DEFINE t == EvolveAll(waivers[w], DecideInvalidate(waivers[w], Holds(h, w), "section_changed"))
    <3>1. waivers' = [waivers EXCEPT ![w] = t]
      BY <1>1, <1>2, <2>1 DEF Apply
    <3>2. waivers[w] \in State /\ waivers'[w] = t
      BY <1>0, <1>2, <3>1
    <3>3. IF ~Holds(h, w) THEN t.status = "invalidated" ELSE t = waivers[w]
      <4> HIDE DEF t
      <4> QED
        BY <1>3, <2>1, <3>2, InvalidatedOf DEF t
    <3> HIDE DEF t
    <3> QED
      BY <1>0, <1>2, <1>3, <2>1, <3>1, <3>2, <3>3
  <2>2. CASE waivers[w].status = "invalidated"
    <3> DEFINE t == EvolveAll(waivers[w], DecideRestore(waivers[w], Holds(h, w), InSidecar(h, w)))
    <3>1. waivers' = [waivers EXCEPT ![w] = t]
      BY <1>1, <1>2, <2>2 DEF Apply
    <3>2. waivers[w] \in State /\ waivers'[w] = t
      BY <1>0, <1>2, <3>1
    <3>3. IF Holds(h, w) /\ InSidecar(h, w) THEN t.status = "approved" ELSE t = waivers[w]
      <4> HIDE DEF t
      <4> QED
        BY <1>3, <1>4, <2>2, <3>2, RestoredOf DEF t
    <3> HIDE DEF t
    <3> QED
      BY <1>0, <1>2, <1>3, <1>4, <2>2, <3>1, <3>2, <3>3
  <2> QED
    BY <1>2, <2>1, <2>2
<1>6. /\ sweep'[h].version = head /\ sweep'[h].seen \subseteq {sidecar}
      /\ sweep'[h].rows = sweep[h].rows
      /\ sweep'[h].left = sweep[h].left \ {w}
  BY <1>0, <1>1, <1>2, <1>3
<1>7. \A v : Unswept(h, v) /\ v # w => Unswept(h, v)'
  BY <1>0, <1>6 DEF Unswept
<1>8. \A v : (TakesAway(h, v) => TakesAway(h, v)') /\ (Pending(h, v) => Pending(h, v)')
  BY <1>0 DEF TakesAway, Withdrawing, Pending
<1>9. Reader(h)'
  <2>1. ReadsNow(h)'
    <3>1. \A v \in sweep'[h].left : v \in WaiverId \ {w} /\ v \in sweep[h].left
      BY <1>0, <1>6 DEF Sweep
    <3> QED
      BY <1>0, <1>5, <1>6, <3>1 DEF TurnOf, Reader, ReadsNow
  <2>2. Previewed(h)'
    <3>1. ASSUME job[h].kind = "approve" PROVE job[h].waiver \in WaiverId \ {w}
      BY <1>2, <3>1 DEF TurnOf, Reader, Previewed, Always, Jobs, JobFits, Deciding
    <3> QED
      BY <1>0, <1>5, <3>1 DEF TurnOf, Reader, Previewed, IsLast
  <2> QED
    BY <1>0, <2>1, <2>2 DEF TurnOf, Reader, Withdrawing
<1>10. Told({h})'
  <2>1. \A v \in written : waivers[v].status \in Over => waivers'[v].status \in Over
    BY <1>5, TypesInTurn DEF Over, Always
  <2> QED
    BY <1>0, <1>8, <2>1 DEF TurnOf, Told
<1>11. CheckAgrees({h})'
  <2>1. ASSUME NEW v \in WaiverId \ Ack, v # w
        PROVE  /\ waivers'[v].status = "approved" /\ hash[v] = headText => Applies
               /\ waivers'[v].status = "approved" /\ hash[v] # headText => Unswept(h, v)'
               /\ waivers'[v].status = "invalidated" /\ hash[v] = headText /\ Applies => Unswept(h, v)'
    BY <1>5, <1>7, <2>1 DEF TurnOf, CheckAgrees
  <2>2. /\ waivers'[w].status = "approved" => Applies /\ hash[w] = headText
        /\ waivers'[w].status = "invalidated" => ~(hash[w] = headText /\ Applies)
    BY <1>2, <1>5 DEF TurnOf, CheckAgrees
  <2> QED
    BY <1>0, <2>1, <2>2 DEF CheckAgrees
<1>12. TraceAgrees({h})'
  BY <1>0, <1>2, <1>5, <1>8, AckAssumption DEF TurnOf, TraceAgrees
<1> QED
  BY <1>9, <1>10, <1>11, <1>12 DEF TurnOf

LEMMA SweepEndInTurn ==
    ASSUME Always, Jobs', NEW h \in Handler, TurnOf({h}), SweepEnd(h)
    PROVE  TurnOf({h})'
<1>0. /\ UNCHANGED stored /\ pc[h] = "decide" /\ sweep[h].left = {}
      /\ pc \in [Handler -> Steps] /\ sweep \in [Handler -> Sweep]
      /\ \A w : ~Unswept(h, w)
  BY TypesInTurn DEF Always, SweepEnd, Unswept
<1>1. CASE job[h].kind = "edit"
  <2>1. \A w : ~Pending(h, w) /\ ~TakesAway(h, w)
    BY <1>1 DEF Pending, TakesAway, Withdrawing, Deciding
  <2> QED
    BY <1>0, <1>1, <2>1, ReturnInTurn DEF SweepEnd
<1>2. CASE job[h].kind # "edit"
  <2>1. /\ job' = job /\ pc'[h] = IF job[h].kind = "withdraw" THEN "rows" ELSE "append"
        /\ UNCHANGED <<waivers, written>>
        /\ sidecar' = sidecar /\ headText' = headText
    BY <1>0, <1>2, SidecarStays DEF SweepEnd, GoTo, stored
  <2>2. Reader(h)'
    <3>1. job[h].kind = "approve" => job[h].waiver \in written
      BY <1>0 DEF Always, WrittenFirst, Deciding, Sweeping
    <3> QED
      BY <1>0, <2>1, <3>1 DEF TurnOf, Reader, ReadsNow, Previewed, IsLast, Withdrawing
  <2>3. \A w : Pending(h, w) => Pending(h, w)'
    BY <1>0, <2>1 DEF Pending, stored, Deciding
  <2>4. \A w : TakesAway(h, w) => TakesAway(h, w)'
    BY <2>1 DEF TakesAway, Withdrawing
  <2> QED
    BY <1>0, <2>2, <2>3, <2>4, NothingStored
<1> QED
  BY <1>1, <1>2

-----------------------------------------------------------------------------
(* The appends, in turn. *)

\* The decision after the write: final if and only if the entry was written.
LEMMA DecidedInTurn ==
    ASSUME Always, Jobs', NEW h \in Handler, TurnOf({h}),
           pc[h] = "append", job[h].kind \in Deciding,
           NEW x \in WaiverId, x = job[h].waiver,
           waivers[x].status \notin Over, Return(h),
           UNCHANGED <<mode, versions, file, hash, written>>,
           \A w \in WaiverId \ {x} : waivers'[w] = waivers[w],
           waivers'[x].status = IF x \in written THEN "approved" ELSE "requested"
    PROVE  TurnOf({h})'
<1>0. sidecar' = sidecar /\ headText' = headText /\ (Applies' <=> Applies)
  BY SidecarStays
<1>1. \A w : ~Unswept(h, w) /\ ~TakesAway(h, w) /\ (w # x => ~Pending(h, w))
  BY DEF Unswept, TakesAway, Withdrawing, Pending, Deciding
<1>2. x \in written => sidecar[KeyOf(x)] = x /\ (x \notin Ack => hash[x] = headText)
  BY DEF TurnOf, Told, Pending
<1>3. \A k \in Key : sidecar[k] = x => x \in written
  BY SidecarKnown, NoEntryAssumption DEF Known
<1>4. Reader(h)'
  BY Returned, QuietAfter DEF Always, Quiet, Busy
<1>5. Told({h})'
  BY <1>1, TypesInTurn DEF TurnOf, Told, Over, Always
<1>6. CheckAgrees({h})'
  <2>1. x \in written /\ x \notin Ack => Applies
    BY <1>2, NoEntryAssumption DEF KeyOf, Applies
  <2> QED
    BY <1>0, <1>1, <1>2, <2>1 DEF TurnOf, CheckAgrees
<1>7. TraceAgrees({h})'
  <2>1. x \in written /\ x \in Ack => sidecar["trace"] # NoEntry
    BY <1>2, NoEntryAssumption DEF KeyOf
  <2> QED
    BY <1>0, <1>1, <1>3, <2>1, AckAssumption DEF TurnOf, TraceAgrees, Key
<1> QED
  BY <1>4, <1>5, <1>6, <1>7 DEF TurnOf

LEMMA RequestInTurn ==
    ASSUME Always, Jobs', NEW h \in Handler, TurnOf({h}), RequestWaiver(h), pc[h] = "append"
    PROVE  TurnOf({h})'
<1> DEFINE x == job[h].waiver
           t == EvolveAll(waivers[x], DecideRequest(waivers[x], RequestOf(x, job[h].user)))
<1>1. /\ job[h].kind = "alone" /\ Return(h)
      /\ UNCHANGED <<mode, versions, file, hash, written>>
      /\ waivers' = [waivers EXCEPT ![x] = t]
  BY DEF RequestWaiver, Apply
<1>2. /\ x \in WaiverId /\ job[h].user \in User /\ Alone(x) /\ waivers[x].status = "none"
      /\ x \in written
  BY <1>1 DEF Always, Jobs, JobFits, Deciding, Asked, WrittenFirst, OneDecides
<1>3. waivers \in [WaiverId -> State] /\ waivers[x] \in State
  BY <1>2, TypesInTurn DEF Always
<1>4. t.status = "approved"
  <2> HIDE DEF t
  <2> QED
    BY <1>2, <1>3, RequestedOf DEF t
<1> HIDE DEF t
<1>5. waivers'[x].status = "approved" /\ \A w \in WaiverId \ {x} : waivers'[w] = waivers[w]
  BY <1>1, <1>2, <1>3, <1>4
<1> HIDE DEF x
<1> QED
  BY <1>1, <1>2, <1>5, DecidedInTurn DEF x, Over, Deciding

LEMMA ApproveInTurn ==
    ASSUME Always, Jobs', NEW h \in Handler, TurnOf({h}), ApproveWaiver(h)
    PROVE  TurnOf({h})'
<1> DEFINE x == job[h].waiver
           u == job[h].user
           t == EvolveAll(waivers[x], DecideApprove(waivers[x], AsNonAuthor(u)))
<1>1. /\ pc[h] = "append" /\ job[h].kind = "approve" /\ Return(h)
      /\ UNCHANGED <<mode, versions, file, hash, written>>
      /\ waivers' = [waivers EXCEPT ![x] = t]
  BY DEF ApproveWaiver, Apply
<1>2. /\ x \in WaiverId /\ u \in User
      /\ waivers[x].status = "requested" /\ ~HasApproved(waivers[x], u)
      /\ x \in written <=> IsLast(x)
  BY <1>1 DEF Always, Jobs, JobFits, Deciding, TurnOf, Reader, Previewed
<1>3. /\ waivers \in [WaiverId -> State] /\ waivers[x] \in State
      /\ waivers[x].policy = policy
  BY <1>2, TypesInTurn DEF Always, Streams
<1>4. t.status = IF IsLast(x) THEN "approved" ELSE "requested"
  <2> HIDE DEF t, x, u
  <2> QED
    BY <1>2, <1>3, ApprovedOf DEF t, IsLast
<1> HIDE DEF t
<1>5. /\ waivers'[x].status = IF x \in written THEN "approved" ELSE "requested"
      /\ \A w \in WaiverId \ {x} : waivers'[w] = waivers[w]
  BY <1>1, <1>2, <1>3, <1>4
<1> HIDE DEF x, u
<1> QED
  BY <1>1, <1>2, <1>5, DecidedInTurn DEF x, Over, Deciding

\* A waiver that still waits has no entry.
LEMMA RejectInTurn ==
    ASSUME Always, Jobs', NEW h \in Handler, TurnOf({h}), NEW x \in WaiverId, NEW u \in User, RejectWaiver(h, x, u)
    PROVE  TurnOf({h})'
<1> DEFINE t == EvolveAll(waivers[x], DecideReject(waivers[x], AsNonAuthor(u), "long"))
<1>0. /\ UNCHANGED <<mode, versions, file, hash, written, pc, job>>
      /\ waivers' = [waivers EXCEPT ![x] = t]
      /\ pc[h] = "idle"
      /\ DecideReject(waivers[x], AsNonAuthor(u), "long") # << >>
      /\ waivers \in [WaiverId -> State] /\ waivers[x] \in State
  BY TypesInTurn DEF RejectWaiver, Apply, Always
<1>1. waivers[x].status = "requested" /\ t.status = "rejected"
  <2> HIDE DEF t
  <2> QED
    BY <1>0, RejectedOf DEF t
<1> HIDE DEF t
<1>2. waivers'[x].status = "rejected" /\ \A w \in WaiverId \ {x} : waivers'[w] = waivers[w]
  BY <1>0, <1>1
<1>3. \A w : ~Pending(h, w) /\ ~Unswept(h, w) /\ ~TakesAway(h, w)
  BY <1>0, QuietLeavesNothing DEF Always, Quiet, Busy
<1>4. x \notin written /\ \A k \in Key : sidecar[k] # x
  <2>1. x \notin written
    BY <1>1, <1>3 DEF TurnOf, Told, Over
  <2> QED
    BY <2>1, SidecarKnown, NoEntryAssumption DEF Known
<1>5. sidecar' = sidecar /\ headText' = headText /\ (Applies' <=> Applies)
  BY <1>0, SidecarStays
<1>6. Reader(h)'
  BY <1>0, QuietAfter DEF Quiet, Busy
<1>7. Told({h})'
  BY <1>0, <1>2, <1>3, <1>4, TypesInTurn DEF TurnOf, Told, Always
<1>8. CheckAgrees({h})'
  BY <1>0, <1>2, <1>3, <1>5 DEF TurnOf, CheckAgrees
<1>9. TraceAgrees({h})'
  BY <1>0, <1>2, <1>3, <1>4, <1>5, AckAssumption DEF TurnOf, TraceAgrees, Key
<1> QED
  BY <1>6, <1>7, <1>8, <1>9 DEF TurnOf

-----------------------------------------------------------------------------
(* The streams of a withdrawal, in turn. *)

LEMMA WithdrawRowsInTurn ==
    ASSUME Always, Jobs', NEW h \in Handler, TurnOf({h}), WithdrawRows(h)
    PROVE  TurnOf({h})'
<1>0. /\ UNCHANGED stored /\ job' = job /\ sidecar' = sidecar
      /\ UNCHANGED <<waivers, written>>
      /\ pc \in [Handler -> Steps] /\ sweep \in [Handler -> Sweep]
      /\ pc[h] = "rows" /\ job[h].kind = "withdraw"
  BY SidecarStays, TypesInTurn DEF Always, WithdrawRows, stored, Jobs, JobFits
<1>1. pc'[h] = "withdraw" /\ sweep'[h].left = {w \in Ack : waivers[w].status = "approved"}
  BY <1>0 DEF WithdrawRows, GoTo, Sweep
<1>2. Reader(h)'
  BY <1>0, <1>1 DEF TurnOf, Reader, ReadsNow, Previewed, Withdrawing
<1>3. \A w : ~Pending(h, w) /\ ~Unswept(h, w)
  BY <1>0 DEF Pending, Unswept, Deciding
<1>4. \A w \in Ack : waivers[w].status = "approved" => TakesAway(h, w)'
  BY <1>0, <1>1 DEF TakesAway, Withdrawing
<1> QED
  BY <1>0, <1>2, <1>3, <1>4, NothingStored

LEMMA WithdrawOneInTurn ==
    ASSUME Always, Jobs', NEW h \in Handler, TurnOf({h}), WithdrawOne(h)
    PROVE  TurnOf({h})'
<1>0. /\ UNCHANGED <<mode, versions, file, hash, written>>
      /\ sidecar' = sidecar /\ headText' = headText /\ (Applies' <=> Applies)
      /\ waivers \in [WaiverId -> State] /\ sweep \in [Handler -> Sweep]
      /\ pc[h] = "withdraw" /\ job[h].kind = "withdraw" /\ job[h].user \in User
      /\ sidecar["trace"] = NoEntry
  BY SidecarStays, TypesInTurn DEF Always, WithdrawOne, Jobs, JobFits, TurnOf, Reader, Withdrawing
<1>1. PICK x \in sweep[h].left :
        /\ Apply(x, DecideWithdraw(waivers[x], job[h].user))
        /\ IF DecideWithdraw(waivers[x], job[h].user) = << >>
             THEN Return(h)
             ELSE /\ sweep' = [sweep EXCEPT ![h].left = @ \ {x}]
                  /\ UNCHANGED <<pc, job, base, dec>>
  BY DEF WithdrawOne
<1>2. /\ x \in Ack /\ x \in WaiverId
      /\ waivers[x].status = "approved" /\ waivers[x].scope = "trace"
  BY <1>0, AckAssumption DEF Always, Reads, ReadsFit, TurnOf, Reader, ReadsNow, Streams
<1> DEFINE events == DecideWithdraw(waivers[x], job[h].user)
           t == EvolveAll(waivers[x], events)
<1>3. waivers[x] \in State /\ waivers' = [waivers EXCEPT ![x] = t]
  BY <1>0, <1>1, <1>2 DEF Apply
<1>4. events # << >> /\ t.status = "withdrawn"
  <2> HIDE DEF events, t
  <2> QED
    BY <1>0, <1>2, <1>3, WithdrawnOf DEF events, t
<1>5. UNCHANGED <<pc, job>> /\ sweep' = [sweep EXCEPT ![h].left = @ \ {x}]
  BY <1>1, <1>4
<1> HIDE DEF events, t
<1>6. /\ waivers'[x].status = "withdrawn" /\ \A w \in WaiverId \ {x} : waivers'[w] = waivers[w]
      /\ sweep'[h].left = sweep[h].left \ {x}
  BY <1>0, <1>2, <1>3, <1>4, <1>5 DEF Sweep
<1>7. \A w : ~Pending(h, w) /\ ~Unswept(h, w) /\ (w # x /\ TakesAway(h, w) => TakesAway(h, w)')
  BY <1>0, <1>5, <1>6 DEF Pending, Unswept, TakesAway, Withdrawing, Deciding
<1>8. Reader(h)'
  <2>1. \A w \in sweep'[h].left : w \in WaiverId \ {x} /\ w \in sweep[h].left
    BY <1>0, <1>6 DEF Sweep
  <2> QED
    BY <1>0, <1>5, <1>6, <2>1 DEF TurnOf, Reader, ReadsNow, Previewed, Withdrawing
<1>9. Told({h})'
  BY <1>0, <1>6, <1>7, TypesInTurn DEF TurnOf, Told, Always, Over
<1>10. CheckAgrees({h})'
  BY <1>0, <1>2, <1>6, <1>7 DEF TurnOf, CheckAgrees
<1>11. TraceAgrees({h})'
  BY <1>0, <1>6, <1>7, AckAssumption, NoEntryAssumption DEF TurnOf, TraceAgrees
<1> QED
  BY <1>8, <1>9, <1>10, <1>11 DEF TurnOf

LEMMA WithdrawEndInTurn ==
    ASSUME Always, Jobs', NEW h \in Handler, TurnOf({h}), WithdrawEnd(h)
    PROVE  TurnOf({h})'
<1>1. pc[h] = "withdraw" /\ sweep[h].left = {} /\ Return(h) /\ UNCHANGED stored /\ job[h].kind = "withdraw"
  BY DEF WithdrawEnd, Always, Jobs, JobFits
<1>2. \A w : ~Pending(h, w) /\ ~Unswept(h, w) /\ ~TakesAway(h, w)
  BY <1>1 DEF Pending, Unswept, TakesAway, Deciding
<1> QED
  BY <1>1, <1>2, ReturnInTurn

-----------------------------------------------------------------------------
(* Every step in turn. *)

\* A request that others decide, from its start to its end, failed or not.
Asks(h) ==
    \/ \E w \in WaiverId, u \in User : Ask(h, w, u) /\ ~Alone(w)
    \/ (RequestWaiver(h) \/ Fail(h)) /\ pc[h] = "ask"

Works(h) ==
    \/ \E w \in WaiverId, u \in User : Ask(h, w, u) /\ Alone(w)
    \/ \E w \in WaiverId, u \in User : Approve(h, w, u) \/ RejectWaiver(h, w, u)
    \/ \E u \in User : Withdraw(h, u)
    \/ \E t \in Text : Edit(h, t)
    \/ RequestWaiver(h) /\ pc[h] = "append"
    \/ ApproveWaiver(h)
    \/ ReadDoc(h) \/ ReadDecisions(h) \/ ReadDecisionsRefused(h)
    \/ WriteFile(h) \/ WriteSidecar(h) \/ WriteSidecarRefused(h)
    \/ WithdrawRows(h) \/ WithdrawOne(h) \/ WithdrawEnd(h)
    \/ SweepDoc(h) \/ SweepList(h) \/ SweepOne(h) \/ SweepEnd(h)

\* In turn, a handler that works began, or is under way, with no other one under way.
LEMMA InTurnSteps ==
    ASSUME NEW h \in Handler, Acts(h), inTurn'
    PROVE  /\ inTurn
           /\ \/ Asks(h)
              \/ /\ Works(h)
                 /\ \/ \A g \in Handler : Quiet(g)
                    \/ Busy(h)
<1>1. CASE Fail(h)
  BY <1>1 DEF Fail, Asks
<1>2. CASE \E w \in WaiverId, u \in User : Ask(h, w, u)
  BY <1>2 DEF Ask, Begins, Asks, Works, Quiet, Busy
<1>3. CASE \E w \in WaiverId, u \in User : Approve(h, w, u) \/ RejectWaiver(h, w, u)
  BY <1>3 DEF Approve, RejectWaiver, Begins, Works, Quiet, Busy
<1>4. CASE \/ \E u \in User : Withdraw(h, u)
           \/ \E t \in Text : Edit(h, t)
  BY <1>4 DEF Withdraw, Edit, Begins, Works, Quiet, Busy
<1>5. CASE RequestWaiver(h)
  BY <1>5 DEF RequestWaiver, Asks, Works, Busy
<1>6. CASE ApproveWaiver(h) \/ ReadDoc(h) \/ ReadDecisions(h) \/ ReadDecisionsRefused(h)
  BY <1>6 DEF ApproveWaiver, ReadDoc, ReadDecisions, ReadDecisionsRefused, Works, Busy
<1>7. CASE WriteFile(h) \/ WriteSidecar(h) \/ WriteSidecarRefused(h)
  BY <1>7 DEF WriteFile, WriteSidecar, WriteSidecarRefused, Works, Busy
<1>8. CASE WithdrawRows(h) \/ WithdrawOne(h) \/ WithdrawEnd(h)
  BY <1>8 DEF WithdrawRows, WithdrawOne, WithdrawEnd, Works, Busy
<1>9. CASE SweepDoc(h) \/ SweepList(h) \/ SweepOne(h) \/ SweepEnd(h)
  BY <1>9 DEF SweepDoc, SweepList, SweepOne, SweepEnd, Works, Busy
<1> QED
  BY <1>1, <1>2, <1>3, <1>4, <1>5, <1>6, <1>7, <1>8, <1>9 DEF Acts, Decides, Reading, Ending, Storing

LEMMA WorksInTurn ==
    ASSUME Always, Jobs', NEW h \in Handler, TurnOf({h}), Works(h)
    PROVE  TurnOf({h})'
<1>1. CASE \E w \in WaiverId, u \in User : Ask(h, w, u) /\ Alone(w)
  BY <1>1, AskInTurn
<1>2. CASE \/ \E w \in WaiverId, u \in User : Approve(h, w, u)
           \/ \E u \in User : Withdraw(h, u)
           \/ ReadDoc(h) \/ ReadDecisions(h) \/ ReadDecisionsRefused(h) \/ WriteSidecarRefused(h)
  BY <1>2, ReadsInTurn
<1>3. CASE \E w \in WaiverId, u \in User : RejectWaiver(h, w, u)
  BY <1>3, RejectInTurn
<1>4. CASE \E t \in Text : Edit(h, t)
  BY <1>4, EditInTurn
<1>5. CASE RequestWaiver(h) /\ pc[h] = "append"
  BY <1>5, RequestInTurn
<1>6. CASE ApproveWaiver(h)
  BY <1>6, ApproveInTurn
<1>7. CASE WriteFile(h) \/ WriteSidecar(h)
  BY <1>7, WriteInTurn
<1>8. CASE WithdrawRows(h)
  BY <1>8, WithdrawRowsInTurn
<1>9. CASE WithdrawOne(h)
  BY <1>9, WithdrawOneInTurn
<1>10. CASE WithdrawEnd(h)
  BY <1>10, WithdrawEndInTurn
<1>11. CASE SweepDoc(h) \/ SweepList(h)
  BY <1>11, SweepReadsInTurn
<1>12. CASE SweepOne(h)
  BY <1>12, SweepOneInTurn
<1>13. CASE SweepEnd(h)
  BY <1>13, SweepEndInTurn
<1> QED
  BY <1>1, <1>2, <1>3, <1>4, <1>5, <1>6, <1>7, <1>8, <1>9, <1>10, <1>11, <1>12, <1>13 DEF Works

\* A request that others decide changes nothing that a handler goes by.
LEMMA AsksInTurn ==
    ASSUME Always, Always', Turn, NEW h \in Handler, Acts(h), Asks(h)
    PROVE  Turn'
<1>0. /\ UNCHANGED <<mode, versions, file, written>>
      /\ Quiet(h) /\ Quiet(h)'
      /\ pc \in [Handler -> Steps]
      /\ waivers \in [WaiverId -> State] /\ hash \in [WaiverId -> Text]
  <2>1. pc \in [Handler -> Steps] /\ waivers \in [WaiverId -> State] /\ hash \in [WaiverId -> Text]
    BY DEF Always, TypeOK
  <2>2. CASE \E w \in WaiverId, u \in User : Ask(h, w, u) /\ ~Alone(w)
    BY <2>1, <2>2 DEF Ask, GoTo, Quiet, Busy
  <2>3. CASE (RequestWaiver(h) \/ Fail(h)) /\ pc[h] = "ask"
    BY <2>1, <2>3 DEF RequestWaiver, Fail, stored, Return, GoTo, Quiet, Busy
  <2> QED
    BY <2>1, <2>2, <2>3 DEF Asks
<1>1. PICK x \in WaiverId :
        /\ waivers[x].status = "none" /\ waivers'[x].status \in {"none", "requested"}
        /\ x \notin written
        /\ \A g \in Handler \ {h} : job[g].waiver # x
        /\ \A w \in WaiverId \ {x} : waivers'[w] = waivers[w] /\ hash'[w] = hash[w]
  <2>1. ASSUME NEW x \in WaiverId, NEW u \in User, Ask(h, x, u)
        PROVE  /\ waivers[x].status = "none" /\ waivers' = waivers
               /\ x \notin written
               /\ \A g \in Handler \ {h} : job[g].waiver # x
               /\ \A w \in WaiverId \ {x} : hash'[w] = hash[w]
    BY <1>0, <2>1 DEF Ask
  <2>2. ASSUME (RequestWaiver(h) \/ Fail(h)) /\ pc[h] = "ask"
        PROVE  LET x == job[h].waiver
               IN  /\ x \in WaiverId /\ waivers[x].status = "none"
                   /\ x \notin written /\ hash' = hash
                   /\ \A g \in Handler \ {h} : job[g].waiver # x
                   /\ waivers'[x].status \in {"none", "requested"}
                   /\ \A w \in WaiverId \ {x} : waivers'[w] = waivers[w]
    <3> DEFINE x == job[h].waiver
               t == EvolveAll(waivers[x], DecideRequest(waivers[x], RequestOf(x, job[h].user)))
    <3>1. /\ job[h].kind = "ask" /\ x \in WaiverId /\ job[h].user \in User
          /\ ~Alone(x) /\ waivers[x].status = "none" /\ x \notin written
          /\ \A g \in Handler \ {h} : job[g].waiver # x
      BY <2>2 DEF Always, Jobs, JobFits, Deciding, Asked
    <3>2. hash' = hash /\ (waivers' = waivers \/ waivers' = [waivers EXCEPT ![x] = t])
      BY <2>2 DEF RequestWaiver, Fail, stored, Apply
    <3>3. t.status = "requested"
      <4>1. waivers[x] \in State
        BY <1>0, <3>1
      <4> HIDE DEF x, t
      <4> QED
        BY <3>1, <4>1, RequestedOf DEF t
    <3> HIDE DEF t
    <3> QED
      BY <1>0, <3>1, <3>2, <3>3
  <2> QED
    BY <2>1, <2>2 DEF Asks
<1>2. /\ sidecar' = sidecar /\ headText' = headText /\ head' = head
      /\ \A k \in Key : sidecar[k] \in WaiverId \cup {NoEntry} /\ sidecar[k] # x
  BY <1>0, <1>1, SidecarStays, SidecarKnown, TypesInTurn, NoEntryAssumption DEF Always, Known, Sidecar
<1>3. Applies' <=> Applies
  BY <1>1, <1>2 DEF Applies, Key
<1>4. \A g \in Handler \ {h} :
        /\ pc'[g] = pc[g] /\ job'[g] = job[g] /\ base'[g] = base[g]
        /\ dec'[g] = dec[g] /\ sweep'[g] = sweep[g]
  BY OthersStay DEF Always
<1>5. \A w : ~Pending(h, w) /\ ~Unswept(h, w) /\ ~TakesAway(h, w)
  BY <1>0, QuietLeavesNothing DEF Always
<1>6. \A g \in Handler \ {h} : \A w :
        /\ Unswept(g, w) => Unswept(g, w)'
        /\ TakesAway(g, w) => TakesAway(g, w)'
  BY <1>4 DEF Unswept, TakesAway, Withdrawing
<1>7. \A g \in Handler \ {h}, w \in WaiverId : Pending(g, w) => Pending(g, w)'
  BY <1>1, <1>2, <1>4 DEF Pending
<1>8. ASSUME NEW g \in Handler \ {h} PROVE Reader(g)'
  <2>1. Reader(g)
    BY DEF Turn, TurnOf
  <2>2. \A w \in sweep[g].left : w \in WaiverId
    BY TypesInTurn DEF Always, Sweep
  <2>3. ReadsNow(g)'
    BY <1>1, <1>2, <1>4, <2>1, <2>2 DEF Reader, ReadsNow
  <2>4. Previewed(g)'
    <3>1. job[g].kind = "approve" => job[g].waiver \in WaiverId \ {x}
      BY <1>1 DEF Always, Jobs, JobFits, Deciding
    <3> QED
      BY <1>0, <1>1, <1>4, <2>1, <3>1 DEF Reader, Previewed, IsLast
  <2> QED
    BY <1>2, <1>4, <2>1, <2>3, <2>4 DEF Reader, Withdrawing
<1>9. \A g \in Handler : Reader(g)'
  BY <1>0, <1>8, QuietAfter DEF Always
<1>10. Told(Handler)'
  BY <1>0, <1>1, <1>5, <1>7, TypesInTurn DEF Always, Turn, TurnOf, Told
<1>11. CheckAgrees(Handler)'
  BY <1>0, <1>1, <1>2, <1>3, <1>5, <1>6 DEF Turn, TurnOf, CheckAgrees
<1>12. TraceAgrees(Handler)'
  BY <1>0, <1>1, <1>2, <1>5, <1>6, <1>7, AckAssumption DEF Turn, TurnOf, TraceAgrees, Key
<1>13. \A f, g \in Handler : Busy(f)' /\ Busy(g)' => f = g
  BY <1>0, <1>4 DEF Turn, Quiet, Busy
<1> QED
  BY <1>9, <1>10, <1>11, <1>12, <1>13 DEF Turn, TurnOf

LEMMA TurnStep == IInv /\ Next /\ Always' /\ inTurn' => Turn'
<1> SUFFICES ASSUME IInv, Next, Always', inTurn' PROVE Turn'
  OBVIOUS
<1>1. PICK h \in Handler : Acts(h)
  BY StepKinds DEF Acts
<1>2. Always /\ Turn /\ Jobs /\ Jobs'
  BY <1>1, InTurnSteps DEF IInv, Always
<1>3. CASE Asks(h)
  BY <1>1, <1>2, <1>3, AsksInTurn
<1>4. CASE Works(h) /\ ((\A g \in Handler : Quiet(g)) \/ Busy(h))
  <2>1. \A g \in Handler \ {h} : Quiet(g)
    BY <1>2, <1>4 DEF Turn, Quiet
  <2>2. \A g \in Handler \ {h} : Quiet(g)'
    BY <1>1, <1>2, <2>1, OthersStay DEF Always, Quiet, Busy
  <2>3. TurnOf({h})
    BY <1>2, <2>1, TurnOfOne
  <2>4. TurnOf({h})'
    BY <1>2, <1>4, <2>3, WorksInTurn
  <2> QED
    BY <1>2, <2>2, <2>4, TurnOfAll
<1> QED
  BY <1>1, <1>3, <1>4, InTurnSteps

-----------------------------------------------------------------------------
(* The theorems. *)

LEMMA IInvInit == Init => IInv
<1> SUFFICES ASSUME Init PROVE Always /\ Turn
  BY DEF IInv
<1>1. Always
  BY AlwaysInit
<1>2. /\ \A h \in Handler : Quiet(h) /\ Reader(h)
      /\ \A w \in WaiverId : waivers[w].status = "none"
      /\ written = {}
  BY <1>1, QuietLeavesNothing DEF Init, Quiet, Busy, Always, NoWaiver
<1>3. sidecar["trace"] \notin Ack
  <2>1. Known(sidecar, {})
    BY <1>1, <1>2, SidecarKnown
  <2> QED
    BY <2>1, NoEntryAssumption, AckAssumption DEF Known, Key
<1>4. Told(Handler) /\ CheckAgrees(Handler) /\ TraceAgrees(Handler)
  BY <1>2, <1>3, AckAssumption DEF Told, CheckAgrees, TraceAgrees
<1> QED
  BY <1>1, <1>2, <1>4 DEF Turn, TurnOf, Quiet

LEMMA IInvStays == IInv /\ UNCHANGED vars => IInv'
<1> SUFFICES ASSUME IInv, UNCHANGED vars PROVE IInv'
  OBVIOUS
<1>0. UNCHANGED <<mode, versions, file, waivers, hash, pc, job, base, dec, sweep, written, overlap, inTurn>>
  BY DEF vars, stored
<1>1. TypeOK' /\ Jobs' /\ Asked'
  BY <1>0 DEF IInv, Always, TypeOK, head, Jobs, Asked, Alone
<1>2. Reads'
  BY <1>0 DEF IInv, Always, Reads, ReadsFit, head, local, Fits
<1>3. Entries' /\ WrittenFirst' /\ Streams'
  BY <1>0 DEF IInv, Always, Entries, Known, head, WrittenFirst, OneDecides, Alone, Streams
<1>4. NoLostUpdate' /\ EntryFitsItsText' /\ ApprovedWasWritten' /\ Overtaken'
  BY <1>0 DEF IInv, Always, NoLostUpdate, EntryFitsItsText, head, ApprovedWasWritten, Overtaken, OvertakenOf, IsLast
<1>5. (\A h \in Handler : (Reader(h)' <=> Reader(h)) /\ (Busy(h)' <=> Busy(h)))
  BY <1>0 DEF Reader, ReadsNow, Previewed, Withdrawing, sidecar, Decisions, local, head, IsLast, Busy
<1>6. /\ Told(Handler)' <=> Told(Handler)
      /\ CheckAgrees(Handler)' <=> CheckAgrees(Handler)
      /\ TraceAgrees(Handler)' <=> TraceAgrees(Handler)
  <2>1. sidecar' = sidecar /\ headText' = headText /\ (Applies' <=> Applies)
    BY <1>0, SidecarStays
  <2>2. \A h, w : /\ Pending(h, w)' <=> Pending(h, w)
                  /\ Unswept(h, w)' <=> Unswept(h, w)
                  /\ TakesAway(h, w)' <=> TakesAway(h, w)
    BY <1>0, <2>1 DEF Pending, Unswept, TakesAway, Withdrawing
  <2> QED
    BY <1>0, <2>1, <2>2 DEF Told, CheckAgrees, TraceAgrees
<1>7. Turn' <=> Turn
  BY <1>5, <1>6 DEF Turn, TurnOf
<1> QED
  BY <1>0, <1>1, <1>2, <1>3, <1>4, <1>7 DEF IInv, Always

LEMMA IInvAlways == Spec => []IInv
<1>1. IInv /\ [Next]_vars => IInv'
  BY IInvStays, AlwaysStep, TurnStep DEF IInv
<1> QED
  BY IInvInit, <1>1, PTL DEF Spec

\* With no handler under way, nothing is left to append, to sweep or to withdraw.
LEMMA AgreesAtRest == IInv => SidecarAgreesInTurn
<1> SUFFICES ASSUME IInv, AtRest, inTurn
             PROVE  /\ entryApplies <=> \E w \in WaiverId \ Ack : waivers[w].status = "approved"
                    /\ sidecar["trace"] # NoEntry <=> \E w \in Ack : waivers[w].status = "approved"
  BY DEF SidecarAgreesInTurn
<1>1. \A h \in Handler : \A w : ~Pending(h, w) /\ ~Unswept(h, w) /\ ~TakesAway(h, w)
  BY QuietLeavesNothing DEF IInv, Always, AtRest, Quiet, Busy
<1>2. Always /\ Told(Handler) /\ CheckAgrees(Handler) /\ TraceAgrees(Handler)
  BY DEF IInv, Turn, TurnOf
<1>3. entryApplies <=> Applies
  BY DEF entryApplies, Applies, headText
\* The entry is of a waiver that was decided, and is not an acknowledgement.
<1>4. \A k \in Key : sidecar[k] # NoEntry =>
         /\ sidecar[k] \in WaiverId /\ KeyOf(sidecar[k]) = k
         /\ waivers[sidecar[k]].status \in Over
  BY <1>1, <1>2, SidecarKnown, TypesInTurn DEF Known, Told, Always
<1>5. ASSUME Applies PROVE \E w \in WaiverId \ Ack : waivers[w].status = "approved"
  <2> DEFINE w == sidecar["check"]
  <2>1. w \in WaiverId \ Ack /\ hash[w] = headText /\ waivers[w].status \in Over
    BY <1>4, <1>5 DEF Applies, Key, KeyOf
  <2>2. waivers[w].status \in {"approved", "invalidated"}
    BY <1>2, <2>1 DEF Always, Streams, Over
  <2>3. waivers[w].status # "invalidated"
    BY <1>1, <1>2, <1>5, <2>1 DEF CheckAgrees
  <2> QED
    BY <2>1, <2>2, <2>3
<1>6. ASSUME NEW w \in WaiverId \ Ack, waivers[w].status = "approved" PROVE Applies
  BY <1>1, <1>2, <1>6 DEF CheckAgrees
<1>7. ASSUME sidecar["trace"] # NoEntry PROVE \E w \in Ack : waivers[w].status = "approved"
  <2>1. sidecar["trace"] \in Ack
    BY <1>4, <1>7 DEF Key, KeyOf
  <2> QED
    BY <1>1, <1>2, <2>1 DEF TraceAgrees
<1>8. ASSUME NEW w \in Ack, waivers[w].status = "approved" PROVE sidecar["trace"] # NoEntry
  BY <1>1, <1>2, <1>8 DEF TraceAgrees
<1> QED
  BY <1>3, <1>5, <1>6, <1>7, <1>8

\* Every variable keeps its type: a handler is at a step that its job has, and what it
\* read is a sidecar of the doc.
THEOREM TypeCorrect == Spec => []TypeOK
<1>1. IInv => TypeOK
  BY DEF IInv, Always
<1> QED
  BY IInvAlways, <1>1, PTL

\* A new version of a db or GitHub bundle never undoes an edit or another write of the
\* sidecar (SetDecisions is a change of the version that the handler read).
THEOREM SavesAreKept == Spec => []NoLostUpdate
<1>1. IInv => NoLostUpdate
  BY DEF IInv, Always
<1> QED
  BY IInvAlways, <1>1, PTL

\* A new entry of the sidecar fits the section's text in that version (REQ-074).
THEOREM EntriesFit == Spec => []EntryFitsItsText
<1>1. IInv => EntryFitsItsText
  BY DEF IInv, Always
<1> QED
  BY IInvAlways, <1>1, PTL

\* What one person's decision approves was in a sidecar before the stream says so
\* (DEC-009), however many approvals the check's policy asks of the others.
THEOREM OneDecisionIsWrittenFirst ==
    Spec => [](\A w \in WaiverId : OneDecides(w) /\ waivers[w].status \in Over => w \in written)
<1>1. IInv => \A w \in WaiverId : OneDecides(w) /\ waivers[w].status \in Over => w \in written
  BY DEF IInv, Always, WrittenFirst
<1> QED
  BY IInvAlways, <1>1, PTL

\* However many approvals the policy asks for, and whatever fails, no waiver is
\* approved before its entry is written: but for one whose last approval was
\* overtaken by another between its preview and its append.
THEOREM ApprovalsAreWrittenFirst == Spec => []ApprovedWasWritten
<1>1. IInv => ApprovedWasWritten
  BY DEF IInv, Always
<1> QED
  BY IInvAlways, <1>1, PTL

\* As long as those who write came one after another and none stopped part way, the
\* streams and the sidecar say the same when nobody is under way (Invalidate).
THEOREM SidecarAgrees == Spec => []SidecarAgreesInTurn
BY IInvAlways, AgreesAtRest, PTL
=============================================================================
