---------------------------- MODULE WaiverSidecar ----------------------------
(***************************************************************************)
(* The waiver handlers of internal/features/waiver/api.go around the       *)
(* sidecar of one doc: requests for one check in one section, approvals,   *)
(* rejections, acknowledgements of one trace ID and their withdrawal,      *)
(* edits of the section, and the sweep (Invalidate) that follows each      *)
(* change.                                                                 *)
(*                                                                         *)
(* A handler reads the stream, the doc and the sidecar, writes the         *)
(* sidecar, runs the sweep, and appends to the stream.  Another handler    *)
(* may run between any two of these.  The append is one step (EventStore   *)
(* implements AtomicStream).                                               *)
(*                                                                         *)
(* Of a db or GitHub bundle the sidecar is a file of each version, and a   *)
(* write makes a version based on the one that was read.  Of a local       *)
(* bundle it is a file of the folder, which a write replaces, with no      *)
(* version.  The one person of local mode, which has both kinds, decides   *)
(* each waiver alone.                                                      *)
(*                                                                         *)
(* The sidecar has at most one entry for the check and the section, and    *)
(* one for the trace ID; the section's hash is its text.                   *)
(***************************************************************************)
EXTENDS Waiver, FiniteSets

CONSTANTS
    Handler,        \* the requests that the server handles at one time
    WaiverId,       \* the waivers that people ask for
    Ack,            \* those that acknowledge the trace ID; the others excuse the check
    Text,           \* the texts of the section
    FirstText,
    NeededApprovals,\* the N of the check's n_approvals policy
    NoEntry,
    MayFail,        \* whether a handler may fail or stop part way
    MaxVersions,    \* bound on the versions of the doc
    MaxLocal,       \* the same bound for a local bundle, whose versions hold no sidecar
    MaxVoted        \* bound on the requests that wait for others to decide

ASSUME TextAssumption == FirstText \in Text
ASSUME AckAssumption == Ack \subseteq WaiverId
ASSUME NoEntryAssumption == NoEntry \notin WaiverId
ASSUME NeededAssumption == NeededApprovals \in 1 .. MaxNeeded
ASSUME MayFailAssumption == MayFail \in BOOLEAN
ASSUME MaxVersionsAssumption == MaxVersions \in Nat \ {0} /\ MaxLocal \in 1 .. MaxVersions
ASSUME MaxVotedAssumption == MaxVoted \in Nat

VARIABLES
    mode,       \* hosted, or local mode with a GitHub bundle or a local one
    versions,   \* the doc's versions: the section's text, and the sidecar
    file,       \* the sidecar in the folder of a local bundle
    waivers,    \* the streams
    hash,       \* the text of the section that each waiver was asked for
    pc,         \* where each handler is
    job,        \* what each handler works on: the waiver, the person
    base,       \* the version each handler read
    dec,        \* the sidecar each handler read
    sweep,      \* the sweep of each handler: its version, its rows, what is left
    written,    \* history: the waivers whose entry some version has held
    overlap,    \* history: approvals that another one has overtaken, and what they closed
    inTurn      \* history: no handler failed, and each began with no other under way

stored == <<mode, versions, file, waivers, hash, written, overlap>>
vars == <<stored, pc, job, base, dec, sweep, inTurn>>

Modes == {"hosted", "github", "local"}

local == mode = "local"

Steps == {"idle", "ask", "read", "decisions", "write", "sweep", "list", "decide",
          "append", "rows", "withdraw"}

head == Len(versions)

policy == [name |-> "n_approvals", n |-> NeededApprovals]

NoJob == [kind |-> "none", waiver |-> NoEntry, user |-> NoUser]

NoSweep == [version |-> 0, rows |-> [w \in WaiverId |-> "none"], left |-> {}, seen |-> {}]

\* What two entries of one key replace: WithWaiver, WithTraceAck.
Key == {"check", "trace"}

KeyOf(w) == IF w \in Ack THEN "trace" ELSE "check"

Sidecar == [Key -> WaiverId \cup {NoEntry}]

NoEntries == [k \in Key |-> NoEntry]

\* Decisions: the sidecar of version v, or the file of the folder as it now is.
Decisions(v) == IF local THEN file ELSE versions[v].sidecar

Init ==
    /\ mode \in Modes
    /\ versions = <<[text |-> FirstText, sidecar |-> NoEntries]>>
    /\ file = NoEntries
    /\ waivers = [w \in WaiverId |-> NoWaiver]
    /\ hash = [w \in WaiverId |-> FirstText]
    /\ pc = [h \in Handler |-> "idle"]
    /\ job = [h \in Handler |-> NoJob]
    /\ base = [h \in Handler |-> 1]
    /\ dec = [h \in Handler |-> NoEntries]
    /\ sweep = [h \in Handler |-> NoSweep]
    /\ written = {}
    /\ overlap = [handlers |-> {}, waivers |-> {}]
    /\ inTurn = TRUE

GoTo(h, step) == pc' = [pc EXCEPT ![h] = step]

Return(h) ==
    /\ GoTo(h, "idle")
    /\ job' = [job EXCEPT ![h] = NoJob]
    /\ base' = [base EXCEPT ![h] = 1]
    /\ dec' = [dec EXCEPT ![h] = NoEntries]
    /\ sweep' = [sweep EXCEPT ![h] = NoSweep]

\* A handler begins.  One that only asks changes nothing that others read.
Begins == inTurn' = (inTurn /\ \A h \in Handler : pc[h] \in {"idle", "ask"})

Apply(w, events) == waivers' = [waivers EXCEPT ![w] = EvolveAll(@, events)]

AsNonAuthor(u) == [user |-> u, author |-> FALSE, maintainer |-> FALSE, admin |-> FALSE]

-----------------------------------------------------------------------------
(* RequestWaiver: a new ID, and the hash of the version the handler read. *)

Alone(w) == mode # "hosted" \/ w \in Ack

RequestOf(w, u) == [scope |-> IF w \in Ack THEN "trace" ELSE "check", policy |-> policy,
                    by |-> u, alone |-> Alone(w), reason |-> "long", fork |-> FALSE]

\* Local mode has one person.
MayAct(u) ==
    mode = "hosted" \/ \A v \in User \ {u} : \A h \in Handler, w \in WaiverId :
                           job[h].user # v /\ waivers[w].requestedBy # v

Voted == {w \in WaiverId : ~Alone(w) /\ (waivers[w].status # "none" \/ \E h \in Handler : job[h].waiver = w)}

\* A request decided alone writes the sidecar first, as an approval does.
Ask(h, w, u) ==
    /\ pc[h] = "idle"
    /\ waivers[w].status = "none" /\ w \notin written
    /\ \A g \in Handler : job[g].waiver # w
    /\ MayAct(u)
    /\ Alone(w) \/ Cardinality(Voted) < MaxVoted
    /\ base' = [base EXCEPT ![h] = head]
    /\ hash' = [hash EXCEPT ![w] = versions[head].text]
    /\ IF Alone(w)
         THEN /\ Begins
              /\ job' = [job EXCEPT ![h] = [kind |-> "alone", waiver |-> w, user |-> u]]
              /\ GoTo(h, "decisions")
         ELSE /\ UNCHANGED inTurn
              /\ job' = [job EXCEPT ![h] = [kind |-> "ask", waiver |-> w, user |-> u]]
              /\ GoTo(h, "ask")
    /\ UNCHANGED <<mode, versions, file, waivers, written, overlap, dec, sweep>>

RequestWaiver(h) ==
    /\ \/ pc[h] = "ask"
       \/ pc[h] = "append" /\ job[h].kind = "alone"
    /\ LET w == job[h].waiver
       IN  Apply(w, DecideRequest(waivers[w], RequestOf(w, job[h].user)))
    /\ Return(h)
    /\ UNCHANGED <<mode, versions, file, hash, written, overlap, inTurn>>

-----------------------------------------------------------------------------
(* ApproveWaiver and RejectWaiver. *)

\* Mutant: no approval writes the sidecar.
ApproveWithoutSidecar(h, w, u) ==
    /\ pc[h] = "idle"
    /\ DecideApprove(waivers[w], AsNonAuthor(u)) # << >>
    /\ GoTo(h, "append")
    /\ job' = [job EXCEPT ![h] = [kind |-> "approve", waiver |-> w, user |-> u]]
    /\ Begins
    /\ UNCHANGED <<stored, base, dec, sweep>>

\* load, then the preview: the events DecideApprove would give for this state.
\* Only an approval that looks final writes the sidecar.
Approve(h, w, u) ==
    /\ pc[h] = "idle"
    /\ LET preview == DecideApprove(waivers[w], AsNonAuthor(u))
       IN  /\ preview # << >>
           /\ GoTo(h, IF EvolveAll(waivers[w], preview).status = "approved"
                        THEN "read" ELSE "append")
    /\ job' = [job EXCEPT ![h] = [kind |-> "approve", waiver |-> w, user |-> u]]
    /\ Begins
    /\ UNCHANGED <<stored, base, dec, sweep>>

ReadDoc(h) ==
    /\ pc[h] = "read"
    /\ base' = [base EXCEPT ![h] = head]
    /\ GoTo(h, "decisions")
    /\ UNCHANGED <<stored, job, dec, sweep, inTurn>>

\* The waiver still holds in the version that was read; an acknowledgement of a
\* trace ID is about no section.
Fits(h) ==
    LET w == job[h].waiver
    IN  w \in Ack \/ versions[base[h]].text = hash[w]

\* Mutant: the waiver is not checked against the section's text.
ReadDecisionsAnyText(h) ==
    /\ pc[h] = "decisions"
    /\ dec' = [dec EXCEPT ![h] = Decisions(base[h])]
    /\ GoTo(h, "write")
    /\ UNCHANGED <<stored, job, base, sweep, inTurn>>

\* The handler reads the sidecar, and writes it from what it read.
ReadDecisions(h) ==
    /\ pc[h] = "decisions"
    /\ Fits(h)
    /\ dec' = [dec EXCEPT ![h] = Decisions(base[h])]
    /\ GoTo(h, "write")
    /\ UNCHANGED <<stored, job, base, sweep, inTurn>>

\* section_changed: the handler fails, with no event.
ReadDecisionsRefused(h) ==
    /\ pc[h] = "decisions"
    /\ ~Fits(h)
    /\ Return(h)
    /\ UNCHANGED <<stored, inTurn>>

\* WithoutTraceAck, WithWaiver, WithTraceAck.
Content(h) ==
    IF job[h].kind = "withdraw"
      THEN [dec[h] EXCEPT !["trace"] = NoEntry]
      ELSE [dec[h] EXCEPT ![KeyOf(job[h].waiver)] = job[h].waiver]

Wrote(h) == written' = written \cup ({job[h].waiver} \ {NoEntry})

\* SetDecisions of a local bundle: the file is replaced, whoever wrote it since.
WriteFile(h) ==
    /\ pc[h] = "write"
    /\ local
    /\ file' = Content(h)
    /\ Wrote(h)
    /\ GoTo(h, "sweep")
    /\ UNCHANGED <<mode, versions, waivers, hash, overlap, job, base, dec, sweep, inTurn>>

\* Mutant: the change is not checked against the head.
WriteSidecarUnchecked(h) ==
    /\ pc[h] = "write"
    /\ ~local
    /\ head < MaxVersions
    /\ versions' = Append(versions, [versions[base[h]] EXCEPT !.sidecar = Content(h)])
    /\ Wrote(h)
    /\ GoTo(h, "sweep")
    /\ UNCHANGED <<mode, file, waivers, hash, overlap, job, base, dec, sweep, inTurn>>

\* SetDecisions of another bundle: a change based on the version that was read.  A
\* sidecar that does not change makes no version, and then no sweep.
WriteSidecar(h) ==
    /\ pc[h] = "write"
    /\ ~local
    /\ base[h] = head
    /\ Wrote(h)
    /\ \/ /\ Content(h) = dec[h]
          /\ GoTo(h, "append")
          /\ UNCHANGED versions
       \/ /\ Content(h) # dec[h]
          /\ head < MaxVersions
          /\ versions' = Append(versions, [versions[head] EXCEPT !.sidecar = Content(h)])
          /\ GoTo(h, "sweep")
    /\ UNCHANGED <<mode, file, waivers, hash, overlap, job, base, dec, sweep, inTurn>>

\* The version conflict: the handler fails, with no event.
WriteSidecarRefused(h) ==
    /\ pc[h] = "write"
    /\ ~local
    /\ base[h] # head
    /\ Return(h)
    /\ UNCHANGED <<stored, inTurn>>

\* The other approvals of w whose preview is over, and that have yet to append.
Approving(h, w) ==
    {g \in Handler \ {h} : pc[g] = "append" /\ job[g].kind = "approve" /\ job[g].waiver = w}

\* es.Run decides again on the stream as it now is.  This overtakes the approvals
\* that were previewed before; the last one may be one that was overtaken.
ApproveWaiver(h) ==
    /\ pc[h] = "append" /\ job[h].kind = "approve"
    /\ LET w == job[h].waiver
           events == DecideApprove(waivers[w], AsNonAuthor(job[h].user))
           last == h \in overlap.handlers /\ EvolveAll(waivers[w], events).status = "approved"
       IN  /\ Apply(w, events)
           /\ overlap' = [handlers |-> (overlap.handlers \ {h}) \cup {g \in Approving(h, w) : events # << >>},
                          waivers |-> overlap.waivers \cup {x \in {w} : last}]
    /\ Return(h)
    /\ UNCHANGED <<mode, versions, file, hash, written, inTurn>>

\* The handler uses nothing it read before es.Run, so it is one step.
RejectWaiver(h, w, u) ==
    /\ pc[h] = "idle"
    /\ DecideReject(waivers[w], AsNonAuthor(u), "long") # << >>
    /\ Apply(w, DecideReject(waivers[w], AsNonAuthor(u), "long"))
    /\ Begins
    /\ UNCHANGED <<mode, versions, file, hash, written, overlap, pc, job, base, dec, sweep>>

-----------------------------------------------------------------------------
(* WithdrawAcknowledgement: no approval, the sidecar first, then the streams of *)
(* the acknowledgements of this trace ID that are approved.                     *)

Withdraw(h, u) ==
    /\ pc[h] = "idle"
    /\ MayAct(u)
    /\ Decisions(head)["trace"] # NoEntry
    /\ base' = [base EXCEPT ![h] = head]
    /\ dec' = [dec EXCEPT ![h] = Decisions(head)]
    /\ job' = [job EXCEPT ![h] = [kind |-> "withdraw", waiver |-> NoEntry, user |-> u]]
    /\ GoTo(h, "write")
    /\ Begins
    /\ UNCHANGED <<stored, sweep>>

WithdrawRows(h) ==
    /\ pc[h] = "rows"
    /\ sweep' = [sweep EXCEPT ![h].left = {w \in Ack : waivers[w].status = "approved"}]
    /\ GoTo(h, "withdraw")
    /\ UNCHANGED <<stored, job, base, dec, inTurn>>

\* The first one that the stream refuses ends the handler.
WithdrawOne(h) ==
    /\ pc[h] = "withdraw"
    /\ \E w \in sweep[h].left :
        /\ Apply(w, DecideWithdraw(waivers[w], job[h].user))
        /\ IF DecideWithdraw(waivers[w], job[h].user) = << >>
             THEN Return(h)
             ELSE /\ sweep' = [sweep EXCEPT ![h].left = @ \ {w}]
                  /\ UNCHANGED <<pc, job, base, dec>>
    /\ UNCHANGED <<mode, versions, file, hash, written, overlap, inTurn>>

WithdrawEnd(h) ==
    /\ pc[h] = "withdraw"
    /\ sweep[h].left = {}
    /\ Return(h)
    /\ UNCHANGED <<stored, inTurn>>

-----------------------------------------------------------------------------
(* An edit of the section, and the sweep after each new version. *)

\* The save of an editor: based on the head, or refused with no effect.
Edit(h, t) ==
    /\ pc[h] = "idle"
    /\ head < (IF local THEN MaxLocal ELSE MaxVersions)
    /\ t # versions[head].text
    /\ versions' = Append(versions, [versions[head] EXCEPT !.text = t])
    /\ job' = [job EXCEPT ![h] = [NoJob EXCEPT !.kind = "edit"]]
    /\ GoTo(h, "sweep")
    /\ Begins
    /\ UNCHANGED <<mode, file, waivers, hash, written, overlap, base, dec, sweep>>

\* Invalidate gets the doc row, which names the version it reads.
SweepDoc(h) ==
    /\ pc[h] = "sweep"
    /\ sweep' = [sweep EXCEPT ![h].version = head]
    /\ GoTo(h, "list")
    /\ UNCHANGED <<stored, job, base, dec, inTurn>>

SweepList(h) ==
    /\ pc[h] = "list"
    /\ LET status == [w \in WaiverId |-> waivers[w].status]
       IN  sweep' = [sweep EXCEPT
                       ![h].rows = status,
                       ![h].left = {w \in WaiverId \ Ack :
                                      status[w] \in {"approved", "invalidated"}}]
    /\ GoTo(h, "decide")
    /\ UNCHANGED <<stored, job, base, dec, inTurn>>

\* holds in the version of the sweep.
Holds(h, w) == versions[sweep[h].version].text = hash[w]

\* The sidecar that the sweep read once, or reads now.
SweepDecisions(h) ==
    IF sweep[h].seen = {} THEN {Decisions(sweep[h].version)} ELSE sweep[h].seen

\* The sweep looks in the sidecar for an entry of this hash, whoever asked.
InSidecar(h, w) ==
    \E d \in SweepDecisions(h) : d["check"] # NoEntry /\ hash[d["check"]] = hash[w]

\* Mutant: the sweep never brings a waiver back.
SweepOneNoRestore(h) ==
    /\ pc[h] = "decide"
    /\ \E w \in sweep[h].left :
        /\ Apply(w, DecideInvalidate(waivers[w], Holds(h, w), "section_changed"))
        /\ sweep' = [sweep EXCEPT ![h].left = @ \ {w}]
    /\ UNCHANGED <<mode, versions, file, hash, written, overlap, pc, job, base, dec, inTurn>>

\* The row decides which question is asked, the stream as it now is answers.
SweepOne(h) ==
    /\ pc[h] = "decide"
    /\ \E w \in sweep[h].left :
        IF sweep[h].rows[w] = "approved"
          THEN /\ Apply(w, DecideInvalidate(waivers[w], Holds(h, w), "section_changed"))
               /\ sweep' = [sweep EXCEPT ![h].left = @ \ {w}]
          ELSE /\ Apply(w, DecideRestore(waivers[w], Holds(h, w), InSidecar(h, w)))
               /\ sweep' = [sweep EXCEPT
                               ![h].left = @ \ {w},
                               ![h].seen = IF Holds(h, w) THEN SweepDecisions(h) ELSE @]
    /\ UNCHANGED <<mode, versions, file, hash, written, overlap, pc, job, base, dec, inTurn>>

SweepEnd(h) ==
    /\ pc[h] = "decide"
    /\ sweep[h].left = {}
    /\ IF job[h].kind = "edit"
         THEN Return(h)
         ELSE /\ GoTo(h, IF job[h].kind = "withdraw" THEN "rows" ELSE "append")
              /\ sweep' = [sweep EXCEPT ![h] = NoSweep]
              /\ UNCHANGED <<job, base, dec>>
    /\ UNCHANGED <<stored, inTurn>>

\* An error of the database, of lint on save, of an append that lost three
\* times, or the end of the process: what is stored stays, the rest is gone.
Fail(h) ==
    /\ MayFail
    /\ pc[h] # "idle"
    /\ Return(h)
    /\ inTurn' = (inTurn /\ pc[h] = "ask")
    /\ overlap' = [overlap EXCEPT !.handlers = @ \ {h}]
    /\ UNCHANGED <<mode, versions, file, waivers, hash, written>>

Next ==
    \E h \in Handler :
        \/ \E w \in WaiverId, u \in User : Ask(h, w, u) \/ Approve(h, w, u) \/ RejectWaiver(h, w, u)
        \/ \E u \in User : Withdraw(h, u)
        \/ \E t \in Text : Edit(h, t)
        \/ RequestWaiver(h) \/ ApproveWaiver(h)
        \/ ReadDoc(h) \/ ReadDecisions(h) \/ ReadDecisionsRefused(h)
        \/ WriteFile(h) \/ WriteSidecar(h) \/ WriteSidecarRefused(h)
        \/ WithdrawRows(h) \/ WithdrawOne(h) \/ WithdrawEnd(h)
        \/ SweepDoc(h) \/ SweepList(h) \/ SweepOne(h) \/ SweepEnd(h)
        \/ Fail(h)

Spec == Init /\ [][Next]_vars

-----------------------------------------------------------------------------
(* Properties. *)

TypeOK ==
    /\ mode \in Modes
    /\ versions \in Seq([text : Text, sidecar : Sidecar])
    /\ head \in 1 .. MaxVersions
    /\ file \in Sidecar
    /\ waivers \in [WaiverId -> State]
    /\ hash \in [WaiverId -> Text]
    /\ pc \in [Handler -> Steps]
    /\ job \in [Handler -> [kind : {"none", "ask", "alone", "approve", "edit", "withdraw"},
                            waiver : WaiverId \cup {NoEntry}, user : User \cup {NoUser}]]
    /\ base \in [Handler -> 1 .. MaxVersions]
    /\ dec \in [Handler -> Sidecar]
    /\ sweep \in [Handler -> [version : 0 .. MaxVersions, rows : [WaiverId -> Statuses],
                              left : SUBSET WaiverId, seen : SUBSET Sidecar]]
    /\ written \subseteq WaiverId
    /\ overlap \in [handlers : SUBSET Handler, waivers : SUBSET WaiverId]
    /\ inTurn \in BOOLEAN

\* Edits of the doc and writes of its sidecar never undo each other, of a db or
\* GitHub bundle: a version differs from the one before it in the text or in one
\* entry, and in nothing else.
NoLostUpdate ==
    \A v \in 2 .. head :
        LET old == versions[v - 1]
            new == versions[v]
        IN  \/ old.sidecar = new.sidecar
            \/ old.text = new.text /\ \E k \in Key : old.sidecar[k] = new.sidecar[k]

\* No entry of a db or GitHub bundle is written for a text that nobody asked the
\* waiver for, however long the approval took and whatever was edited meanwhile
\* (REQ-074).
EntryFitsItsText ==
    \A v \in 2 .. head :
        LET entry == versions[v].sidecar["check"]
        IN  entry \notin {NoEntry, versions[v - 1].sidecar["check"]} =>
                hash[entry] = versions[v].text

\* "A final approval first writes the waiver to the doc's sidecar, then records
\* WaiverApproved" (ApproveWaiver, DEC-009), and so does what is decided alone,
\* whatever fails and is tried again.  Not so when the policy asks for several: an
\* approval that saw one missing writes no entry, and another one may make it the
\* last between its preview and its append.  Nothing else leaves an entry out.
ApprovedWasWritten ==
    \A w \in WaiverId :
        waivers[w].status \in {"approved", "invalidated", "withdrawn"} => w \in written \cup overlap.waivers

AtRest == \A h \in Handler : pc[h] = "idle"

sidecar == Decisions(head)

entryApplies == sidecar["check"] # NoEntry /\ hash[sidecar["check"]] = versions[head].text

\* When no handler is under way, the waivers' status and the sidecar agree, as
\* long as the handlers that write came one after another and none stopped part
\* way: "The sidecar is the truth (DEC-009): its entry applies whenever its hash
\* matches, so the status follows it, and a reader of the sidecar alone (CI)
\* agrees with the app" (Invalidate); and an acknowledgement is approved as long
\* as the sidecar holds one.  In local mode this is all there is: two writes of
\* the file that overlap lose one.
SidecarAgreesInTurn ==
    AtRest /\ inTurn =>
        /\ entryApplies <=> \E w \in WaiverId \ Ack : waivers[w].status = "approved"
        /\ sidecar["trace"] # NoEntry <=> \E w \in Ack : waivers[w].status = "approved"
=============================================================================
