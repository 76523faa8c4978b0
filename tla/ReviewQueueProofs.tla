-------------------------- MODULE ReviewQueueProofs --------------------------
(***************************************************************************)
(* Proofs about ReviewQueue for any clients, docs, runs, errors and stops: *)
(* the types, that the queue implements ReviewLifecycle, and the thread of *)
(* a verification.                                                         *)
(*                                                                         *)
(* The client that holds startMu has seen that its doc has no active       *)
(* review, and nobody else can queue one (Starts).  The worker's step      *)
(* tells the kind and the status of the run that it claimed (Works).  A    *)
(* run that is active and whose outcomes are stored is at one of three     *)
(* steps of the worker, or its start or its end was not stored, or the     *)
(* process stopped while it ran (Outcomes).                                *)
(*                                                                         *)
(* At the end, what the stages of a run decide with: the verdict, the      *)
(* outcome of a trace ID, and the agreement of the readers of a build      *)
(* question, which are pure functions of internal/engine; and where a      *)
(* rewrite of a finding goes in a file that changed since (edit).          *)
(***************************************************************************)
EXTENDS Integers, Sequences, ReviewQueue, SequenceTheorems, FiniteSetTheorems, WellFoundedInduction, TLAPS

Verdict == INSTANCE VerdictEngine
Verification == INSTANCE VerificationEngine
Divergence == INSTANCE DivergenceEngine
Fix == INSTANCE FixEngine

Rows ==
    /\ \A r \in Run :
          /\ status[r] = "none" <=> job[r] = "none"
          /\ status[r] = "none" => docOf[r] = NoDoc /\ r \notin verdict \cup verifies \cup ExecutedAgain
    /\ \A r \in verifies : docOf[r] = NoDoc /\ before[r] = "none"
    /\ \A r \in Run \ verifies : outcomes[r] = 0 /\ threads[r] = 0 /\ cut[r] = 0

\* The reviews of a doc that did not end yet.
Unended(d) == ActiveOf(d) \ ExecutedAgain

Starts ==
    /\ \A c \in Client : starting[c] # NoDoc => startMu = c /\ Unended(starting[c]) = {}
    /\ \A d \in Doc : \A q, r \in Unended(d) : q = r

Works ==
    /\ process = "down" => worker = "idle"
    /\ claimed # 0 => status[claimed] # "none"
    /\ worker \in {"save", "fail", "abort"} => Reviews
    /\ worker \in {"store", "open", "done", "give up"} => ~Reviews
    /\ worker \in {"judge", "save", "store", "open", "done", "give up"} => status[claimed] = "running"
    /\ worker = "fail" => claimed \in ExecutedAgain \/ status[claimed] \in Active
    /\ worker = "finish" /\ ~Reviews => status[claimed] \in Ended \/ claimed \in stranded
    /\ worker = "end orphan" => status[claimed] \in Ended

\* The worker has the outcomes of the run to finish with.
HasStored(r) == claimed = r /\ worker \in {"open", "done", "give up"}

Outcomes ==
    /\ stops + errors <= MaxTroubles
    /\ \A r \in verifies :
          /\ cut[r] <= stops
          /\ outcomes[r] <= 1 + stops + errors
          /\ outcomes[r] <= 1 + cut[r] \/ r \in stranded
          /\ status[r] \in Active /\ ~HasStored(r) =>
                /\ outcomes[r] <= stops + errors
                /\ outcomes[r] <= cut[r] \/ r \in stranded
          /\ threads[r] <= outcomes[r]
          /\ claimed = r /\ worker = "open" => threads[r] < outcomes[r]
          /\ claimed = r /\ worker = "done" => threads[r] >= 1
          /\ status[r] = "complete" => threads[r] >= 1

IInv == TypeOK /\ Rows /\ Starts /\ Works /\ Outcomes


-----------------------------------------------------------------------------
(* Types. *)

LEMMA RunsFromOne == Run \subseteq Nat \ {0}
BY BoundsAssumption DEF Run

\* The counters of the verifications, without their bound.
Counted == outcomes \in [Run -> Nat] /\ threads \in [Run -> Nat] /\ cut \in [Run -> Nat]

LEMMA Typed ==
    ASSUME TypeOK
    PROVE  /\ Counted
           /\ status \in [Run -> {"none", "queued", "running", "complete", "failed"}]
           /\ before \in [Run -> {"none", "complete", "failed"}]
           /\ job \in [Run -> {"none", "queued", "running", "ended"}]
           /\ docOf \in [Run -> Doc \cup {NoDoc}]
           /\ verifies \subseteq Run /\ stranded \subseteq Run /\ verdict \subseteq Run
           /\ stops \in Nat /\ errors \in Nat
           /\ claimed \in Run \cup {0}
           /\ worker \notin {"idle", "list orphans"} => claimed \in Run
<1>1. 0 .. MaxTroubles + 1 \subseteq Nat
  BY BoundsAssumption
<1>2. Counted
  BY <1>1 DEF TypeOK, Counted
<1>3. /\ status \in [Run -> {"none", "queued", "running", "complete", "failed"}]
      /\ before \in [Run -> {"none", "complete", "failed"}]
      /\ job \in [Run -> {"none", "queued", "running", "ended"}]
  <2>1. /\ {"none"} \cup Active \cup Ended = {"none", "queued", "running", "complete", "failed"}
        /\ {"none"} \cup Ended = {"none", "complete", "failed"}
        /\ {"none", "ended"} \cup Active = {"none", "queued", "running", "ended"}
    BY DEF Active, Ended
  <2> QED
    BY <2>1 DEF TypeOK
<1>4. /\ docOf \in [Run -> Doc \cup {NoDoc}]
      /\ verifies \subseteq Run /\ stranded \subseteq Run /\ verdict \subseteq Run
      /\ claimed \in Run \cup {0}
      /\ worker \notin {"idle", "list orphans"} => claimed \in Run
  BY DEF TypeOK
<1>5. stops \in Nat /\ errors \in Nat
  <2>1. stops \in 0 .. MaxTroubles /\ errors \in 0 .. MaxErrors
    BY DEF TypeOK
  <2> QED
    BY <2>1, BoundsAssumption
<1> QED
  BY <1>2, <1>3, <1>4, <1>5

LEMMA CountedStep == TypeOK /\ [Next]_vars => Counted'
<1> SUFFICES ASSUME TypeOK, [Next]_vars PROVE Counted'
  OBVIOUS
<1>0. Counted /\ (worker \notin {"idle", "list orphans"} => claimed \in Run)
  BY Typed
<1>1. CASE StoreOutcomes
  BY <1>0, <1>1 DEF Counted, StoreOutcomes
<1>3. CASE OpenThread
  BY <1>0, <1>3 DEF Counted, OpenThread
<1>4. CASE Stop
  <2>1. ASSUME NEW r \in Run PROVE cut[r] \in Nat /\ cut[r] + 1 \in Nat
    <3>1. cut[r] \in Nat
      BY <1>0 DEF Counted
    <3> QED
      BY <3>1
  <2>2. cut' \in [Run -> Nat]
    BY <1>4, <2>1 DEF Stop
  <2> QED
    BY <1>0, <1>4, <2>2 DEF Counted, Stop, ProcessEnds
<1>2. CASE UNCHANGED <<outcomes, threads, cut>>
  BY <1>0, <1>2 DEF Counted
<1> QED
  BY <1>1, <1>2, <1>3, <1>4
  DEF Next, WorkerStep, vars, verification, CheckNoRun, InsertRun, InsertRunFails, InsertVerification,
     ClaimJob, EndOrphanRun, Execute, RunStages, Save, Fail, Abort, ExecuteVerification, JudgeRequirements,
     FinishVerification, FailVerification, Finish, EndOrphanJob, Serve, ClaimNothing, WorkerStatementFails,
     VerificationStatementFails, EndOrphansFails, ProcessEnds, LockRunsOut, Start

-----------------------------------------------------------------------------
(* Rows. *)

\* A step of the worker moves the run that it claimed, which has a row.
LEMMA RowsStep == IInv /\ [Next]_vars => Rows'
<1> SUFFICES ASSUME IInv, [Next]_vars PROVE Rows'
  OBVIOUS
<1>0. /\ TypeOK /\ Rows /\ Works
      /\ Counted
      /\ status \in [Run -> {"none", "queued", "running", "complete", "failed"}]
      /\ before \in [Run -> {"none", "complete", "failed"}]
      /\ job \in [Run -> {"none", "queued", "running", "ended"}]
      /\ docOf \in [Run -> Doc \cup {NoDoc}]
      /\ verifies \subseteq Run /\ verdict \subseteq Run
      /\ worker \notin {"idle", "list orphans"} => claimed \in Run /\ status[claimed] # "none"
  BY Typed, RunsFromOne DEF IInv, Works
<1>1. ASSUME UNCHANGED <<verifies, outcomes, threads, cut, before, docOf>>,
             \A r \in Run : status'[r] = "none" <=> status[r] = "none",
             \A r \in Run : job'[r] = "none" <=> job[r] = "none",
             \A r \in verdict' : status'[r] # "none"
      PROVE  Rows'
  BY <1>0, <1>1 DEF Rows, ExecutedAgain
<1>2. ASSUME NEW c \in Client, NEW r \in Run, InsertRun(c, r) PROVE Rows'
  <2>1. /\ UNCHANGED <<verifies, outcomes, threads, cut, before, verdict>>
        /\ status[r] = "none" /\ status'[r] = "queued" /\ job'[r] = "queued"
        /\ \A q \in Run \ {r} : status'[q] = status[q] /\ job'[q] = job[q] /\ docOf'[q] = docOf[q]
    BY <1>0, <1>2 DEF InsertRun, verification
  <2>2. r \notin verifies
    BY <1>0, <2>1 DEF Rows
  <2> QED
    BY <1>0, <2>1, <2>2 DEF Rows, ExecutedAgain
<1>3. ASSUME NEW r \in Run, InsertVerification(r) PROVE Rows'
  <2>1. /\ UNCHANGED <<outcomes, threads, cut, before, verdict, docOf>>
        /\ verifies' = verifies \cup {r}
        /\ status[r] = "none" /\ status'[r] = "queued" /\ job'[r] = "queued"
        /\ \A q \in Run \ {r} : status'[q] = status[q] /\ job'[q] = job[q]
    BY <1>0, <1>3 DEF InsertVerification
  <2>2. /\ job[r] = "none" /\ r \notin verdict /\ before[r] = "none" /\ docOf[r] = NoDoc
    BY <1>0, <2>1 DEF Rows, ExecutedAgain
  <2>3. ASSUME NEW q \in Run
        PROVE  /\ status'[q] = "none" <=> job'[q] = "none"
               /\ status'[q] = "none" => docOf'[q] = NoDoc /\ q \notin verdict' \cup verifies' \cup ExecutedAgain'
    <3>1. CASE q = r
      BY <2>1, <3>1
    <3>2. CASE q # r
      <4>1. status'[q] = status[q] /\ job'[q] = job[q] /\ ExecutedAgain' = ExecutedAgain
        BY <2>1, <3>2 DEF ExecutedAgain
      <4>2. /\ status[q] = "none" <=> job[q] = "none"
            /\ status[q] = "none" => docOf[q] = NoDoc /\ q \notin verdict \cup verifies \cup ExecutedAgain
        BY <1>0 DEF Rows
      <4> QED
        BY <2>1, <3>2, <4>1, <4>2
    <3> QED
      BY <3>1, <3>2
  <2>4. \A q \in verifies' : docOf'[q] = NoDoc /\ before'[q] = "none"
    BY <1>0, <2>1, <2>2 DEF Rows
  <2>5. \A q \in Run \ verifies' : outcomes'[q] = 0 /\ threads'[q] = 0 /\ cut'[q] = 0
    BY <1>0, <2>1 DEF Rows
  <2> QED
    BY <2>3, <2>4, <2>5 DEF Rows
<1>4. ASSUME NEW r \in Run, ClaimJob(r) \/ EndOrphanRun(r) PROVE Rows'
  <2>1. UNCHANGED <<verifies, outcomes, threads, cut, before, docOf, verdict>>
    BY <1>4 DEF ClaimJob, EndOrphanRun, verification
  <2>2. /\ \A q \in Run : status'[q] = "none" <=> status[q] = "none"
        /\ \A q \in Run : job'[q] = "none" <=> job[q] = "none"
    BY <1>0, <1>4 DEF ClaimJob, Claimable, EndOrphanRun, FailActive, Active
  <2> QED
    BY <1>0, <1>1, <2>1, <2>2 DEF Rows
<1>5. CASE Execute
  <2>1. claimed \in Run /\ claimed \notin verifies /\ status[claimed] # "none"
    BY <1>0, <1>5 DEF Execute, Reviews
  <2>2. /\ UNCHANGED <<verifies, outcomes, threads, cut, docOf, verdict, job>>
        /\ status'[claimed] # "none"
        /\ \A r \in Run \ {claimed} : status'[r] = status[r] /\ before'[r] = before[r]
    BY <1>0, <1>5, <2>1 DEF Execute, Now, NoteAgain, verification
  <2> QED
    BY <1>0, <2>1, <2>2 DEF Rows, ExecutedAgain
<1>6. CASE Save \/ Fail \/ Abort
  <2>1. /\ UNCHANGED <<verifies, outcomes, threads, cut, before, docOf, job>>
        /\ verdict' \subseteq verdict \cup {claimed}
        /\ claimed \in Run /\ status[claimed] # "none"
    BY <1>0, <1>6 DEF Save, Fail, Abort, verification
  <2>2. status'[claimed] # "none" /\ \A r \in Run \ {claimed} : status'[r] = status[r]
    BY <1>0, <1>6, <2>1 DEF Save, Fail, Abort, Now, FailActive
  <2> QED
    BY <1>0, <1>1, <2>1, <2>2 DEF Rows
<1>7. CASE ExecuteVerification \/ FinishVerification \/ FailVerification
  BY <1>0, <1>1, <1>7 DEF ExecuteVerification, FinishVerification, FailVerification, Now, Rows, verification
<1>8. CASE Finish \/ EndOrphanJob
  BY <1>0, <1>1, <1>8 DEF Finish, EndOrphanJob, EndJob, Rows, verification
<1>9. CASE StoreOutcomes \/ OpenThread
  <2>1. claimed \in verifies
    BY <1>0, <1>9 DEF StoreOutcomes, OpenThread, Works, Reviews
  <2> QED
    BY <1>0, <1>9, <2>1 DEF StoreOutcomes, OpenThread, rows, Counted, Rows, ExecutedAgain
<1>10. CASE Stop
  BY <1>0, <1>10 DEF Stop, ProcessEnds, rows, Counted, Rows, ExecutedAgain
<1>11. ASSUME NEW r \in Run, LockRunsOut(r) PROVE Rows'
  BY <1>0, <1>1, <1>11 DEF LockRunsOut, Rows, verification
<1>12. CASE UNCHANGED <<verifies, outcomes, threads, cut, rows>>
  BY <1>0, <1>1, <1>12 DEF Rows, rows
<1> QED
  BY <1>2, <1>3, <1>4, <1>5, <1>6, <1>7, <1>8, <1>9, <1>10, <1>11, <1>12
  DEF Next, WorkerStep, vars, verification, CheckNoRun, InsertRunFails, RunStages, JudgeRequirements, Serve,
      ClaimNothing, WorkerStatementFails, VerificationStatementFails, EndOrphansFails, ProcessEnds, Start

-----------------------------------------------------------------------------
(* The worker. *)

LEMMA WorksStep == IInv /\ [Next]_vars => Works'
<1> SUFFICES ASSUME IInv, [Next]_vars PROVE Works'
  OBVIOUS
<1>0. /\ TypeOK /\ Rows /\ Works
      /\ status \in [Run -> {"none", "queued", "running", "complete", "failed"}]
      /\ before \in [Run -> {"none", "complete", "failed"}]
      /\ verifies \subseteq Run
      /\ claimed \in Run \cup {0} /\ 0 \notin Run
      /\ claimed = 0 <=> worker \in {"idle", "list orphans"}
      /\ worker \notin {"idle", "list orphans"} => claimed \in Run /\ status[claimed] # "none"
  BY Typed, RunsFromOne DEF IInv, Works, TypeOK
\* Somebody else queues a run.
<1>1. ASSUME NEW r \in Run, status[r] = "none", UNCHANGED <<worker, claimed, process, before, stranded>>,
             \A q \in Run \ {r} : status'[q] = status[q],
             verifies' \subseteq verifies \cup {r}, verifies \subseteq verifies'
      PROVE  Works'
  <2>1. claimed # 0 => claimed # r /\ status'[claimed] = status[claimed]
    BY <1>0, <1>1
  <2>2. Reviews' = Reviews
    BY <1>1, <2>1, <1>0 DEF Reviews
  <2>3. ExecutedAgain' = ExecutedAgain
    BY <1>1 DEF ExecutedAgain
  <2>4. CASE claimed = 0
    BY <1>0, <1>1, <2>4 DEF Works
  <2>5. CASE claimed # 0
    BY <1>0, <1>1, <2>1, <2>2, <2>3, <2>5 DEF Works
  <2> QED
    BY <2>4, <2>5
<1>2. ASSUME NEW c \in Client, NEW r \in Run, InsertRun(c, r) PROVE Works'
  BY <1>0, <1>1, <1>2 DEF InsertRun, verification
<1>3. ASSUME NEW r \in Run, InsertVerification(r) PROVE Works'
  BY <1>0, <1>1, <1>3 DEF InsertVerification
<1>4. ASSUME NEW r \in Run, ClaimJob(r) PROVE Works'
  <2>1. status'[r] # "none" /\ worker' = "execute" /\ claimed' = r /\ process' = "up"
    BY <1>0, <1>4 DEF ClaimJob, Claimable, GoTo, Rows
  <2> QED
    BY <2>1 DEF Works
<1>5. ASSUME NEW r \in Run, EndOrphanRun(r) PROVE Works'
  <2>1. status[r] # "none" /\ worker' = "end orphan" /\ claimed' = r /\ UNCHANGED process /\ worker = "list orphans"
    BY <1>0, <1>5 DEF EndOrphanRun, ActiveJobs, GoTo, Rows, Active
  <2>2. status'[r] \in Ended
    BY <1>0, <1>5, <2>1 DEF EndOrphanRun, FailActive, Active, Ended
  <2> QED
    BY <1>0, <2>1, <2>2 DEF Works, Ended
\* The worker goes on with the run that it claimed.
<1>6. ASSUME UNCHANGED <<claimed, verifies, process>>, claimed \in Run, process # "down",
             status'[claimed] # "none"
      PROVE  /\ worker' \in {"finish"} /\ (Reviews \/ status'[claimed] \in Ended \/ claimed \in stranded') => Works'
             /\ worker' \in {"judge", "save"} /\ Reviews /\ status'[claimed] = "running" => Works'
             /\ worker' \in {"judge", "store", "open", "done", "give up"} /\ ~Reviews /\ status'[claimed] = "running"
                   => Works'
             /\ worker' = "fail" /\ Reviews /\ (claimed \in ExecutedAgain' \/ status'[claimed] \in Active) => Works'
             /\ worker' = "abort" /\ Reviews => Works'
  BY <1>0, <1>6 DEF Works, Reviews
<1>7. worker # "idle" => process # "down"
  BY <1>0 DEF Works
<1>8. CASE Execute
  <2>1. /\ UNCHANGED <<claimed, verifies, process>> /\ claimed \in Run /\ process # "down" /\ Reviews
        /\ \/ status'[claimed] = "running" /\ worker' = "judge"
           \/ UNCHANGED status /\ worker' = "fail"
    BY <1>0, <1>7, <1>8 DEF Execute, GoTo, Now, verification
  <2>2. status[claimed] \in Ended => claimed \in ExecutedAgain'
    BY <1>0, <1>8, <2>1 DEF Execute, NoteAgain, ExecutedAgain, Ended
  <2>3. status[claimed] \in Active \cup Ended /\ "running" \in Active
    BY <1>0, <1>8, <2>1 DEF Active, Ended, Execute
  <2> QED
    BY <1>0, <1>6, <1>8, <2>1, <2>2, <2>3 DEF Execute
<1>9. CASE RunStages
  <2>1. /\ UNCHANGED <<claimed, verifies, process, status>> /\ claimed \in Run /\ process # "down" /\ Reviews
        /\ worker' \in {"save", "fail"} /\ status[claimed] = "running"
    BY <1>0, <1>7, <1>9 DEF RunStages, GoTo, verification, rows, Works
  <2> QED
    BY <1>6, <2>1 DEF Active
<1>10. CASE Save
  <2>1. /\ UNCHANGED <<claimed, verifies, process>> /\ claimed \in Run /\ process # "down" /\ Reviews
        /\ status[claimed] = "running"
        /\ \/ worker' = "fail" /\ UNCHANGED status
           \/ worker' = "finish" /\ status'[claimed] = "complete"
    BY <1>0, <1>7, <1>10 DEF Save, GoTo, Now, verification, rows, Works
  <2> QED
    BY <1>6, <2>1 DEF Active
<1>11. CASE Fail \/ Abort
  <2>1. /\ UNCHANGED <<claimed, verifies, process>> /\ claimed \in Run /\ process # "down" /\ Reviews
        /\ worker' = "finish" /\ status'[claimed] # "none"
    BY <1>0, <1>7, <1>11 DEF Fail, Abort, GoTo, Now, FailActive, verification, Works
  <2> QED
    BY <1>6, <2>1
<1>12. CASE ExecuteVerification
  <2>1. /\ UNCHANGED <<claimed, verifies, process>> /\ claimed \in Run /\ process # "down" /\ ~Reviews
        /\ \/ worker' = "finish" /\ status'[claimed] \in Ended /\ UNCHANGED status
           \/ worker' = "judge" /\ status'[claimed] = "running"
    BY <1>0, <1>7, <1>12 DEF ExecuteVerification, GoTo, Now, verification
  <2> QED
    BY <1>6, <2>1 DEF Ended
<1>13. CASE JudgeRequirements \/ StoreOutcomes \/ OpenThread
  <2>1. /\ UNCHANGED <<claimed, verifies, process, status>> /\ claimed \in Run /\ process # "down" /\ ~Reviews
        /\ worker' \in {"store", "give up", "open", "done"} /\ status[claimed] = "running"
    BY <1>0, <1>7, <1>13 DEF JudgeRequirements, StoreOutcomes, OpenThread, GoTo, verification, rows, Works
  <2> QED
    BY <1>6, <2>1
<1>14. CASE FinishVerification \/ FailVerification
  <2>1. /\ UNCHANGED <<claimed, verifies, process>> /\ claimed \in Run /\ process # "down"
        /\ worker' = "finish" /\ status'[claimed] \in Ended
    BY <1>0, <1>7, <1>14 DEF FinishVerification, FailVerification, GoTo, Now, verification, Ended
  <2> QED
    BY <1>6, <2>1 DEF Ended
<1>15. CASE Finish \/ EndOrphanJob \/ Serve
  <2>1. worker' \in {"idle", "list orphans"} /\ claimed' = 0 /\ process' # "down"
    BY <1>0, <1>7, <1>15 DEF Finish, EndOrphanJob, Serve, GoTo
  <2> QED
    BY <2>1 DEF Works
<1>16. CASE WorkerStatementFails
  <2>1. /\ UNCHANGED <<verifies, process, status, before>> /\ claimed \in Run /\ process # "down"
        /\ status[claimed] # "none"
        /\ \/ worker \in {"execute", "fail"} /\ Reviews /\ worker' = "abort" /\ UNCHANGED claimed
           \/ worker = "save" /\ Reviews /\ worker' = "fail" /\ UNCHANGED claimed /\ status[claimed] = "running"
           \/ worker = "abort" /\ Reviews /\ worker' = "finish" /\ UNCHANGED claimed
           \/ worker' = "idle" /\ claimed' = 0
    BY <1>0, <1>7, <1>16 DEF WorkerStatementFails, GoTo, verification, rows, Works
  <2>2. CASE worker' = "idle" /\ claimed' = 0
    BY <2>1, <2>2 DEF Works
  <2> QED
    BY <1>6, <2>1, <2>2 DEF Active
<1>17. CASE VerificationStatementFails
  <2>1. /\ UNCHANGED <<claimed, verifies, process, status>> /\ claimed \in Run /\ process # "down" /\ ~Reviews
        /\ status[claimed] # "none"
        /\ \/ worker' = "give up" /\ status[claimed] = "running"
           \/ worker' = "finish" /\ stranded' = stranded \cup {r \in {claimed} : status[r] \in Active}
    BY <1>0, <1>7, <1>17 DEF VerificationStatementFails, GoTo, rows, Works, Reviews
  <2>2. worker' = "finish" => status[claimed] \in Ended \/ claimed \in stranded'
    BY <1>0, <2>1 DEF Active, Ended
  <2> QED
    BY <1>6, <2>1, <2>2
<1>18. CASE Stop \/ EndOrphansFails
  BY <1>18 DEF Stop, EndOrphansFails, ProcessEnds, Works
<1>19. CASE Start
  <2>1. worker' \in {"idle", "list orphans"} /\ claimed' = 0 /\ process' # "down"
    BY <1>0, <1>19 DEF Start, Works
  <2> QED
    BY <2>1 DEF Works
<1>20. CASE UNCHANGED <<worker, claimed, process, status, before, verifies, stranded>>
  BY <1>0, <1>20 DEF Works, Reviews, ExecutedAgain
<1> QED
  BY <1>2, <1>3, <1>4, <1>5, <1>8, <1>9, <1>10, <1>11, <1>12, <1>13, <1>14, <1>15, <1>16, <1>17, <1>18,
     <1>19, <1>20
  DEF Next, WorkerStep, vars, verification, rows, CheckNoRun, InsertRunFails, ClaimNothing, LockRunsOut

-----------------------------------------------------------------------------
(* The outcomes of a verification, and its thread. *)

LEMMA OutcomesStep == IInv /\ [Next]_vars => Outcomes'
<1> SUFFICES ASSUME IInv, [Next]_vars PROVE Outcomes'
  OBVIOUS
<1>0. /\ Rows /\ Works /\ Outcomes /\ Counted
      /\ status \in [Run -> {"none", "queued", "running", "complete", "failed"}]
      /\ verifies \subseteq Run /\ stranded \subseteq Run
      /\ stops \in Nat /\ errors \in Nat
      /\ claimed \in Run \cup {0} /\ 0 \notin Run
      /\ claimed = 0 <=> worker \in {"idle", "list orphans"}
      /\ worker \notin {"idle", "list orphans"} => claimed \in Run /\ status[claimed] # "none"
  BY Typed, RunsFromOne DEF IInv, Works, TypeOK
<1>a. \A r \in Run : outcomes[r] \in Nat /\ threads[r] \in Nat /\ cut[r] \in Nat
  BY <1>0 DEF Counted
<1>b. MaxTroubles \in Nat /\ stops \in Nat /\ errors \in Nat
  BY <1>0, BoundsAssumption
\* A run is not in the middle of its end, and stays so; or the worker goes on to its end.
<1>1. ASSUME UNCHANGED <<verifies, outcomes, threads, cut, stops, errors, stranded>>,
             \A r \in verifies :
                /\ status'[r] \in Active /\ ~HasStored(r)' => status[r] \in Active /\ ~HasStored(r)
                /\ claimed' = r => worker' \notin {"open", "done"}
                /\ status'[r] = "complete" => status[r] = "complete" \/ (claimed = r /\ worker = "done")
      PROVE  Outcomes'
  BY <1>0, <1>1 DEF Outcomes
\* The worker does not work on a verification that has its outcomes.
<1>2. ASSUME UNCHANGED <<verifies, outcomes, threads, cut, stops, errors, stranded>>,
             worker \notin {"open", "done", "give up"}, worker' \notin {"open", "done"},
             \A r \in verifies :
                /\ status'[r] \in Active => status[r] \in Active
                /\ status'[r] = "complete" => status[r] = "complete"
      PROVE  Outcomes'
  BY <1>1, <1>2 DEF HasStored
<1>3. ASSUME NEW c \in Client, NEW r \in Run, InsertRun(c, r) PROVE Outcomes'
  <2>1. /\ UNCHANGED <<verifies, outcomes, threads, cut, stops, errors, stranded, claimed, worker>>
        /\ status[r] = "none"
        /\ \A q \in Run \ {r} : status'[q] = status[q]
    BY <1>0, <1>3 DEF InsertRun, verification, counters
  <2>2. r \notin verifies
    BY <1>0, <2>1 DEF Rows
  <2>3. \A q \in verifies : status'[q] = status[q]
    BY <1>0, <2>1, <2>2
  <2> QED
    BY <1>0, <2>1, <2>3 DEF Outcomes, HasStored
<1>4. ASSUME NEW r \in Run, InsertVerification(r) PROVE Outcomes'
  <2>1. /\ UNCHANGED <<outcomes, threads, cut, stops, errors, stranded, claimed, worker>>
        /\ verifies' = verifies \cup {r}
        /\ status[r] = "none" /\ status'[r] = "queued"
        /\ \A q \in Run \ {r} : status'[q] = status[q]
    BY <1>0, <1>4 DEF InsertVerification, counters
  <2>2. r \notin verifies
    BY <1>0, <2>1 DEF Rows
  <2>3. outcomes[r] = 0 /\ threads[r] = 0 /\ cut[r] = 0 /\ claimed # r
    BY <1>0, <2>1, <2>2 DEF Rows
  <2>4. \A q \in verifies : status'[q] = status[q]
    BY <1>0, <2>1, <2>2
  <2>5. ASSUME NEW q \in verifies'
        PROVE  /\ cut'[q] <= stops'
               /\ outcomes'[q] <= 1 + stops' + errors'
               /\ outcomes'[q] <= 1 + cut'[q] \/ q \in stranded'
               /\ status'[q] \in Active /\ ~HasStored(q)' =>
                     /\ outcomes'[q] <= stops' + errors'
                     /\ outcomes'[q] <= cut'[q] \/ q \in stranded'
               /\ threads'[q] <= outcomes'[q]
               /\ claimed' = q /\ worker' = "open" => threads'[q] < outcomes'[q]
               /\ claimed' = q /\ worker' = "done" => threads'[q] >= 1
               /\ status'[q] = "complete" => threads'[q] >= 1
    <3>1. CASE q = r
      BY <1>b, <2>1, <2>3, <3>1
    <3>2. CASE q # r
      BY <1>0, <2>1, <2>4, <3>2 DEF Outcomes, HasStored
    <3> QED
      BY <3>1, <3>2
  <2>6. (stops + errors <= MaxTroubles)'
    BY <1>0, <2>1 DEF Outcomes
  <2> QED
    BY <2>5, <2>6 DEF Outcomes
<1>5. ASSUME NEW r \in Run, ClaimJob(r) \/ EndOrphanRun(r) PROVE Outcomes'
  <2>1. /\ UNCHANGED <<verifies, outcomes, threads, cut, stops, errors, stranded>>
        /\ worker \in {"idle", "list orphans"} /\ worker' \in {"execute", "end orphan"}
        /\ \A q \in Run : status'[q] = status[q] \/ status'[q] = "failed"
    BY <1>0, <1>5 DEF ClaimJob, EndOrphanRun, FailActive, GoTo, verification, counters
  <2> QED
    BY <1>0, <1>2, <2>1 DEF Active
<1>6. CASE Execute \/ RunStages \/ Save \/ Fail \/ Abort
  <2>1. /\ UNCHANGED <<verifies, outcomes, threads, cut, stops, errors, stranded>>
        /\ claimed \in Run /\ Reviews
        /\ worker \in {"execute", "judge", "save", "fail", "abort"}
        /\ worker' \in {"judge", "save", "fail", "finish"}
    BY <1>0, <1>6 DEF Execute, RunStages, Save, Fail, Abort, GoTo, verification, counters, Works
  <2>2. \A r \in Run \ {claimed} : status'[r] = status[r]
    BY <1>0, <1>6, <2>1 DEF Execute, RunStages, Save, Fail, Abort, Now, FailActive, rows
  <2> QED
    BY <1>0, <1>2, <2>1, <2>2 DEF Reviews
<1>7. CASE ExecuteVerification \/ JudgeRequirements
  <2>1. /\ UNCHANGED <<verifies, outcomes, threads, cut, stops, errors, stranded>>
        /\ worker \in {"execute", "judge"} /\ worker' \in {"finish", "judge", "store", "give up"}
    BY <1>0, <1>7 DEF ExecuteVerification, JudgeRequirements, GoTo, verification, counters
  <2>2. \A r \in Run : status'[r] = status[r] \/ (status'[r] = "running" /\ status[r] \in Active)
    BY <1>0, <1>7 DEF ExecuteVerification, JudgeRequirements, Now, rows, Active, Ended
  <2> QED
    BY <1>0, <1>2, <2>1, <2>2
<1>8. CASE StoreOutcomes
  <2>1. /\ UNCHANGED <<verifies, threads, cut, stops, errors, stranded, claimed, status>>
        /\ claimed \in verifies /\ worker = "store" /\ worker' = "open" /\ status[claimed] = "running"
        /\ outcomes'[claimed] = outcomes[claimed] + 1
        /\ \A r \in Run \ {claimed} : outcomes'[r] = outcomes[r]
    BY <1>0, <1>8 DEF StoreOutcomes, GoTo, counters, rows, Works, Reviews, Counted
  <2>2. /\ outcomes[claimed] <= stops + errors
        /\ outcomes[claimed] <= cut[claimed] \/ claimed \in stranded
        /\ threads[claimed] <= outcomes[claimed]
    BY <1>0, <2>1 DEF Outcomes, HasStored, Active
  <2>3. ASSUME NEW r \in verifies
        PROVE  /\ cut'[r] <= stops'
               /\ outcomes'[r] <= 1 + stops' + errors'
               /\ outcomes'[r] <= 1 + cut'[r] \/ r \in stranded'
               /\ status'[r] \in Active /\ ~HasStored(r)' =>
                     /\ outcomes'[r] <= stops' + errors'
                     /\ outcomes'[r] <= cut'[r] \/ r \in stranded'
               /\ threads'[r] <= outcomes'[r]
               /\ claimed' = r /\ worker' = "open" => threads'[r] < outcomes'[r]
               /\ claimed' = r /\ worker' = "done" => threads'[r] >= 1
               /\ status'[r] = "complete" => threads'[r] >= 1
    <3>1. CASE r = claimed
      BY <1>0, <1>a, <2>1, <2>2, <3>1 DEF Outcomes, HasStored
    <3>2. CASE r # claimed
      BY <1>0, <1>a, <2>1, <3>2 DEF Outcomes, HasStored
    <3> QED
      BY <3>1, <3>2
  <2>4. (stops + errors <= MaxTroubles)'
    BY <1>0, <2>1 DEF Outcomes
  <2> QED
    BY <2>1, <2>3, <2>4 DEF Outcomes
<1>9. CASE OpenThread
  <2>1. /\ UNCHANGED <<verifies, outcomes, cut, stops, errors, stranded, claimed, status>>
        /\ claimed \in verifies /\ worker = "open" /\ worker' = "done" /\ status[claimed] = "running"
        /\ threads'[claimed] = threads[claimed] + 1
        /\ \A r \in Run \ {claimed} : threads'[r] = threads[r]
    BY <1>0, <1>9 DEF OpenThread, GoTo, counters, rows, Works, Reviews, Counted
  <2>2. threads[claimed] < outcomes[claimed]
    BY <1>0, <2>1 DEF Outcomes
  <2>3. \A r \in verifies :
           /\ threads'[r] <= outcomes[r]
           /\ claimed = r => threads'[r] >= 1
           /\ status[r] = "complete" => threads'[r] >= 1
           /\ HasStored(r)' = HasStored(r)
    BY <1>0, <1>a, <2>1, <2>2 DEF Outcomes, HasStored
  <2> QED
    BY <1>0, <2>1, <2>3 DEF Outcomes
<1>10. CASE FinishVerification \/ FailVerification
  <2>1. /\ UNCHANGED <<verifies, outcomes, threads, cut, stops, errors, stranded, claimed>>
        /\ claimed \in Run /\ worker' = "finish"
        /\ \A r \in Run \ {claimed} : status'[r] = status[r]
        /\ status'[claimed] = "failed" \/ (status'[claimed] = "complete" /\ worker = "done")
    BY <1>0, <1>10 DEF FinishVerification, FailVerification, GoTo, Now, verification, counters
  <2> QED
    BY <1>0, <1>1, <2>1 DEF HasStored, Active
<1>11. CASE Finish \/ EndOrphanJob \/ Serve
  <2>1. /\ UNCHANGED <<verifies, outcomes, threads, cut, stops, errors, stranded, status>>
        /\ worker \in {"finish", "end orphan", "list orphans"} /\ worker' \in {"idle", "list orphans"}
    BY <1>11 DEF Finish, EndOrphanJob, Serve, GoTo, verification, counters, rows
  <2> QED
    BY <1>2, <2>1
\* A statement fails.
<1>12. ASSUME StatementFails, UNCHANGED <<verifies, outcomes, threads, cut, stops, status>>,
              stranded \subseteq stranded',
              worker' \in {"open", "done"} => UNCHANGED <<worker, claimed>>,
              \A r \in verifies : HasStored(r) /\ ~HasStored(r)' /\ status[r] \in Active => r \in stranded'
       PROVE  Outcomes'
  <2>1. stops + errors < MaxTroubles /\ errors' = errors + 1
    BY <1>12 DEF StatementFails
  <2>2. (stops + errors <= MaxTroubles)'
    BY <1>b, <1>12, <2>1
  <2>3. ASSUME NEW r \in verifies
        PROVE  /\ cut'[r] <= stops'
               /\ outcomes'[r] <= 1 + stops' + errors'
               /\ outcomes'[r] <= 1 + cut'[r] \/ r \in stranded'
               /\ status'[r] \in Active /\ ~HasStored(r)' =>
                     /\ outcomes'[r] <= stops' + errors'
                     /\ outcomes'[r] <= cut'[r] \/ r \in stranded'
    <3>1. /\ cut[r] <= stops /\ outcomes[r] <= 1 + stops + errors
          /\ outcomes[r] <= 1 + cut[r] \/ r \in stranded
          /\ status[r] \in Active /\ ~HasStored(r) => outcomes[r] <= cut[r] \/ r \in stranded
      BY <1>0 DEF Outcomes
    <3>2. outcomes[r] \in Nat /\ cut[r] \in Nat
      BY <1>0, <1>a
    <3>3. outcomes[r] <= 1 + stops + errors' /\ outcomes[r] <= stops + errors'
      BY <1>b, <2>1, <3>1, <3>2
    <3> QED
      BY <1>12, <3>1, <3>3
  <2>4. ASSUME NEW r \in verifies
        PROVE  /\ threads'[r] <= outcomes'[r]
               /\ claimed' = r /\ worker' = "open" => threads'[r] < outcomes'[r]
               /\ claimed' = r /\ worker' = "done" => threads'[r] >= 1
               /\ status'[r] = "complete" => threads'[r] >= 1
    BY <1>0, <1>12 DEF Outcomes
  <2> QED
    BY <1>12, <2>2, <2>3, <2>4 DEF Outcomes
<1>13. CASE WorkerStatementFails
  <2>1. /\ StatementFails
        /\ UNCHANGED <<verifies, outcomes, threads, cut, stops, status, stranded>>
        /\ worker \in {"execute", "fail", "save", "abort", "finish"}
        /\ worker' \in {"abort", "fail", "finish", "idle"}
    BY <1>13 DEF WorkerStatementFails, GoTo, verification, rows
  <2> QED
    BY <1>12, <2>1 DEF HasStored
<1>14. CASE VerificationStatementFails
  <2>1. /\ StatementFails
        /\ UNCHANGED <<verifies, outcomes, threads, cut, stops, status, claimed>>
        /\ stranded \subseteq stranded'
        /\ \/ worker' = "give up"
           \/ worker' = "finish" /\ (status[claimed] \in Active => claimed \in stranded')
    BY <1>14 DEF VerificationStatementFails, GoTo, rows
  <2> QED
    BY <1>12, <2>1 DEF HasStored
<1>15. CASE EndOrphansFails
  <2>1. /\ StatementFails
        /\ UNCHANGED <<verifies, outcomes, threads, cut, stops, status, stranded>>
        /\ worker \in {"list orphans", "end orphan"}
        /\ worker' = "idle"
    BY <1>15 DEF EndOrphansFails, ProcessEnds, rows
  <2> QED
    BY <1>12, <2>1 DEF HasStored
<1>16. ASSUME NEW c \in Client, InsertRunFails(c) PROVE Outcomes'
  BY <1>12, <1>16 DEF InsertRunFails, verification, rows, HasStored
<1>17. CASE Stop
  <2>1. /\ UNCHANGED <<verifies, outcomes, threads, errors, stranded, status>>
        /\ stops + errors < MaxTroubles /\ stops' = stops + 1
        /\ worker' = "idle" /\ claimed' = 0
        /\ \A r \in verifies : cut'[r] = IF r = claimed /\ status[r] = "running" THEN cut[r] + 1 ELSE cut[r]
    BY <1>0, <1>17 DEF Stop, ProcessEnds, rows
  <2>2. \A r \in verifies : ~HasStored(r)'
    BY <1>0, <2>1 DEF HasStored
  <2>3. \A r \in verifies : HasStored(r) => status[r] = "running" /\ r = claimed
    BY <1>0 DEF HasStored, Works
  <2>4. ASSUME NEW r \in verifies
        PROVE  /\ cut'[r] <= stops'
               /\ outcomes[r] <= 1 + stops' + errors
               /\ outcomes[r] <= 1 + cut'[r] \/ r \in stranded
               /\ status[r] \in Active => /\ outcomes[r] <= stops' + errors
                                          /\ outcomes[r] <= cut'[r] \/ r \in stranded
    <3>1. /\ cut[r] <= stops /\ outcomes[r] <= 1 + stops + errors
          /\ outcomes[r] <= 1 + cut[r] \/ r \in stranded
          /\ status[r] \in Active /\ ~HasStored(r) => outcomes[r] <= cut[r] \/ r \in stranded
      BY <1>0 DEF Outcomes
    <3>2. outcomes[r] \in Nat /\ cut[r] \in Nat
      BY <1>0, <1>a
    <3>3. CASE HasStored(r)
      <4>1. cut'[r] = cut[r] + 1
        BY <2>1, <2>3, <3>3
      <4> QED
        BY <1>b, <2>1, <3>1, <3>2, <4>1
    <3>4. CASE ~HasStored(r)
      <4>1. cut'[r] = cut[r] + 1 \/ cut'[r] = cut[r]
        BY <2>1
      <4>2. status[r] \in Active => outcomes[r] <= stops + errors
        BY <1>0, <3>4 DEF Outcomes
      <4> QED
        BY <1>b, <2>1, <3>1, <3>2, <3>4, <4>1, <4>2
    <3> QED
      BY <3>3, <3>4
  <2>5. \A r \in verifies : threads[r] <= outcomes[r] /\ (status[r] = "complete" => threads[r] >= 1)
    BY <1>0 DEF Outcomes
  <2>6. stops' + errors <= MaxTroubles
    BY <1>b, <2>1
  <2>7. \A r \in verifies : claimed' # r
    BY <1>0, <2>1
  <2> QED
    BY <2>1, <2>2, <2>4, <2>5, <2>6, <2>7 DEF Outcomes
<1>18. CASE Start
  <2>1. /\ UNCHANGED <<verifies, outcomes, threads, cut, stops, errors, stranded, status>>
        /\ worker = "idle" /\ worker' \in {"idle", "list orphans"}
    BY <1>0, <1>18 DEF Start, verification, counters, rows, Works
  <2> QED
    BY <1>2, <2>1
<1>19. CASE UNCHANGED <<verifies, outcomes, threads, cut, stops, errors, stranded, status, worker, claimed>>
  BY <1>0, <1>19 DEF Outcomes, HasStored
<1> QED
  BY <1>3, <1>4, <1>5, <1>6, <1>7, <1>8, <1>9, <1>10, <1>11, <1>13, <1>14, <1>15, <1>16, <1>17, <1>18, <1>19
  DEF Next, WorkerStep, vars, verification, rows, counters, CheckNoRun, ClaimNothing, LockRunsOut

-----------------------------------------------------------------------------
(* The reviews of a doc. *)

\* The worker and the other end of a run make no run of a doc active for the first time.
StaysEnded ==
    \A r \in Run : docOf'[r] # NoDoc /\ status'[r] \in Active /\ before'[r] = "none" =>
        docOf'[r] = docOf[r] /\ status[r] \in Active /\ before[r] = "none"

LEMMA OnlyStartsQueue ==
    ASSUME IInv, [Next]_vars, ~\E c \in Client, r \in Run : InsertRun(c, r)
    PROVE  StaysEnded
<1>0. /\ TypeOK /\ Rows /\ Works
      /\ status \in [Run -> {"none", "queued", "running", "complete", "failed"}]
      /\ before \in [Run -> {"none", "complete", "failed"}]
      /\ docOf \in [Run -> Doc \cup {NoDoc}]
      /\ worker \notin {"idle", "list orphans"} => claimed \in Run /\ status[claimed] # "none"
  BY Typed, RunsFromOne DEF IInv, Works, TypeOK
<1>1. ASSUME UNCHANGED <<docOf, before>>, \A r \in Run : status'[r] \in Active => status[r] \in Active
      PROVE  StaysEnded
  BY <1>1 DEF StaysEnded
<1>2. ASSUME UNCHANGED <<docOf, before>>, claimed \in verifies, \A r \in Run \ {claimed} : status'[r] = status[r]
      PROVE  StaysEnded
  BY <1>0, <1>2 DEF StaysEnded, Rows
<1>3. ASSUME NEW r \in Run, InsertVerification(r) PROVE StaysEnded
  <2>1. /\ UNCHANGED <<docOf, before>> /\ docOf[r] = NoDoc
        /\ \A q \in Run \ {r} : status'[q] = status[q]
    BY <1>0, <1>3 DEF InsertVerification, Rows
  <2> QED
    BY <2>1 DEF StaysEnded
<1>4. CASE Execute
  <2>1. /\ UNCHANGED docOf /\ claimed \in Run /\ status[claimed] # "none"
        /\ \A r \in Run \ {claimed} : status'[r] = status[r] /\ before'[r] = before[r]
        /\ before'[claimed] = IF before[claimed] = "none" /\ status[claimed] \in Ended
                                THEN status[claimed] ELSE before[claimed]
    BY <1>0, <1>4 DEF Execute, Now, NoteAgain
  <2>2. status[claimed] \in Active \/ status[claimed] \in Ended
    BY <1>0, <2>1 DEF Active, Ended
  <2>3. before'[claimed] = "none" => before[claimed] = "none" /\ status[claimed] \in Active
    BY <2>1, <2>2 DEF Ended
  <2> QED
    BY <2>1, <2>3 DEF StaysEnded
<1>5. CASE Save \/ Fail \/ Abort
  BY <1>0, <1>1, <1>5 DEF Save, Fail, Abort, Now, FailActive, Active
<1>6. CASE ExecuteVerification \/ FinishVerification \/ FailVerification
  <2>1. claimed \in verifies
    BY <1>0, <1>6 DEF ExecuteVerification, FinishVerification, FailVerification, Works, Reviews
  <2> QED
    BY <1>0, <1>2, <1>6, <2>1 DEF ExecuteVerification, FinishVerification, FailVerification, Now
<1>7. ASSUME NEW r \in Run, EndOrphanRun(r) PROVE StaysEnded
  BY <1>0, <1>1, <1>7 DEF EndOrphanRun, FailActive, Active
<1>8. CASE UNCHANGED <<status, docOf, before>>
  BY <1>1, <1>8
<1> QED
  BY <1>3, <1>4, <1>5, <1>6, <1>7, <1>8
  DEF Next, WorkerStep, vars, rows, CheckNoRun, InsertRunFails, ClaimJob, RunStages, JudgeRequirements,
      StoreOutcomes, OpenThread, Finish, EndOrphanJob, Serve, ClaimNothing, WorkerStatementFails,
      VerificationStatementFails, EndOrphansFails, ProcessEnds, LockRunsOut, Stop, Start

LEMMA StartsStep == IInv /\ [Next]_vars => Starts'
<1> SUFFICES ASSUME IInv, [Next]_vars PROVE Starts'
  OBVIOUS
<1>0. /\ TypeOK /\ Rows /\ Starts
      /\ starting \in [Client -> Doc \cup {NoDoc}]
      /\ status \in [Run -> {"none", "queued", "running", "complete", "failed"}]
      /\ docOf \in [Run -> Doc \cup {NoDoc}]
  BY Typed DEF IInv, TypeOK
<1>1. ASSUME NEW c \in Client, NEW r \in Run, InsertRun(c, r) PROVE Starts'
  <2> DEFINE d == starting[c]
  <2>1. d \in Doc /\ Unended(d) = {} /\ startMu = c
    BY <1>0, <1>1 DEF InsertRun, Starts
  <2>2. /\ docOf'[r] = d /\ UNCHANGED before
        /\ \A q \in Run \ {r} : status'[q] = status[q] /\ docOf'[q] = docOf[q]
    BY <1>0, <1>1 DEF InsertRun
  <2>3. \A b \in Client : starting'[b] = NoDoc
    BY <1>0, <1>1, <2>1 DEF InsertRun, StartReturns, Starts
  <2>4. ASSUME NEW e \in Doc, NEW p \in Unended(e)', NEW q \in Unended(e)' PROVE p = q
    <3>1. ASSUME NEW b \in Unended(e)', b # r PROVE b \in Unended(e) /\ e # d
      BY <2>1, <2>2, <3>1 DEF Unended, ActiveOf, ExecutedAgain
    <3>2. r \in Unended(e)' => e = d
      BY <2>2 DEF Unended, ActiveOf
    <3>3. CASE p = r \/ q = r
      BY <2>4, <3>1, <3>2, <3>3
    <3>4. CASE p # r /\ q # r
      BY <1>0, <2>4, <3>1, <3>4 DEF Starts
    <3> QED
      BY <3>3, <3>4
  <2> QED
    BY <2>3, <2>4 DEF Starts
<1>2. ASSUME ~\E c \in Client, r \in Run : InsertRun(c, r) PROVE Starts'
  <2>1. StaysEnded
    BY <1>2, OnlyStartsQueue
  <2>2. ASSUME NEW d \in Doc PROVE Unended(d)' \subseteq Unended(d)
    BY <2>1, NoDocAssumption DEF StaysEnded, Unended, ActiveOf, ExecutedAgain
  <2>3. \A d \in Doc : \A q, r \in Unended(d)' : q = r
    BY <1>0, <2>2 DEF Starts
  <2>4. ASSUME NEW c \in Client, starting'[c] # NoDoc PROVE startMu' = c /\ starting'[c] \in Doc /\ Unended(starting'[c]) = {}
    <3>1. CASE starting' = starting /\ startMu' = startMu
      BY <1>0, <2>4, <3>1 DEF Starts
    <3>2. ASSUME NEW b \in Client, NEW d \in Doc, CheckNoRun(b, d)
          PROVE  startMu' = c /\ starting'[c] \in Doc /\ Unended(starting'[c]) = {}
      <4>1. startMu = NoClient /\ startMu' = b /\ ActiveOf(d) = {} /\ starting' = [starting EXCEPT ![b] = d]
        BY <3>2 DEF CheckNoRun
      <4>2. starting[c] = NoDoc
        BY <1>0, <4>1, NoClientAssumption DEF Starts
      <4>3. c = b /\ starting'[c] = d
        BY <1>0, <2>4, <4>1, <4>2
      <4> QED
        BY <4>1, <4>3 DEF Unended
    <3>3. ASSUME NEW b \in Client, InsertRunFails(b)
          PROVE  startMu' = c /\ starting'[c] \in Doc /\ Unended(starting'[c]) = {}
      <4>1. starting[b] # NoDoc /\ starting' = [starting EXCEPT ![b] = NoDoc]
        BY <3>3 DEF InsertRunFails, StartReturns
      <4>2. startMu = b /\ c # b /\ starting[c] = starting'[c]
        BY <1>0, <2>4, <4>1 DEF Starts
      <4> QED
        BY <1>0, <2>4, <4>2 DEF Starts
    <3>4. CASE \A b \in Client : starting'[b] = NoDoc
      BY <2>4, <3>4
    <3> QED
      BY <1>2, <3>1, <3>2, <3>3, <3>4
      DEF Next, WorkerStep, vars, requests, GoTo, InsertVerification, ClaimJob, EndOrphanRun, Execute, RunStages, Save,
          Fail, Abort, ExecuteVerification, JudgeRequirements, StoreOutcomes, OpenThread, FinishVerification,
          FailVerification, Finish, EndOrphanJob, Serve, ClaimNothing, WorkerStatementFails,
          VerificationStatementFails, EndOrphansFails, ProcessEnds, LockRunsOut, Stop, Start
  <2>5. ASSUME NEW c \in Client, starting'[c] # NoDoc PROVE Unended(starting[c])' = {}
    <3>1. starting'[c] \in Doc /\ Unended(starting'[c]) = {}
      BY <2>4, <2>5
    <3> QED
      BY <2>2, <3>1
  <2> QED
    BY <2>3, <2>4, <2>5 DEF Starts
<1> QED
  BY <1>1, <1>2

-----------------------------------------------------------------------------
(* The invariant. *)

LEMMA RowTypes ==
    ASSUME IInv, [Next]_vars
    PROVE  /\ status' \in [Run -> {"none"} \cup Active \cup Ended]
           /\ before' \in [Run -> {"none"} \cup Ended]
           /\ docOf' \in [Run -> Doc \cup {NoDoc}]
           /\ job' \in [Run -> {"none", "ended"} \cup Active]
           /\ locked' \subseteq {r \in Run : job'[r] = "running"}
           /\ verdict' \subseteq Run \ verifies'
           /\ verifies' \cup stranded' \subseteq Run
<1>0. /\ Rows /\ Works
      /\ status \in [Run -> {"none"} \cup Active \cup Ended]
      /\ before \in [Run -> {"none"} \cup Ended]
      /\ docOf \in [Run -> Doc \cup {NoDoc}]
      /\ job \in [Run -> {"none", "ended"} \cup Active]
      /\ locked \subseteq {r \in Run : job[r] = "running"}
      /\ verdict \subseteq Run \ verifies
      /\ verifies \cup stranded \subseteq Run
      /\ starting \in [Client -> Doc \cup {NoDoc}]
      /\ worker \notin {"idle", "list orphans"} => claimed \in Run
  BY Typed DEF IInv, TypeOK
<1>1. status' \in [Run -> {"none"} \cup Active \cup Ended]
  <2>1. \/ UNCHANGED status
        \/ \E r \in Run, s \in {"queued", "running", "complete", "failed"} : status' = [status EXCEPT ![r] = s]
        \/ \E r \in Run : FailActive(r)
        \/ Execute \/ Save \/ Fail \/ Abort \/ ExecuteVerification \/ FinishVerification \/ FailVerification
    BY
    DEF Next, WorkerStep, vars, verification, rows, requests, counters, GoTo, ProcessEnds, CheckNoRun,
        InsertRun, InsertRunFails, InsertVerification, ClaimJob, EndOrphanRun, RunStages,
        JudgeRequirements, StoreOutcomes, OpenThread, Finish, EndOrphanJob, Serve, ClaimNothing,
        WorkerStatementFails, VerificationStatementFails, EndOrphansFails, LockRunsOut, Stop, Start
  <2>2. CASE Execute \/ Save \/ Fail \/ Abort \/ ExecuteVerification \/ FinishVerification \/ FailVerification
    <3>1. \/ UNCHANGED status
          \/ \E r \in Run, s \in {"queued", "running", "complete", "failed"} : status' = [status EXCEPT ![r] = s]
          \/ \E r \in Run : FailActive(r)
      BY <1>0, <2>2 DEF Execute, Save, Fail, Abort, ExecuteVerification, FinishVerification, FailVerification, Now
    <3> QED
      BY <1>0, <3>1 DEF FailActive, Active, Ended
  <2> QED
    BY <1>0, <2>1, <2>2 DEF FailActive, Active, Ended
<1>2. before' \in [Run -> {"none"} \cup Ended]
  <2>1. UNCHANGED before \/ Execute
    BY
    DEF Next, WorkerStep, vars, verification, rows, requests, counters, GoTo, ProcessEnds, CheckNoRun,
        InsertRun, InsertRunFails, InsertVerification, ClaimJob, EndOrphanRun, RunStages, Save, Fail,
        Abort, ExecuteVerification, JudgeRequirements, StoreOutcomes, OpenThread, FinishVerification,
        FailVerification, Finish, EndOrphanJob, Serve, ClaimNothing, WorkerStatementFails,
        VerificationStatementFails, EndOrphansFails, LockRunsOut, Stop, Start
  <2> QED
    BY <1>0, <2>1 DEF Execute, NoteAgain
<1>3. docOf' \in [Run -> Doc \cup {NoDoc}]
  <2>1. UNCHANGED docOf \/ \E c \in Client, r \in Run : InsertRun(c, r)
    BY
    DEF Next, WorkerStep, vars, verification, rows, requests, counters, GoTo, ProcessEnds, CheckNoRun,
        InsertRunFails, InsertVerification, ClaimJob, EndOrphanRun, Execute, RunStages, Save, Fail,
        Abort, ExecuteVerification, JudgeRequirements, StoreOutcomes, OpenThread, FinishVerification,
        FailVerification, Finish, EndOrphanJob, Serve, ClaimNothing, WorkerStatementFails,
        VerificationStatementFails, EndOrphansFails, LockRunsOut, Stop, Start
  <2> QED
    BY <1>0, <2>1 DEF InsertRun
<1>4. ASSUME NEW r \in Run, NEW s \in {"queued", "running", "ended"}, job' = [job EXCEPT ![r] = s],
             locked' \subseteq locked \cup {r}, s # "running" => r \notin locked'
      PROVE  /\ job' \in [Run -> {"none", "ended"} \cup Active]
             /\ locked' \subseteq {q \in Run : job'[q] = "running"}
  BY <1>0, <1>4 DEF Active
<1>5. /\ job' \in [Run -> {"none", "ended"} \cup Active]
      /\ locked' \subseteq {r \in Run : job'[r] = "running"}
  <2>1. ASSUME NEW r \in Run, status[r] = "none", UNCHANGED locked PROVE r \notin locked'
    BY <1>0, <2>1 DEF Rows
  <2>2. CASE \E c \in Client, r \in Run : InsertRun(c, r)
    BY <1>4, <2>1, <2>2 DEF InsertRun
  <2>3. CASE \E r \in Run : InsertVerification(r)
    BY <1>4, <2>1, <2>3 DEF InsertVerification
  <2>4. CASE \E r \in Run : ClaimJob(r)
    BY <1>4, <2>4 DEF ClaimJob
  <2>5. CASE Finish \/ EndOrphanJob
    BY <1>0, <1>4, <2>5 DEF Finish, EndOrphanJob, EndJob
  <2>6. CASE UNCHANGED job /\ locked' \subseteq locked
    BY <1>0, <2>6
  <2> QED
    BY <2>2, <2>3, <2>4, <2>5, <2>6
    DEF Next, WorkerStep, vars, verification, rows, requests, counters, GoTo, ProcessEnds, CheckNoRun,
        InsertRunFails, EndOrphanRun, Execute, RunStages, Save, Fail, Abort, ExecuteVerification,
        JudgeRequirements, StoreOutcomes, OpenThread, FinishVerification, FailVerification, Serve,
        ClaimNothing, WorkerStatementFails, VerificationStatementFails, EndOrphansFails, LockRunsOut,
        Stop, Start
<1>6. verdict' \subseteq Run \ verifies' /\ verifies' \cup stranded' \subseteq Run
  <2>1. CASE \E r \in Run : InsertVerification(r)
    BY <1>0, <2>1 DEF InsertVerification, Rows
  <2>2. CASE Save
    BY <1>0, <2>2 DEF Save, Works, Reviews, verification
  <2>3. CASE VerificationStatementFails
    BY <1>0, <2>3 DEF VerificationStatementFails, rows, GoTo
  <2>4. CASE UNCHANGED <<verdict, verifies, stranded>>
    BY <1>0, <2>4
  <2> QED
    BY <2>1, <2>2, <2>3, <2>4
    DEF Next, WorkerStep, vars, verification, rows, requests, counters, GoTo, ProcessEnds, CheckNoRun,
        InsertRun, InsertRunFails, ClaimJob, EndOrphanRun, Execute, RunStages, Fail, Abort,
        ExecuteVerification, JudgeRequirements, StoreOutcomes, OpenThread, FinishVerification,
        FailVerification, Finish, EndOrphanJob, Serve, ClaimNothing, WorkerStatementFails,
        EndOrphansFails, LockRunsOut, Stop, Start
<1> QED
  BY <1>1, <1>2, <1>3, <1>5, <1>6

LEMMA RestTypes ==
    ASSUME IInv, [Next]_vars
    PROVE  /\ hosted' \in BOOLEAN
           /\ process' \in {"down", "starting", "up"}
           /\ starting' \in [Client -> Doc \cup {NoDoc}]
           /\ startMu' \in Client \cup {NoClient}
           /\ worker' \in Steps
           /\ claimed' \in Run \cup {0}
           /\ claimed' = 0 <=> worker' \in {"idle", "list orphans"}
           /\ stops' \in Nat
           /\ errors' \in 0 .. MaxErrors
<1>0. /\ TypeOK /\ Works /\ 0 \notin Run
      /\ starting \in [Client -> Doc \cup {NoDoc}]
      /\ startMu \in Client \cup {NoClient}
      /\ worker \in Steps
      /\ stops \in Nat
  BY Typed, RunsFromOne DEF IInv, TypeOK
<1>1. hosted' \in BOOLEAN /\ process' \in {"down", "starting", "up"}
  <2>1. UNCHANGED hosted /\ process' \in {process, "down", "starting", "up"}
    BY
    DEF Next, WorkerStep, vars, verification, rows, requests, counters, GoTo, ProcessEnds, CheckNoRun,
        InsertRun, InsertRunFails, InsertVerification, ClaimJob, EndOrphanRun, Execute, RunStages, Save,
        Fail, Abort, ExecuteVerification, JudgeRequirements, StoreOutcomes, OpenThread,
        FinishVerification, FailVerification, Finish, EndOrphanJob, Serve, ClaimNothing,
        WorkerStatementFails, VerificationStatementFails, EndOrphansFails, LockRunsOut, Stop, Start
  <2> QED
    BY <1>0, <2>1 DEF TypeOK
<1>2. starting' \in [Client -> Doc \cup {NoDoc}] /\ startMu' \in Client \cup {NoClient}
  <2>1. CASE \E c \in Client, d \in Doc : CheckNoRun(c, d)
    BY <1>0, <2>1 DEF CheckNoRun
  <2>2. CASE \E c \in Client : InsertRunFails(c) \/ \E r \in Run : InsertRun(c, r)
    BY <1>0, <2>2 DEF InsertRunFails, InsertRun, StartReturns
  <2>3. CASE Stop \/ EndOrphansFails
    BY <2>3 DEF Stop, EndOrphansFails, ProcessEnds
  <2>4. CASE UNCHANGED <<starting, startMu>>
    BY <1>0, <2>4
  <2> QED
    BY <2>1, <2>2, <2>3, <2>4
    DEF Next, WorkerStep, vars, verification, rows, requests, counters, GoTo, InsertVerification,
        ClaimJob, EndOrphanRun, Execute, RunStages, Save, Fail, Abort, ExecuteVerification,
        JudgeRequirements, StoreOutcomes, OpenThread, FinishVerification, FailVerification, Finish,
        EndOrphanJob, Serve, ClaimNothing, WorkerStatementFails, VerificationStatementFails, LockRunsOut,
        Start
<1>3. worker' \in Steps /\ claimed' \in Run \cup {0} /\ (claimed' = 0 <=> worker' \in {"idle", "list orphans"})
  <2>1. /\ claimed \in Run \cup {0}
        /\ claimed = 0 <=> worker \in {"idle", "list orphans"}
    BY <1>0 DEF TypeOK
  <2>2. \/ UNCHANGED claimed /\ UNCHANGED worker
        \/ UNCHANGED claimed /\ worker' \in Steps \ {"idle", "list orphans"} /\ worker \notin {"idle", "list orphans"}
        \/ UNCHANGED claimed /\ {worker, worker'} \subseteq {"idle", "list orphans"}
        \/ claimed' \in Run /\ worker' \in Steps \ {"idle", "list orphans"}
        \/ claimed' = 0 /\ worker' \in {"idle", "list orphans"}
    BY <1>0
    DEF Next, WorkerStep, vars, verification, rows, requests, counters, GoTo, ProcessEnds, Works, Steps,
        CheckNoRun, InsertRun, InsertRunFails, InsertVerification, ClaimJob, EndOrphanRun, Execute,
        RunStages, Save, Fail, Abort, ExecuteVerification, JudgeRequirements, StoreOutcomes, OpenThread,
        FinishVerification, FailVerification, Finish, EndOrphanJob, Serve, ClaimNothing,
        WorkerStatementFails, VerificationStatementFails, EndOrphansFails, LockRunsOut, Stop, Start
  <2> QED
    BY <1>0, <2>1, <2>2 DEF Steps
<1>4. stops' \in Nat /\ errors' \in 0 .. MaxErrors
  <2>1. /\ stops' = stops \/ stops' = stops + 1
        /\ errors' = errors \/ StatementFails
    BY
    DEF Next, WorkerStep, vars, verification, rows, requests, counters, GoTo, ProcessEnds, CheckNoRun,
        InsertRun, InsertRunFails, InsertVerification, ClaimJob, EndOrphanRun, Execute, RunStages, Save,
        Fail, Abort, ExecuteVerification, JudgeRequirements, StoreOutcomes, OpenThread,
        FinishVerification, FailVerification, Finish, EndOrphanJob, Serve, ClaimNothing,
        WorkerStatementFails, VerificationStatementFails, EndOrphansFails, LockRunsOut, Stop, Start
  <2>2. errors \in 0 .. MaxErrors /\ MaxErrors \in Nat
    BY <1>0, BoundsAssumption DEF TypeOK
  <2> QED
    BY <1>0, <2>1, <2>2 DEF StatementFails
<1> QED
  BY <1>1, <1>2, <1>3, <1>4

LEMMA Initially == Init => IInv
<1> SUFFICES ASSUME Init PROVE IInv
  OBVIOUS
<1>1. \A r \in Run : /\ status[r] = "none" /\ docOf[r] = NoDoc /\ job[r] = "none" /\ before[r] = "none"
                     /\ outcomes[r] = 0 /\ threads[r] = 0 /\ cut[r] = 0
  BY DEF Init
<1>2. 0 \in 0 .. MaxTroubles + 1 /\ 0 \in 0 .. MaxTroubles /\ 0 \in 0 .. MaxErrors
  BY BoundsAssumption
<1>3. TypeOK
  BY <1>2, ModesAssumption, RunsFromOne DEF Init, TypeOK, Active, Ended, Steps
<1>4. Rows /\ Starts
  BY <1>1 DEF Init, Rows, Starts, ExecutedAgain, Unended, ActiveOf, Active
<1>5. Works /\ Outcomes
  BY <1>2, BoundsAssumption DEF Init, Works, Outcomes
<1> QED
  BY <1>3, <1>4, <1>5 DEF IInv

LEMMA Sums ==
    ASSUME NEW m \in Nat, NEW a \in Nat, NEW b \in Nat, a + b <= m
    PROVE  /\ a \in 0 .. m
           /\ \A n \in Nat : n <= 1 + a + b => n \in 0 .. m + 1
OBVIOUS

LEMMA Step == IInv /\ [Next]_vars => IInv'
<1> SUFFICES ASSUME IInv, [Next]_vars PROVE IInv'
  OBVIOUS
<1>1. Rows' /\ Starts' /\ Works' /\ Outcomes' /\ Counted'
  BY RowsStep, StartsStep, WorksStep, OutcomesStep, CountedStep DEF IInv
<1>2. stops' \in Nat /\ errors' \in Nat /\ stops' + errors' <= MaxTroubles /\ MaxTroubles \in Nat
  <2>1. stops' \in Nat /\ errors' \in 0 .. MaxErrors
    BY RestTypes
  <2> QED
    BY <1>1, <2>1, BoundsAssumption DEF Outcomes
<1>3. \A r \in Run : {outcomes'[r], threads'[r], cut'[r]} \subseteq 0 .. MaxTroubles + 1
  <2>1. ASSUME NEW r \in Run PROVE outcomes'[r] \in Nat /\ threads'[r] \in Nat /\ cut'[r] \in Nat
    BY <1>1 DEF Counted
  <2>2. ASSUME NEW r \in Run, r \in verifies' PROVE {outcomes'[r], threads'[r], cut'[r]} \subseteq 0 .. MaxTroubles + 1
    <3>1. cut'[r] <= stops' /\ outcomes'[r] <= 1 + stops' + errors' /\ threads'[r] <= outcomes'[r]
      BY <1>1, <2>2 DEF Outcomes
    <3>2. outcomes'[r] \in Nat /\ threads'[r] \in Nat /\ cut'[r] \in Nat
      BY <2>1, <2>2
    <3> DEFINE a == stops'
               b == errors'
               o == outcomes'[r]
               t == threads'[r]
               u == cut'[r]
    <3>3. a \in Nat /\ b \in Nat /\ o \in Nat /\ t \in Nat /\ u \in Nat /\ u <= a /\ o <= 1 + a + b /\ t <= o
      BY <1>2, <3>1, <3>2
    <3>4. a + b <= MaxTroubles /\ MaxTroubles \in Nat
      BY <1>2
    <3> HIDE DEF a, b, o, t, u
    <3>5. u <= 1 + a + b /\ t <= 1 + a + b
      BY <3>3
    <3>6. {o, t, u} \subseteq 0 .. MaxTroubles + 1
      BY <3>3, <3>4, <3>5, Sums
    <3> QED
      BY <3>6 DEF o, t, u
  <2>3. ASSUME NEW r \in Run, r \notin verifies' PROVE {outcomes'[r], threads'[r], cut'[r]} \subseteq 0 .. MaxTroubles + 1
    BY <1>1, <1>2, <2>3 DEF Rows
  <2> QED
    BY <2>2, <2>3
<1>4. {outcomes', threads', cut'} \subseteq [Run -> 0 .. MaxTroubles + 1]
  BY <1>1, <1>3 DEF Counted
<1>5. stops' \in 0 .. MaxTroubles
  BY <1>2, Sums
<1>6. TypeOK'
  BY <1>4, <1>5, RowTypes, RestTypes DEF TypeOK
<1> QED
  BY <1>1, <1>6 DEF IInv

LEMMA Invariance == Spec => []IInv
BY Initially, Step, PTL DEF Spec

-----------------------------------------------------------------------------
(* The lifecycle of a review. *)

\* The status of a review, as ReviewLifecycle sees it.
Seen == [r \in Run |-> CASE r \in verifies -> "none"
                         [] r \in ExecutedAgain -> before[r]
                         [] OTHER -> status[r]]

\* What ReviewLifecycle sees of a run: nothing, where only verifications and
\* runs that are executed again move.
LEMMA SeenAs ==
    ASSUME IInv, NEW r \in Run
    PROVE  /\ r \in verifies => Seen[r] = "none"
           /\ r \notin verifies /\ before[r] # "none" => Seen[r] = before[r]
           /\ r \notin verifies /\ before[r] = "none" => Seen[r] = status[r]
<1>1. r \in verifies => r \notin ExecutedAgain
  BY DEF IInv, Rows, ExecutedAgain
<1>2. CASE r \in verifies
  BY <1>1, <1>2 DEF Seen
<1>3. CASE r \notin verifies /\ before[r] # "none"
  <2>1. r \in ExecutedAgain
    BY <1>3 DEF ExecutedAgain
  <2> QED
    BY <1>3, <2>1 DEF Seen
<1>4. CASE r \notin verifies /\ before[r] = "none"
  <2>1. r \notin ExecutedAgain
    BY <1>4 DEF ExecutedAgain
  <2> QED
    BY <1>4, <2>1 DEF Seen
<1> QED
  BY <1>2, <1>3, <1>4

\* A first run that moves alone.
LEMMA SeenFollows ==
    ASSUME UNCHANGED <<verifies, before>>, NEW r \in Run, NEW to, r \notin verifies, r \notin ExecutedAgain,
           status \in [Run -> {"none", "queued", "running", "complete", "failed"}],
           status' = [status EXCEPT ![r] = to]
    PROVE  Seen[r] = status[r] /\ Seen' = [Seen EXCEPT ![r] = to]
<1>1. Seen[r] = status[r]
  BY DEF Seen
<1>2. ExecutedAgain' = ExecutedAgain
  BY DEF ExecutedAgain
<1>3. Seen'[r] = to
  BY <1>2 DEF Seen
<1>4. ASSUME NEW q \in Run, q # r PROVE Seen'[q] = Seen[q]
  <2>1. status'[q] = status[q] /\ before'[q] = before[q]
    BY <1>4
  <2> QED
    BY <1>2, <2>1 DEF Seen
<1>5. Seen' = [q \in Run |-> Seen'[q]] /\ Seen = [q \in Run |-> Seen[q]]
  BY DEF Seen
<1> QED
  BY <1>1, <1>3, <1>4, <1>5

LEMMA SeenStays ==
    ASSUME UNCHANGED <<verifies, before>>,
           \A r \in Run : r \in verifies \/ r \in ExecutedAgain \/ status'[r] = status[r]
    PROVE  Seen' = Seen
BY DEF Seen, ExecutedAgain

Moves(r, from, to) ==
    /\ Seen[r] \in from
    /\ Seen' = [Seen EXCEPT ![r] = to]
    /\ UNCHANGED docOf

LEMMA SeenMoves ==
    ASSUME IInv, UNCHANGED <<verifies, before, docOf>>, NEW r \in Run,
           NEW from, NEW to, status[r] \in from \/ r \in ExecutedAgain, status' = [status EXCEPT ![r] = to]
    PROVE  UNCHANGED <<Seen, docOf>> \/ Moves(r, from, to)
<1>0. status \in [Run -> {"none", "queued", "running", "complete", "failed"}]
  BY Typed DEF IInv
<1>1. CASE r \in verifies \/ r \in ExecutedAgain
  BY <1>0, <1>1, SeenStays
<1>2. CASE r \notin verifies /\ r \notin ExecutedAgain
  BY <1>0, <1>2, SeenFollows DEF Moves
<1> QED
  BY <1>1, <1>2

LEMMA StepsOfAReview ==
    ASSUME IInv, [Next]_vars
    PROVE  \/ UNCHANGED <<Seen, docOf>>
           \/ \E r \in Run, d \in Doc :
                 /\ Seen[r] = "none"
                 /\ \A q \in Run : docOf[q] = d => Seen[q] \notin Active
                 /\ Seen' = [Seen EXCEPT ![r] = "queued"]
                 /\ docOf' = [docOf EXCEPT ![r] = d]
           \/ \E r \in Run : \/ Moves(r, {"queued"}, "running")
                             \/ Moves(r, {"running"}, "complete")
                             \/ Moves(r, Active, "failed")
<1> DEFINE Goal ==
       \/ UNCHANGED <<Seen, docOf>>
       \/ \E r \in Run, d \in Doc :
             /\ Seen[r] = "none"
             /\ \A q \in Run : docOf[q] = d => Seen[q] \notin Active
             /\ Seen' = [Seen EXCEPT ![r] = "queued"]
             /\ docOf' = [docOf EXCEPT ![r] = d]
       \/ \E r \in Run : \/ Moves(r, {"queued"}, "running")
                         \/ Moves(r, {"running"}, "complete")
                         \/ Moves(r, Active, "failed")
<1> SUFFICES Goal
  OBVIOUS
<1>0. /\ Rows /\ Starts /\ Works
      /\ status \in [Run -> {"none", "queued", "running", "complete", "failed"}]
      /\ before \in [Run -> {"none", "complete", "failed"}]
      /\ docOf \in [Run -> Doc \cup {NoDoc}]
      /\ starting \in [Client -> Doc \cup {NoDoc}]
      /\ worker \notin {"idle", "list orphans"} => claimed \in Run /\ status[claimed] # "none"
  BY Typed, RunsFromOne DEF IInv, Works, TypeOK
<1>1. ASSUME NEW c \in Client, NEW r \in Run, InsertRun(c, r) PROVE Goal
  <2> DEFINE d == starting[c]
  <2>1. /\ d \in Doc /\ Unended(d) = {} /\ status[r] = "none"
        /\ UNCHANGED <<verifies, before>>
        /\ status' = [status EXCEPT ![r] = "queued"]
        /\ docOf' = [docOf EXCEPT ![r] = d]
    BY <1>0, <1>1 DEF InsertRun, Starts, verification
  <2>2. r \notin verifies /\ r \notin ExecutedAgain
    BY <1>0, <2>1 DEF Rows
  <2>3. Seen[r] = "none" /\ Seen' = [Seen EXCEPT ![r] = "queued"]
    BY <1>0, <2>1, <2>2, SeenFollows
  <2>4. ASSUME NEW q \in Run, docOf[q] = d PROVE Seen[q] \notin Active
    <3>1. before[q] = "none" => status[q] \notin Active
      BY <2>1, <2>4 DEF Unended, ActiveOf, ExecutedAgain
    <3> QED
      BY <1>0, <3>1, SeenAs DEF Active
  <2> QED
    BY <2>1, <2>3, <2>4
<1>2. ASSUME NEW r \in Run, InsertVerification(r) PROVE Goal
  <2>1. /\ UNCHANGED <<docOf, before>> /\ status[r] = "none" /\ verifies' = verifies \cup {r}
        /\ \A q \in Run \ {r} : status'[q] = status[q]
    BY <1>0, <1>2 DEF InsertVerification
  <2>2. r \notin ExecutedAgain /\ r \notin verifies
    BY <1>0, <2>1 DEF Rows
  <2>3. \A q \in Run : Seen'[q] = Seen[q]
    BY <2>1, <2>2 DEF Seen, ExecutedAgain
  <2>4. Seen' = Seen
    BY <2>3 DEF Seen
  <2> QED
    BY <2>1, <2>4
<1>3. CASE Execute
  <2>1. /\ UNCHANGED <<docOf, verifies>> /\ claimed \in Run \ verifies /\ status[claimed] # "none"
        /\ status' = status \/ status' = [status EXCEPT ![claimed] = "running"]
        /\ before' = [before EXCEPT ![claimed] =
                         IF before[claimed] = "none" /\ status[claimed] \in Ended THEN status[claimed] ELSE before[claimed]]
    BY <1>0, <1>3 DEF Execute, Now, NoteAgain, Reviews, verification
  <2>2. CASE before[claimed] = "none" /\ status[claimed] \in Ended
    <3>1. \A r \in Run \ {claimed} : status'[r] = status[r] /\ before'[r] = before[r]
      BY <1>0, <2>1
    <3>2. before'[claimed] = status[claimed] /\ status[claimed] # "none"
      BY <1>0, <2>1, <2>2
    <3>3. \A r \in Run : Seen'[r] = Seen[r]
      BY <2>1, <2>2, <3>1, <3>2 DEF Seen, ExecutedAgain
    <3>4. Seen' = Seen
      BY <3>3 DEF Seen
    <3> QED
      BY <2>1, <3>4
  <2>3. CASE before[claimed] # "none" \/ status[claimed] \notin Ended
    <3>1. before' = before
      BY <1>0, <2>1, <2>3
    <3>2. status[claimed] \in {"queued"} \/ status[claimed] = "running" \/ claimed \in ExecutedAgain
      BY <1>0, <2>1, <2>3 DEF Ended, ExecutedAgain
    <3>3. CASE status' = status
      BY <2>1, <3>1, <3>3, SeenStays
    <3>4. CASE status' = [status EXCEPT ![claimed] = "running"] /\ status[claimed] = "running"
      BY <1>0, <2>1, <3>1, <3>4, SeenStays
    <3>5. CASE /\ status' = [status EXCEPT ![claimed] = "running"]
               /\ status[claimed] \in {"queued"} \/ claimed \in ExecutedAgain
      BY <2>1, <3>1, <3>5, SeenMoves
    <3> QED
      BY <2>1, <3>2, <3>3, <3>4, <3>5
  <2> QED
    BY <2>2, <2>3
<1>4. CASE Save
  <2>1. /\ UNCHANGED <<docOf, verifies, before>> /\ claimed \in Run /\ status[claimed] \in {"running"}
        /\ status' = status \/ status' = [status EXCEPT ![claimed] = "complete"]
    BY <1>0, <1>4 DEF Save, Now, Works, verification
  <2>2. CASE status' = status
    BY <2>1, <2>2, SeenStays
  <2>3. CASE status' = [status EXCEPT ![claimed] = "complete"]
    BY <2>1, <2>3, SeenMoves
  <2> QED
    BY <2>1, <2>2, <2>3
<1>5. CASE Fail
  <2>1. /\ UNCHANGED <<docOf, verifies, before>> /\ claimed \in Run
        /\ status[claimed] \in Active \/ claimed \in ExecutedAgain
        /\ status' = [status EXCEPT ![claimed] = "failed"]
    BY <1>0, <1>5 DEF Fail, Now, Works, verification
  <2> QED
    BY <2>1, SeenMoves
<1>6. ASSUME NEW r \in Run, FailActive(r), UNCHANGED <<docOf, verifies, before>> PROVE Goal
  <2>1. CASE status[r] \in Active
    <3>1. status' = [status EXCEPT ![r] = "failed"]
      BY <1>0, <1>6, <2>1 DEF FailActive
    <3> QED
      BY <1>6, <2>1, <3>1, SeenMoves
  <2>2. CASE status[r] \notin Active
    BY <1>0, <1>6, <2>2, SeenStays DEF FailActive
  <2> QED
    BY <2>1, <2>2
<1>7. CASE Abort \/ \E r \in Run : EndOrphanRun(r)
  BY <1>0, <1>6, <1>7 DEF Abort, EndOrphanRun, verification
<1>8. CASE ExecuteVerification \/ FinishVerification \/ FailVerification
  <2>1. /\ UNCHANGED <<docOf, verifies, before>> /\ claimed \in verifies
        /\ \A r \in Run \ {claimed} : status'[r] = status[r]
    BY <1>0, <1>8 DEF ExecuteVerification, FinishVerification, FailVerification, Works, Reviews, Now, verification
  <2> QED
    BY <2>1, SeenStays
<1>9. CASE UNCHANGED <<status, docOf, verifies, before>>
  BY <1>9, SeenStays
<1> QED
  BY <1>1, <1>2, <1>3, <1>4, <1>5, <1>7, <1>8, <1>9
    DEF Next, WorkerStep, vars, verification, rows, requests, counters, GoTo, ProcessEnds, CheckNoRun,
        InsertRunFails, ClaimJob, RunStages, JudgeRequirements, StoreOutcomes, OpenThread, Finish,
        EndOrphanJob, Serve, ClaimNothing, WorkerStatementFails, VerificationStatementFails,
        EndOrphansFails, LockRunsOut, Stop, Start

\* The queue implements ReviewLifecycle, for any reviews and docs: StartRun, the
\* worker and the end of the orphans move a review as the lifecycle does, and a
\* review that is executed again stays as it first ended.
THEOREM QueueImplementsLifecycle == Spec => ImplementsLifecycle
<1>1. Init => Lifecycle!Init
  BY DEF Init, Lifecycle!Init, ExecutedAgain
<1>2. IInv /\ [Next]_vars => [Lifecycle!Next]_(Lifecycle!vars)
  <2> SUFFICES ASSUME IInv, [Next]_vars PROVE [Lifecycle!Next]_(Lifecycle!vars)
    OBVIOUS
  <2>1. CASE UNCHANGED <<Seen, docOf>>
    BY <2>1 DEF Seen, Lifecycle!vars
  <2>2. ASSUME NEW r \in Run, NEW d \in Doc,
               Seen[r] = "none",
               \A q \in Run : docOf[q] = d => Seen[q] \notin Active,
               Seen' = [Seen EXCEPT ![r] = "queued"],
               docOf' = [docOf EXCEPT ![r] = d]
        PROVE  Lifecycle!Start(r, d)
    BY <2>2 DEF Seen, Lifecycle!Start, Lifecycle!ActiveOf, Lifecycle!Active, Active
  <2>3. ASSUME NEW r \in Run, NEW from, NEW to, Moves(r, from, to) PROVE Lifecycle!Move(r, from, to)
    BY <2>3 DEF Moves, Seen, Lifecycle!Move
  <2> QED
    BY <2>1, <2>2, <2>3, StepsOfAReview DEF Lifecycle!Next, Lifecycle!Active, Active
<1> QED
  BY <1>1, <1>2, Invariance, PTL DEF Spec, ImplementsLifecycle, Lifecycle!Spec

-----------------------------------------------------------------------------
(* Theorems. *)

\* The rows of the store, the requests, the worker and the counters have the
\* values that the code gives them.
THEOREM TypeCorrect == Spec => []TypeOK
<1>1. IInv => TypeOK
  BY DEF IInv
<1> QED
  BY <1>1, Invariance, PTL

\* A doc has one queued or running review at most, besides those that a hosted
\* process executes again, however the starts of its clients interleave.
THEOREM OneActive == Spec => []OneActiveRun
<1>1. IInv => OneActiveRun
  <2> SUFFICES ASSUME IInv, NEW d \in Doc PROVE Cardinality(Unended(d)) <= 1
    BY DEF OneActiveRun, Unended
  <2>1. \A q, r \in Unended(d) : q = r
    BY DEF IInv, Starts
  <2>2. CASE Unended(d) = {}
    BY <2>2, FS_EmptySet
  <2>3. CASE Unended(d) # {}
    <3>1. PICK r \in Unended(d) : Unended(d) = {r}
      BY <2>1, <2>3
    <3> QED
      BY <3>1, FS_Singleton
  <2> QED
    BY <2>2, <2>3
<1> QED
  BY <1>1, Invariance, PTL

\* A verification that is done has its thread, and has no more outcomes than it
\* was cut off, and one: for any errors of the store and stops of the process.
THEOREM ThreadsOfOutcomes == Spec => []OneThreadOfAnOutcome
<1>1. IInv => OneThreadOfAnOutcome
  BY DEF IInv, Outcomes, OneThreadOfAnOutcome
<1> QED
  BY <1>1, Invariance, PTL

-----------------------------------------------------------------------------
(* The verdict. *)

\* More findings, more open threads or a missing link never make a doc ready:
\* Decide is monotone, so a stage that adds its findings later cannot turn Not
\* Build Ready into Build Ready.
THEOREM MoreNeverReadies ==
    ASSUME NEW few, NEW many, NEW s \in Verdict!Setting, NEW t \in Verdict!Setting,
           DOMAIN few \subseteq DOMAIN many,
           \A i \in DOMAIN few : many[i] = few[i],
           s.openThreads <= t.openThreads,
           s.upstreamRequired => t.upstreamRequired,
           t.hasUpstream => s.hasUpstream,
           Verdict!DecideResult(many, t) = "build_ready"
    PROVE  Verdict!DecideResult(few, s) = "build_ready"
<1>1. /\ Verdict!BlockingFindings(many) = {}
      /\ ~(t.openThreads > 0)
      /\ ~(t.upstreamRequired /\ ~t.hasUpstream)
  BY DEF Verdict!DecideResult
<1>2. Verdict!BlockingFindings(few) = {}
  BY <1>1 DEF Verdict!BlockingFindings
<1>3. s.openThreads \in Nat /\ t.openThreads \in Nat
  BY DEF Verdict!Setting
<1>4. ~(s.openThreads > 0)
  BY <1>1, <1>3
<1> QED
  BY <1>1, <1>2, <1>4 DEF Verdict!DecideResult

LEMMA RoundedQuotient ==
    ASSUME NEW a \in Nat, NEW b \in Nat \ {0}
    PROVE  /\ a \div b \in Nat
           /\ b * (a \div b) <= a
           /\ a < b * (a \div b) + b
OBVIOUS

LEMMA ProductOrder ==
    ASSUME NEW b \in Nat \ {0}, NEW q \in Int, NEW r \in Int, b * q < b * r + b
    PROVE  q <= r
<1> SUFFICES ASSUME q >= r + 1 PROVE FALSE
  OBVIOUS
<1>1. b * q >= b * (r + 1)
  OBVIOUS
<1>2. b * (r + 1) = b * r + b
  OBVIOUS
<1> QED
  BY <1>1, <1>2

\* The score is the whole number nearest to the percentage, and a half is rounded
\* up, as math.Round does.
THEOREM ScoreRounds ==
    ASSUME NEW n \in Nat \ {0}, NEW p \in 0 .. n
    PROVE  /\ -n < (2 * n) * Verdict!Score(p, n) - 200 * p
           /\ (2 * n) * Verdict!Score(p, n) - 200 * p <= n
<1> DEFINE score == (200 * p + n) \div (2 * n)
<1>1. Verdict!Score(p, n) = score
  BY DEF Verdict!Score
<1>2. 2 * n \in Nat \ {0} /\ 200 * p + n \in Nat
  OBVIOUS
<1>3. score \in Nat /\ (2 * n) * score <= 200 * p + n /\ 200 * p + n < (2 * n) * score + 2 * n
  BY <1>2, RoundedQuotient
<1> HIDE DEF score
<1>4. (2 * n) * score \in Nat
  BY <1>2, <1>3
<1> QED
  BY <1>1, <1>3, <1>4

\* The score is a percentage, and a doc that passes more of the same items does
\* not get a lower one.
THEOREM ScoreIsMonotone ==
    ASSUME NEW n \in Nat, NEW p \in 0 .. n, NEW q \in p .. n
    PROVE  /\ Verdict!Score(p, n) \in 0 .. 100
           /\ Verdict!Score(p, n) <= Verdict!Score(q, n)
<1>1. CASE n = 0
  BY <1>1 DEF Verdict!Score
<1>2. CASE n # 0
  <2> DEFINE low == (200 * p + n) \div (2 * n)
             high == (200 * q + n) \div (2 * n)
  <2>1. Verdict!Score(p, n) = low /\ Verdict!Score(q, n) = high
    BY <1>2 DEF Verdict!Score
  <2>2. 2 * n \in Nat \ {0} /\ 200 * p + n \in Nat /\ 200 * q + n \in Nat
    BY <1>2
  <2>3. low \in Nat /\ (2 * n) * low <= 200 * p + n
    BY <2>2, RoundedQuotient
  <2>4. high \in Nat /\ 200 * q + n < (2 * n) * high + 2 * n
    BY <2>2, RoundedQuotient
  <2>5. 200 * p + n < (2 * n) * 100 + 2 * n
    BY <1>2
  <2>6. low <= 100
    <3> HIDE DEF low
    <3>1. (2 * n) * low < (2 * n) * 100 + 2 * n
      BY <2>2, <2>3, <2>5
    <3> QED
      BY <2>2, <2>3, <3>1, ProductOrder
  <2>7. low <= high
    <3> HIDE DEF low, high
    <3>1. (2 * n) * low < (2 * n) * high + 2 * n
      BY <2>2, <2>3, <2>4
    <3> QED
      BY <2>2, <2>3, <2>4, <3>1, ProductOrder
  <2> QED
    BY <2>1, <2>3, <2>6, <2>7
<1> QED
  BY <1>1, <1>2

-----------------------------------------------------------------------------
(* Verification. *)

\* An outcome blocks only a MUST without an approved waiver, and only where no
\* target holds, or two judges found the code to contradict a requirement that
\* parses: one judge alone never blocks.
LEMMA BlocksForCause ==
    ASSUME NEW it \in Verification!Item, Verification!Blocks(it)
    PROVE  /\ it.level = "must" /\ ~it.waived
           /\ \/ \A t \in it.targets : ~Verification!Holds(t)
              \/ it.judgement = "contradicted" /\ it.confirmed /\ it.parsed
<1>1. ~it.waived /\ Verification!LevelOf(it) = "must" /\ Verification!OutcomeOf(it) \in {"missing", "breached"}
  BY DEF Verification!Blocks
<1>2. CASE Verification!OutcomeOf(it) = "missing"
  <2>1. it.level = "must"
    BY <1>1, <1>2 DEF Verification!LevelOf
  <2>2. ~Verification!Held(it, "code") /\ ~Verification!Held(it, "test")
    BY <1>2 DEF Verification!OutcomeOf
  <2>3. \A t \in it.targets : t.kind \in {"code", "test"}
    BY DEF Verification!Item, Verification!Target, Verification!Kind
  <2> QED
    BY <1>1, <2>1, <2>2, <2>3 DEF Verification!Held
<1>3. CASE Verification!OutcomeOf(it) = "breached"
  <2>1. it.judgement = "contradicted" /\ it.confirmed
    BY <1>3 DEF Verification!OutcomeOf
  <2>2. it.level = "must" /\ it.parsed
    BY <1>1, <1>3 DEF Verification!LevelOf, Verification!Item
  <2> QED
    BY <1>1, <2>1, <2>2
<1> QED
  BY <1>1, <1>2, <1>3

\* More evidence never makes an outcome block: a builder loses nothing by naming
\* one more target, even one that does not hold.
THEOREM EvidenceNeverBlocks ==
    ASSUME NEW it \in Verification!Item, NEW more \in SUBSET Verification!Target, it.targets \subseteq more,
           Verification!Blocks([it EXCEPT !.targets = more])
    PROVE  Verification!Blocks(it)
<1> DEFINE other == [it EXCEPT !.targets = more]
<1>1. /\ other \in Verification!Item
      /\ other.targets = more /\ other.level = it.level /\ other.waived = it.waived
      /\ other.judgement = it.judgement /\ other.confirmed = it.confirmed /\ other.parsed = it.parsed
  BY DEF Verification!Item
<1> HIDE DEF other
<1>2. /\ it.level = "must" /\ ~it.waived
      /\ \/ \A t \in more : ~Verification!Holds(t)
         \/ it.judgement = "contradicted" /\ it.confirmed /\ it.parsed
  BY <1>1, BlocksForCause DEF other
<1>3. CASE ~Verification!Held(it, "code") /\ ~Verification!Held(it, "test")
  <2>1. Verification!OutcomeOf(it) = "missing"
    BY <1>3 DEF Verification!OutcomeOf
  <2> QED
    BY <1>2, <2>1 DEF Verification!Blocks, Verification!LevelOf
<1>4. CASE Verification!Held(it, "code") \/ Verification!Held(it, "test")
  <2>1. it.judgement = "contradicted" /\ it.confirmed /\ it.parsed
    BY <1>2, <1>4 DEF Verification!Held
  <2>2. Verification!OutcomeOf(it) = "breached"
    BY <1>4, <2>1 DEF Verification!OutcomeOf
  <2> QED
    BY <1>2, <2>1, <2>2 DEF Verification!Blocks, Verification!LevelOf
<1> QED
  BY <1>3, <1>4

-----------------------------------------------------------------------------
(* Divergence. *)

\* A set of numbers that is not empty has a least element.
LEMMA LeastElement ==
    ASSUME NEW S \in SUBSET Nat, S # {}
    PROVE  \E k \in S : \A j \in S : k <= j
<1> DEFINE R == OpToRel(<, Nat)
<1>1. IsWellFoundedOn(R, Nat)
  BY NatLessThanWellFounded
<1>2. \A x, y \in Nat : <<x, y>> \in R <=> x < y
  BY DEF OpToRel
<1> HIDE DEF R
<1>3. PICK k \in S : \A j \in S : <<j, k>> \notin R
  BY <1>1, WFMin
<1>4. \A j \in S : ~(j < k)
  <2> TAKE j \in S
  <2>1. j \in Nat /\ k \in Nat
    OBVIOUS
  <2> QED
    BY <1>2, <1>3, <2>1
<1>5. \A j \in S : j \in Nat /\ k \in Nat
  OBVIOUS
<1>6. \A j \in S : k <= j
  BY <1>4, <1>5
<1> QED
  BY <1>6

\* Groups gives a partition of the answers, whatever the judge wrote: no answer
\* is lost, none is in two groups, and no group is empty.
THEOREM GroupsPartition ==
    ASSUME NEW n \in Nat, NEW raw \in Seq(Seq(Int))
    PROVE  /\ UNION Divergence!Groups(n, raw) = Divergence!Answer(n)
           /\ {} \notin Divergence!Groups(n, raw)
           /\ \A g, h \in Divergence!Groups(n, raw) : g # h => g \cap h = {}
<1> DEFINE judged == {Divergence!Kept(n, raw, k) : k \in DOMAIN raw} \ {{}}
           alone == {{i} : i \in Divergence!LeftOut(n, raw)}
<1>1. Divergence!Groups(n, raw) = judged \cup alone
  BY DEF Divergence!Groups
<1>2. \A k \in DOMAIN raw : /\ Divergence!Kept(n, raw, k) \subseteq Divergence!Answer(n)
                            /\ Divergence!Kept(n, raw, k) \subseteq Divergence!Said(raw, k)
  BY DEF Divergence!Kept
<1>3. Divergence!LeftOut(n, raw) \subseteq Divergence!Answer(n)
  BY DEF Divergence!LeftOut
<1>4. ASSUME NEW i \in Divergence!Answer(n), i \notin Divergence!LeftOut(n, raw)
      PROVE  \E k \in DOMAIN raw : i \in Divergence!Kept(n, raw, k)
  <2> DEFINE said == {k \in DOMAIN raw : i \in Divergence!Said(raw, k)}
  <2>1. said # {} /\ said \in SUBSET Nat
    BY <1>4 DEF Divergence!LeftOut
  <2>2. PICK k \in said : \A j \in said : k <= j
    <3> HIDE DEF said
    <3> QED
      BY <2>1, LeastElement
  <2>3. \A j \in DOMAIN raw : j < k => i \notin Divergence!Said(raw, j)
    BY <2>2
  <2> QED
    BY <2>2, <2>3 DEF Divergence!Kept
<1>5. UNION Divergence!Groups(n, raw) = Divergence!Answer(n)
  <2>1. \A g \in Divergence!Groups(n, raw) : g \subseteq Divergence!Answer(n)
    BY <1>1, <1>2, <1>3
  <2>2. ASSUME NEW i \in Divergence!Answer(n) PROVE \E g \in Divergence!Groups(n, raw) : i \in g
    <3>1. CASE i \in Divergence!LeftOut(n, raw)
      BY <1>1, <3>1
    <3>2. CASE i \notin Divergence!LeftOut(n, raw)
      <4>1. PICK k \in DOMAIN raw : i \in Divergence!Kept(n, raw, k)
        BY <1>4, <3>2
      <4> QED
        BY <1>1, <4>1
    <3> QED
      BY <3>1, <3>2
  <2> QED
    BY <2>1, <2>2
<1>6. {} \notin Divergence!Groups(n, raw)
  BY <1>1
<1>7. ASSUME NEW g \in Divergence!Groups(n, raw), NEW h \in Divergence!Groups(n, raw), NEW i \in g \cap h
      PROVE  g = h
  <2>1. CASE i \in Divergence!LeftOut(n, raw)
    <3>1. \A k \in DOMAIN raw : i \notin Divergence!Kept(n, raw, k)
      BY <1>2, <2>1 DEF Divergence!LeftOut
    <3>2. g \in alone /\ h \in alone
      BY <1>1, <1>7, <3>1
    <3> QED
      BY <1>7, <3>2
  <2>2. CASE i \notin Divergence!LeftOut(n, raw)
    <3>1. g \in judged /\ h \in judged
      BY <1>1, <1>7, <2>2
    <3>2. PICK k \in DOMAIN raw : g = Divergence!Kept(n, raw, k)
      BY <3>1
    <3>3. PICK l \in DOMAIN raw : h = Divergence!Kept(n, raw, l)
      BY <3>1
    <3>4. k \in Nat /\ l \in Nat
      OBVIOUS
    <3>5. ~(k < l) /\ ~(l < k)
      BY <1>7, <3>2, <3>3 DEF Divergence!Kept
    <3> QED
      BY <3>2, <3>3, <3>4, <3>5
  <2> QED
    BY <2>1, <2>2
<1> QED
  BY <1>5, <1>6, <1>7

\* The judge cannot make readers agree by leaving their answers out: when there
\* is one group of more than one answer, the judge wrote all of them into one
\* of its groups.
THEOREM AgreementIsSaid ==
    ASSUME NEW n \in Nat, n > 1, NEW raw \in Seq(Seq(Int)), NEW g, Divergence!Groups(n, raw) = {g}
    PROVE  \E k \in DOMAIN raw : Divergence!Answer(n) \subseteq Divergence!Said(raw, k)
<1>1. g = Divergence!Answer(n)
  <2>1. UNION Divergence!Groups(n, raw) = Divergence!Answer(n)
    BY GroupsPartition
  <2> QED
    BY <2>1
<1>2. 0 \in g /\ 1 \in g
  BY <1>1 DEF Divergence!Answer
<1>3. \A i \in Divergence!LeftOut(n, raw) : g # {i}
  BY <1>2
<1>4. PICK k \in DOMAIN raw : g = Divergence!Kept(n, raw, k)
  BY <1>3 DEF Divergence!Groups
<1> QED
  BY <1>1, <1>4 DEF Divergence!Kept

\* Where a text is in a file is a range of the file that holds it.
LEMMA PlacesFit ==
    ASSUME NEW S, NEW src \in Seq(S), NEW text \in Seq(S), NEW i \in Fix!Places(src, text)
    PROVE  /\ i \in Nat /\ i + Len(text) <= Len(src)
           /\ Fix!Slice(src, i, i + Len(text)) = text
<1>1. Len(src) \in Nat /\ Len(text) \in Nat
  OBVIOUS
<1> QED BY <1>1 DEF Fix!Places

\* A patch rewrites the text that it was written for.  It rewrites it where it was, or at the one
\* place where it is; and it rewrites nothing when its range is stale and the text is at two
\* places that do not overlap (edit).
THEOREM PatchHitsOldText ==
    ASSUME NEW S, NEW src \in Seq(S), NEW pt, pt.insert = "replace",
           pt.old \in Seq(S), pt.old # <<>>, pt.start \in Nat, pt.end \in Nat
    PROVE  /\ \A e \in Fix!PatchEdit(pt, src) :
                /\ e.start \in Nat /\ e.end = e.start + Len(pt.old) /\ e.end <= Len(src)
                /\ Fix!Slice(src, e.start, e.end) = pt.old
                /\ e.text = pt.new
           /\ \A e, f \in Fix!PatchEdit(pt, src) : e = f
           /\ \A i : Fix!Places(src, pt.old) = {i} => \E e \in Fix!PatchEdit(pt, src) : e.start = i
           /\ \A i, j \in Fix!Places(src, pt.old) :
                i + Len(pt.old) <= j /\ pt.start \notin Fix!Places(src, pt.old) => Fix!PatchEdit(pt, src) = {}
<1> DEFINE n == Len(pt.old)
           places == Fix!Places(src, pt.old)
           here == pt.start \in places /\ pt.end = pt.start + n
           once == {Fix!Edit(i, i + n, pt.new) : i \in Fix!Once(src, pt.old)}
           edits == Fix!PatchEdit(pt, src)
<1>1. n \in Nat /\ n > 0
  BY EmptySeq, LenProperties
<1>2. edits = IF here THEN {Fix!Edit(pt.start, pt.end, pt.new)} ELSE once
  BY DEF Fix!PatchEdit, Fix!RangeEdit
<1>3. \A i \in places : i \in Nat /\ i + n <= Len(src) /\ Fix!Slice(src, i, i + n) = pt.old
  BY PlacesFit
<1>4. \A i \in Fix!Once(src, pt.old) : i \in places /\ \A j \in places : i <= j /\ j < i + n
  BY DEF Fix!Once
<1> HIDE DEF places, n
<1>5. ASSUME NEW e \in edits
      PROVE  \E i \in places : /\ e = [start |-> i, end |-> i + n, text |-> pt.new]
                               /\ here => i = pt.start
                               /\ ~here => \A j \in places : i <= j /\ j < i + n
  BY <1>2, <1>4, <1>5 DEF Fix!Edit
<1>6. \A e \in edits : /\ e.start \in Nat /\ e.end = e.start + n /\ e.end <= Len(src)
                       /\ Fix!Slice(src, e.start, e.end) = pt.old
                       /\ e.text = pt.new
  BY <1>3, <1>5
<1>7. ASSUME NEW e \in edits, NEW f \in edits PROVE e = f
  <2>1. PICK i \in places : /\ e = [start |-> i, end |-> i + n, text |-> pt.new]
                            /\ here => i = pt.start
                            /\ ~here => \A j \in places : i <= j /\ j < i + n
    BY <1>5
  <2>2. PICK j \in places : /\ f = [start |-> j, end |-> j + n, text |-> pt.new]
                            /\ here => j = pt.start
                            /\ ~here => \A k \in places : j <= k /\ k < j + n
    BY <1>5
  <2>3. i \in Nat /\ j \in Nat
    BY <1>3
  <2>4. i = j
    BY <2>1, <2>2, <2>3
  <2> QED BY <2>1, <2>2, <2>4
<1>8. ASSUME NEW i, places = {i} PROVE \E e \in edits : e.start = i
  <2>1. i \in Nat /\ i \in places
    BY <1>3, <1>8
  <2>2. i \in Fix!Once(src, pt.old)
    BY <1>1, <1>8, <2>1 DEF Fix!Once, places, n
  <2>3. Fix!Edit(i, pt.end, pt.new).start = i /\ Fix!Edit(i, i + n, pt.new).start = i
    BY DEF Fix!Edit
  <2>4. CASE here
    <3>1. edits = {Fix!Edit(i, pt.end, pt.new)}
      BY <1>2, <1>8, <2>4
    <3> QED BY <2>3, <3>1
  <2>5. CASE ~here
    <3>1. Fix!Edit(i, i + n, pt.new) \in edits
      BY <1>2, <2>2, <2>5
    <3> QED BY <2>3, <3>1
  <2> QED BY <2>4, <2>5
<1>9. ASSUME NEW i \in places, NEW j \in places, i + n <= j, pt.start \notin places PROVE edits = {}
  <2>1. i \in Nat /\ j \in Nat
    BY <1>3
  <2>2. ASSUME NEW e \in edits PROVE FALSE
    <3>1. PICK k \in places : \A m \in places : k <= m /\ m < k + n
      BY <1>5, <1>9, <2>2
    <3>2. k \in Nat /\ k <= i /\ j < k + n
      BY <1>3, <3>1
    <3> QED BY <1>1, <1>9, <2>1, <3>2
  <2> QED BY <2>2
<1> QED BY <1>6, <1>7, <1>8, <1>9 DEF places, n

\* A patch that adds text takes none away but blank text at the end of the file, and one that
\* adds it before a heading finds that heading, at one place (edit).
THEOREM InsertsTakeNothing ==
    ASSUME NEW S, NEW src \in Seq(S), NEW pt, pt.insert \in {"start", "end", "before"}, pt.before \in S,
           NEW e \in Fix!PatchEdit(pt, src)
    PROVE  /\ e.start \in Nat /\ e.end \in Nat /\ e.start <= e.end /\ e.end <= Len(src)
           /\ \A i \in e.start + 1 .. e.end : src[i] = Fix!Blank
           /\ pt.insert = "before" => src[e.start + 1] = pt.before
           /\ \A f \in Fix!PatchEdit(pt, src) : e = f
<1>1. Len(src) \in Nat
  OBVIOUS
<1>2. CASE pt.insert = "start"
  BY <1>1, <1>2 DEF Fix!PatchEdit, Fix!Edit
<1>3. CASE pt.insert = "end"
  <2> DEFINE n == Fix!Trimmed(src)
  <2>1. /\ n \in 0 .. Len(src)
        /\ \A i \in n + 1 .. Len(src) : src[i] = Fix!Blank
    <3> DEFINE Ends(m) == /\ \A i \in m + 1 .. Len(src) : src[i] = Fix!Blank
                          /\ m > 0 => src[m] # Fix!Blank
    <3>1. \E m \in 0 .. Len(src) : Ends(m)
      <4> DEFINE T == {k \in 0 .. Len(src) : \A i \in k + 1 .. Len(src) : src[i] = Fix!Blank}
      <4>1. T \in SUBSET Nat /\ Len(src) \in T
        BY <1>1
      <4>2. PICK m \in T : \A k \in T : m <= k
        <5> HIDE DEF T
        <5> QED BY <4>1, LeastElement
      <4>3. m > 0 => src[m] # Fix!Blank
        <5> SUFFICES ASSUME m > 0, src[m] = Fix!Blank PROVE FALSE
          OBVIOUS
        <5>1. m - 1 \in T
          BY <1>1
        <5>2. m \in Nat /\ m <= m - 1
          BY <4>1, <4>2, <5>1
        <5> QED BY <5>2
      <4> QED BY <4>3
    <3> HIDE DEF Ends
    <3>2. Fix!Trimmed(src) = CHOOSE m \in 0 .. Len(src) : Ends(m)
      BY DEF Fix!Trimmed, Ends
    <3>3. n \in 0 .. Len(src) /\ Ends(n)
      BY <3>1, <3>2
    <3> QED BY <3>3 DEF Ends
  <2> HIDE DEF n
  <2>2. Fix!PatchEdit(pt, src) = {Fix!Edit(n, Len(src), IF n = 0 THEN pt.new ELSE <<Fix!Blank>> \o pt.new)}
    BY <1>3 DEF Fix!PatchEdit, n
  <2>3. e.start = n /\ e.end = Len(src) /\ \A f \in Fix!PatchEdit(pt, src) : e = f
    BY <2>2 DEF Fix!Edit
  <2> QED BY <1>1, <1>3, <2>1, <2>3
<1>4. CASE pt.insert = "before"
  <2> DEFINE places == Fix!Places(src, <<pt.before>>)
  <2>1. Fix!PatchEdit(pt, src) = {Fix!Edit(i, i, Append(pt.new, Fix!Blank)) : i \in Fix!Once(src, <<pt.before>>)}
    BY <1>4 DEF Fix!PatchEdit
  <2>2. \A i \in Fix!Once(src, <<pt.before>>) : i \in places /\ \A j \in places : i <= j /\ j < i + 1
    BY DEF Fix!Once
  <2>3. <<pt.before>> \in Seq(S) /\ Len(<<pt.before>>) = 1
    OBVIOUS
  <2>4. \A i \in places : i \in Nat /\ i + 1 <= Len(src) /\ Fix!Slice(src, i, i + 1) = <<pt.before>>
    BY <2>3, PlacesFit
  <2>5. \A i \in places : src[i + 1] = pt.before
    <3> TAKE i \in places
    <3>1. /\ SubSeq(src, i + 1, i + 1) = <<pt.before>>
          /\ i \in Nat /\ i + 1 \in 1 .. Len(src)
          /\ \A k \in i + 1 .. i + 1 : src[k] \in S
      BY <2>4 DEF Fix!Slice
    <3>2. SubSeq(src, i + 1, i + 1)[1] = src[i + 1]
      BY <1>1, <3>1, SubSeqProperties
    <3>3. <<pt.before>>[1] = pt.before
      OBVIOUS
    <3> QED BY <3>1, <3>2, <3>3
  <2>6. PICK i \in Fix!Once(src, <<pt.before>>) : e = Fix!Edit(i, i, Append(pt.new, Fix!Blank))
    BY <2>1
  <2>7. \A f \in Fix!PatchEdit(pt, src) : e = f
    <3> TAKE f \in Fix!PatchEdit(pt, src)
    <3>1. PICK j \in Fix!Once(src, <<pt.before>>) : f = Fix!Edit(j, j, Append(pt.new, Fix!Blank))
      BY <2>1
    <3>2. i \in Nat /\ j \in Nat /\ i = j
      BY <2>2, <2>4
    <3> QED BY <2>6, <3>1, <3>2
  <2>8. e.start = i /\ e.end = i /\ i \in Nat /\ i + 1 <= Len(src) /\ src[i + 1] = pt.before
    BY <2>2, <2>4, <2>5, <2>6 DEF Fix!Edit
  <2> QED BY <1>1, <1>4, <2>7, <2>8
<1> QED BY <1>2, <1>3, <1>4

=============================================================================
