-------------------------- MODULE EventStoreProofs --------------------------
(***************************************************************************)
(* Proofs about EventStore for any set of writers and any set of events,   *)
(* and about WaiverStream, a stream kept in it, for any people and any     *)
(* number of approvals.                                                    *)
(*                                                                         *)
(* The argument: the row lock admits one open transaction, the version     *)
(* check makes its base the whole committed stream, and nobody else can    *)
(* commit until it ends.  So at the commit the loaded snapshot is still    *)
(* the row, and the three tables move together.                            *)
(*                                                                         *)
(* While a waiver waits (StreamInv), the history of its approvers and its  *)
(* approvals are the same list, without a repeat, shorter than the policy  *)
(* asks for, and each approver was one the policy let approve.  So the     *)
(* approval that makes it final makes the list exactly as long as the      *)
(* policy asks.                                                            *)
(***************************************************************************)
EXTENDS EventStore, WaiverStream, SequenceTheorems, TLAPS

\* A writer is inside Append's transaction exactly while it holds the row.
OneTransaction ==
    \A w \in Writer : pc[w] \in InTransaction <=> lock = w

\* Every loaded snapshot is a prefix of the stream, of its own version.
SeenIsAPrefix ==
    \A w \in Writer :
        /\ Len(seen[w].state) = seen[w].version
        /\ seen[w].version <= row.version
        /\ \A i \in 1 .. seen[w].version : seen[w].state[i] = row.state[i]

\* What the open transaction will commit: the batch at the end of the row.
TransactionExtendsRow ==
    \A w \in Writer :
        /\ pc[w] \in {"check"} \cup InTransaction => batch[w] \in Batch
        /\ pc[w] \in InTransaction =>
            /\ seen[w] = row
            /\ tx.row.version = row.version + Len(batch[w])
            /\ tx.row.state = row.state \o batch[w]
        /\ pc[w] = "insert" => tx.events = events
        /\ pc[w] \in {"project", "commit"} =>
            tx.events = events \cup RowsAfter(row.version, batch[w])
        /\ pc[w] = "commit" => tx.view = tx.row

IInv ==
    /\ TypeOK
    /\ CommittedTogether
    /\ DecidedOnTheWholeStream
    /\ OneTransaction
    /\ SeenIsAPrefix
    /\ TransactionExtendsRow

-----------------------------------------------------------------------------

LEMMA BatchIsNonEmptySeq ==
    ASSUME NEW b \in Batch
    PROVE  b \in Seq(Event) /\ b # << >> /\ Len(b) \in Nat
BY BatchAssumption

LEMMA RowsAreEventRows ==
    ASSUME NEW v \in Nat, NEW b \in Seq(Event)
    PROVE  RowsAfter(v, b) \in SUBSET EventRow
BY DEF RowsAfter, EventRow

LEMMA ConcatKeepsPrefix ==
    ASSUME NEW s \in Seq(Event), NEW b \in Seq(Event)
    PROVE  \A i \in 1 .. Len(s) : (s \o b)[i] = s[i]
OBVIOUS

LEMMA SubSeqOfConcat ==
    ASSUME NEW s \in Seq(Event), NEW b \in Seq(Event)
    PROVE  SubSeq(s \o b, 1, Len(s)) = s
<1>1. SubSeq(s \o b, 1, Len(s)) \in Seq(Event)
      /\ Len(SubSeq(s \o b, 1, Len(s))) = Len(s)
  OBVIOUS
<1>2. \A i \in 1 .. Len(s) : SubSeq(s \o b, 1, Len(s))[i] = s[i]
  BY ConcatKeepsPrefix
<1> QED
  BY <1>1, <1>2, SeqEqual

\* The rows of an extended stream are the old rows and the rows of the batch.
LEMMA RowsOfConcat ==
    ASSUME NEW s \in Seq(Event), NEW b \in Seq(Event)
    PROVE  {[version |-> i, event |-> (s \o b)[i]] : i \in 1 .. Len(s \o b)} =
             {[version |-> i, event |-> s[i]] : i \in 1 .. Len(s)}
               \cup RowsAfter(Len(s), b)
<1> DEFINE Rows(t) == {[version |-> i, event |-> t[i]] : i \in 1 .. Len(t)}
<1>1. Len(s \o b) = Len(s) + Len(b)
  OBVIOUS
<1>2. \A i \in 1 .. Len(s) : (s \o b)[i] = s[i]
  OBVIOUS
<1>3. \A i \in 1 .. Len(b) : (s \o b)[Len(s) + i] = b[i]
  OBVIOUS
<1>4. Rows(s \o b) \subseteq Rows(s) \cup RowsAfter(Len(s), b)
  <2> SUFFICES ASSUME NEW i \in 1 .. Len(s \o b)
               PROVE  [version |-> i, event |-> (s \o b)[i]]
                        \in Rows(s) \cup RowsAfter(Len(s), b)
    OBVIOUS
  <2>1. CASE i \in 1 .. Len(s)
    BY <1>2, <2>1
  <2>2. CASE i \notin 1 .. Len(s)
    <3>1. PICK j \in 1 .. Len(b) : i = Len(s) + j
      <4> DEFINE k == i - Len(s)
      <4>1. k \in 1 .. Len(b) /\ i = Len(s) + k
        BY <1>1, <2>2
      <4> HIDE DEF k
      <4> QED
        BY <4>1
    <3> QED
      BY <1>3, <3>1 DEF RowsAfter
  <2> QED
    BY <2>1, <2>2
<1>5. Rows(s) \subseteq Rows(s \o b)
  <2> SUFFICES ASSUME NEW i \in 1 .. Len(s)
               PROVE  [version |-> i, event |-> s[i]] \in Rows(s \o b)
    OBVIOUS
  <2>1. i \in 1 .. Len(s \o b)
    BY <1>1
  <2> QED
    BY <1>2, <2>1
<1>6. RowsAfter(Len(s), b) \subseteq Rows(s \o b)
  <2> SUFFICES ASSUME NEW i \in 1 .. Len(b)
               PROVE  [version |-> Len(s) + i, event |-> b[i]] \in Rows(s \o b)
    BY DEF RowsAfter
  <2>1. Len(s) + i \in 1 .. Len(s \o b)
    BY <1>1
  <2> QED
    BY <1>3, <2>1
<1> QED
  BY <1>4, <1>5, <1>6

-----------------------------------------------------------------------------

LEMMA InitIInv == Init => IInv
BY NoWriterAssumption
   DEF Init, IInv, TypeOK, CommittedTogether, DecidedOnTheWholeStream,
       OneTransaction, SeenIsAPrefix, TransactionExtendsRow, NoSnapshot,
       Snapshot, Steps, Outcomes, InTransaction, LastAttempt, EventRow

-----------------------------------------------------------------------------
(* Every step keeps the type invariant. *)

LEMMA NextTypeOK == IInv /\ [Next]_vars => TypeOK'
<1> SUFFICES ASSUME IInv, [Next]_vars
             PROVE  TypeOK'
  OBVIOUS
<1> USE DEF TypeOK, committed, transaction, locals
<1>0. TypeOK /\ TransactionExtendsRow
  BY DEF IInv
<1>1. ASSUME NEW w \in Writer, Call(w)
      PROVE  TypeOK'
  BY <1>0, <1>1 DEF Call, GoTo, Steps, Outcomes, LastAttempt, Snapshot
<1>2. ASSUME NEW w \in Writer, Load(w)
      PROVE  TypeOK'
  BY <1>0, <1>2 DEF Load, GoTo, Steps
<1>3. ASSUME NEW w \in Writer, LoadFails(w)
      PROVE  TypeOK'
  BY <1>0, <1>3 DEF LoadFails, Return, GoTo, Steps, Outcomes
<1>4. ASSUME NEW w \in Writer, Decide(w)
      PROVE  TypeOK'
  BY <1>0, <1>4 DEF Decide, GoTo, Steps
<1>5. ASSUME NEW w \in Writer, Refuse(w)
      PROVE  TypeOK'
  BY <1>0, <1>5 DEF Refuse, Return, GoTo, Steps, Outcomes
<1>6. ASSUME NEW w \in Writer, WriteRow(w)
      PROVE  TypeOK'
  <2>1. batch[w] \in Seq(Event) /\ Len(batch[w]) \in Nat
    BY <1>0, <1>6, BatchIsNonEmptySeq DEF WriteRow, TransactionExtendsRow
  <2>2. tx' \in [row : Snapshot, events : SUBSET EventRow, view : Snapshot]
    BY <1>0, <1>6, <2>1 DEF WriteRow, Snapshot
  <2> QED
    BY <1>0, <1>6, <2>2 DEF WriteRow, GoTo, Steps
<1>7. ASSUME NEW w \in Writer, WriteFails(w)
      PROVE  TypeOK'
  BY <1>0, <1>7 DEF WriteFails, Return, GoTo, Steps, Outcomes
<1>8. ASSUME NEW w \in Writer, Conflict(w)
      PROVE  TypeOK'
  <2>1. attempt' \in [Writer -> 0 .. LastAttempt]
    <3>1. CASE attempt[w] < LastAttempt
      <4>1. attempt \in [Writer -> 0 .. LastAttempt]
        BY <1>0
      <4>2. attempt[w] + 1 \in 0 .. LastAttempt
        <5> HIDE DEF TypeOK
        <5> QED
          BY <3>1, <4>1 DEF LastAttempt
      <4> QED
        BY <1>8, <3>1, <4>1, <4>2 DEF Conflict
    <3>2. CASE ~ (attempt[w] < LastAttempt)
      BY <1>0, <1>8, <3>2 DEF Conflict
    <3> QED
      BY <3>1, <3>2
  <2>2. pc' \in [Writer -> Steps] /\ outcome' \in [Writer -> Outcomes]
    BY <1>0, <1>8 DEF Conflict, Return, GoTo, Steps, Outcomes
  <2> QED
    BY <1>0, <1>8, <2>1, <2>2 DEF Conflict
<1>9. ASSUME NEW w \in Writer, InsertEvents(w)
      PROVE  TypeOK'
  <2>1. batch[w] \in Seq(Event) /\ seen[w].version \in Nat
    BY <1>0, <1>9, BatchIsNonEmptySeq
       DEF InsertEvents, TransactionExtendsRow, InTransaction, Snapshot
  <2>2. RowsAfter(seen[w].version, batch[w]) \subseteq EventRow
    BY <2>1, RowsAreEventRows
  <2> QED
    BY <1>0, <1>9, <2>2 DEF InsertEvents, GoTo, Steps
<1>10. ASSUME NEW w \in Writer, RunProjections(w)
       PROVE  TypeOK'
  BY <1>0, <1>10 DEF RunProjections, GoTo, Steps
<1>11. ASSUME NEW w \in Writer, FailInTransaction(w)
       PROVE  TypeOK'
  BY <1>0, <1>11 DEF FailInTransaction, Rollback, Return, GoTo, Steps, Outcomes
<1>12. ASSUME NEW w \in Writer, Commit(w)
       PROVE  TypeOK'
  <2>1. [base |-> seen[w].state, batch |-> batch[w]]
          \in [base : Seq(Event), batch : Batch]
    BY <1>0, <1>12 DEF Commit, TransactionExtendsRow, InTransaction, Snapshot
  <2>2. effects' \in Seq([base : Seq(Event), batch : Batch])
    BY <1>0, <1>12, <2>1 DEF Commit
  <2> QED
    BY <1>0, <1>12, <2>2 DEF Commit, Return, GoTo, Steps, Outcomes
<1>13. ASSUME NEW w \in Writer, Crash(w)
       PROVE  TypeOK'
  BY <1>0, <1>13 DEF Crash, Return, GoTo, Steps, Outcomes
<1>14. CASE UNCHANGED vars
  BY <1>0, <1>14 DEF vars
<1> QED
  BY <1>1, <1>2, <1>3, <1>4, <1>5, <1>6, <1>7, <1>8, <1>9, <1>10, <1>11, <1>12,
     <1>13, <1>14 DEF Next, Progress

-----------------------------------------------------------------------------
(* Only a commit changes what is committed, and what it commits. *)

LEMMA OnlyCommitCommits ==
    ASSUME [Next]_vars
    PROVE  (\E w \in Writer : Commit(w)) \/ UNCHANGED <<committed, effects>>
BY DEF Next, Progress, Call, Load, LoadFails, Decide, Refuse, WriteRow, WriteFails,
       Conflict, InsertEvents, RunProjections, FailInTransaction, Rollback, Crash,
       vars, committed

\* At a commit the row takes the batch at its end, and the loaded snapshot is
\* still the row.
LEMMA CommitExtendsRow ==
    ASSUME IInv, NEW w \in Writer, Commit(w)
    PROVE  /\ batch[w] \in Batch
           /\ batch[w] \in Seq(Event)
           /\ row.state \in Seq(Event)
           /\ seen[w] = row
           /\ row'.version = row.version + Len(batch[w])
           /\ row'.state = row.state \o batch[w]
           /\ events' = events \cup RowsAfter(row.version, batch[w])
           /\ view' = row'
           /\ effects' = Append(effects, [base |-> row.state, batch |-> batch[w]])
<1>1. batch[w] \in Batch
  BY DEF IInv, TransactionExtendsRow, InTransaction, Commit
<1>2. batch[w] \in Seq(Event)
  BY <1>1, BatchIsNonEmptySeq
<1>3. row.state \in Seq(Event)
  BY DEF IInv, TypeOK, Snapshot
<1>4. /\ seen[w] = row
      /\ tx.row.version = row.version + Len(batch[w])
      /\ tx.row.state = row.state \o batch[w]
      /\ tx.events = events \cup RowsAfter(row.version, batch[w])
      /\ tx.view = tx.row
  BY DEF IInv, TransactionExtendsRow, InTransaction, Commit
<1> QED
  BY <1>1, <1>2, <1>3, <1>4 DEF Commit

LEMMA NextCommittedTogether == IInv /\ [Next]_vars => CommittedTogether'
<1> SUFFICES ASSUME IInv, [Next]_vars
             PROVE  CommittedTogether'
  OBVIOUS
<1>0. CommittedTogether
  BY DEF IInv
<1>1. ASSUME NEW w \in Writer, Commit(w)
      PROVE  CommittedTogether'
  <2>1. row'.state = row.state \o batch[w] /\ batch[w] \in Seq(Event)
        /\ row.state \in Seq(Event) /\ row'.version = row.version + Len(batch[w])
        /\ events' = events \cup RowsAfter(row.version, batch[w]) /\ view' = row'
    BY <1>1, CommitExtendsRow
  <2>2. row'.version = Len(row'.state)
    BY <1>0, <2>1 DEF CommittedTogether
  <2>3. events' = {[version |-> i, event |-> row'.state[i]] : i \in 1 .. Len(row'.state)}
    <3>1. row.version = Len(row.state)
          /\ events = {[version |-> i, event |-> row.state[i]] : i \in 1 .. Len(row.state)}
      BY <1>0 DEF CommittedTogether
    <3>2. {[version |-> i, event |-> (row.state \o batch[w])[i]]
             : i \in 1 .. Len(row.state \o batch[w])} =
            {[version |-> i, event |-> row.state[i]] : i \in 1 .. Len(row.state)}
              \cup RowsAfter(Len(row.state), batch[w])
      BY <2>1, RowsOfConcat
    <3>3. events' = {[version |-> i, event |-> (row.state \o batch[w])[i]]
                       : i \in 1 .. Len(row.state \o batch[w])}
      BY <2>1, <3>1, <3>2, Zenon
    <3> QED
      BY <2>1, <3>3, Zenon
  <2> QED
    BY <2>1, <2>2, <2>3 DEF CommittedTogether
<1>2. CASE UNCHANGED <<committed, effects>>
  BY <1>0, <1>2 DEF CommittedTogether, committed
<1> QED
  BY <1>1, <1>2, OnlyCommitCommits

LEMMA NextDecidedOnTheWholeStream == IInv /\ [Next]_vars => DecidedOnTheWholeStream'
<1> SUFFICES ASSUME IInv, [Next]_vars
             PROVE  DecidedOnTheWholeStream'
  OBVIOUS
<1>0. DecidedOnTheWholeStream /\ effects \in Seq([base : Seq(Event), batch : Batch])
  BY DEF IInv, TypeOK
<1>1. ASSUME NEW w \in Writer, Commit(w)
      PROVE  DecidedOnTheWholeStream'
  <2> DEFINE e == [base |-> row.state, batch |-> batch[w]]
  <2>1. effects' = Append(effects, e) /\ row'.state = row.state \o batch[w]
        /\ e \in [base : Seq(Event), batch : Batch]
    BY <1>1, CommitExtendsRow
  <2>2. /\ Len(effects') = Len(effects) + 1
        /\ effects'[Len(effects) + 1] = e
        /\ \A i \in 1 .. Len(effects) : effects'[i] = effects[i]
    BY <1>0, <2>1
  <2>3. Len(effects) \in Nat
    BY <1>0
  <2> HIDE DEF e
  <2> SUFFICES ASSUME NEW i \in 1 .. Len(effects')
               PROVE  effects'[i].base \o effects'[i].batch =
                        IF i < Len(effects') THEN effects'[i + 1].base ELSE row'.state
    BY DEF DecidedOnTheWholeStream
  <2>4. i \in 1 .. Len(effects) + 1
    BY <2>2
  <2>5. CASE i = Len(effects) + 1
    <3>1. ~ (i < Len(effects'))
      BY <2>2, <2>3, <2>5
    <3>2. effects'[i] = e
      BY <2>2, <2>5
    <3>3. e.base = row.state /\ e.batch = batch[w]
      BY DEF e
    <3>4. effects'[i].base \o effects'[i].batch = row'.state
      BY <2>1, <3>2, <3>3, Zenon
    <3> QED
      BY <3>1, <3>4
  <2>6. CASE i = Len(effects)
    <3>1. i \in 1 .. Len(effects) /\ ~ (i < Len(effects)) /\ i < Len(effects')
      BY <2>2, <2>3, <2>4, <2>6
    <3>2. effects[i].base \o effects[i].batch = row.state
      BY <1>0, <3>1 DEF DecidedOnTheWholeStream
    <3>3. effects'[i] = effects[i] /\ effects'[i + 1].base = row.state
      BY <2>2, <2>6, <3>1 DEF e
    <3> QED
      BY <3>1, <3>2, <3>3
  <2>7. CASE i < Len(effects)
    <3>1. i \in 1 .. Len(effects) /\ i + 1 \in 1 .. Len(effects) /\ i < Len(effects')
      BY <2>2, <2>3, <2>4, <2>7
    <3>2. effects[i].base \o effects[i].batch = effects[i + 1].base
      BY <1>0, <2>7, <3>1 DEF DecidedOnTheWholeStream
    <3>3. effects'[i] = effects[i] /\ effects'[i + 1] = effects[i + 1]
      BY <2>2, <3>1
    <3> QED
      BY <3>1, <3>2, <3>3
  <2>8. i = Len(effects) + 1 \/ i = Len(effects) \/ i < Len(effects)
    BY <2>3, <2>4
  <2> QED
    BY <2>5, <2>6, <2>7, <2>8
<1>2. CASE UNCHANGED <<committed, effects>>
  BY <1>0, <1>2 DEF DecidedOnTheWholeStream, committed
<1> QED
  BY <1>1, <1>2, OnlyCommitCommits

LEMMA NextSeenIsAPrefix == IInv /\ [Next]_vars => SeenIsAPrefix'
<1> SUFFICES ASSUME IInv, [Next]_vars, NEW v \in Writer
             PROVE  /\ Len(seen'[v].state) = seen'[v].version
                    /\ seen'[v].version <= row'.version
                    /\ \A i \in 1 .. seen'[v].version : seen'[v].state[i] = row'.state[i]
  BY DEF SeenIsAPrefix
<1>0. /\ Len(seen[v].state) = seen[v].version
      /\ seen[v].version <= row.version
      /\ \A i \in 1 .. seen[v].version : seen[v].state[i] = row.state[i]
      /\ seen[v].version \in Nat /\ row.version \in Nat
      /\ row.version = Len(row.state)
  BY DEF IInv, SeenIsAPrefix, TypeOK, Snapshot, CommittedTogether
<1>1. ASSUME NEW w \in Writer, Commit(w)
      PROVE  /\ seen' = seen
             /\ row'.version >= row.version
             /\ \A i \in 1 .. row.version : row'.state[i] = row.state[i]
  <2>1. row'.state = row.state \o batch[w] /\ batch[w] \in Seq(Event)
        /\ row.state \in Seq(Event) /\ row'.version = row.version + Len(batch[w])
    BY <1>1, CommitExtendsRow
  <2>2. seen' = seen
    BY <1>1 DEF Commit
  <2>3. Len(batch[w]) \in Nat
    BY <2>1
  <2>4. row'.version >= row.version
    <3>1. row.version \in Nat /\ row'.version = row.version + Len(batch[w])
      BY <1>0, <2>1
    <3> QED
      BY <2>3, <3>1
  <2>5. ASSUME NEW i \in 1 .. Len(row.state)
        PROVE  (row.state \o batch[w])[i] = row.state[i]
    BY <2>1, ConcatKeepsPrefix, Zenon
  <2> QED
    BY <1>0, <2>1, <2>2, <2>4, <2>5
<1>2. CASE UNCHANGED <<committed, effects>>
  <2>1. seen'[v] \in {seen[v], row}
    BY <1>2 DEF Next, Progress, Call, Load, LoadFails, Decide, Refuse, WriteRow,
                WriteFails, Conflict, InsertEvents, RunProjections, FailInTransaction,
                Commit, Crash, vars, locals, IInv, TypeOK
  <2> QED
    BY <1>0, <1>2, <2>1 DEF committed
<1>3. ASSUME NEW w \in Writer, Commit(w)
      PROVE  /\ Len(seen'[v].state) = seen'[v].version
             /\ seen'[v].version <= row'.version
             /\ \A i \in 1 .. seen'[v].version : seen'[v].state[i] = row'.state[i]
  <2>1. /\ seen' = seen
        /\ row'.version >= row.version
        /\ \A i \in 1 .. row.version : row'.state[i] = row.state[i]
    BY <1>1, <1>3
  <2>2. row'.version \in Nat
    BY <1>3, NextTypeOK DEF TypeOK, Snapshot
  <2>3. seen[v].version <= row'.version
    BY <1>0, <2>1, <2>2
  <2>4. \A i \in 1 .. seen[v].version : i \in 1 .. row.version
    BY <1>0
  <2> QED
    BY <1>0, <2>1, <2>3, <2>4
<1> QED
  BY <1>2, <1>3, OnlyCommitCommits

-----------------------------------------------------------------------------
(* The lock and the open transaction. *)

LEMMA NextOneTransaction == IInv /\ [Next]_vars => OneTransaction'
<1> SUFFICES ASSUME IInv, [Next]_vars
             PROVE  OneTransaction'
  OBVIOUS
<1>0. /\ OneTransaction
      /\ pc \in [Writer -> Steps]
  BY DEF IInv, TypeOK
<1> USE NoWriterAssumption DEF OneTransaction, InTransaction
<1>1. ASSUME NEW w \in Writer, Call(w)
      PROVE  OneTransaction'
  BY <1>0, <1>1 DEF Call, GoTo, transaction
<1>2. ASSUME NEW w \in Writer, Load(w)
      PROVE  OneTransaction'
  BY <1>0, <1>2 DEF Load, GoTo, transaction
<1>3. ASSUME NEW w \in Writer, LoadFails(w)
      PROVE  OneTransaction'
  BY <1>0, <1>3 DEF LoadFails, GoTo, Return, transaction
<1>4. ASSUME NEW w \in Writer, Decide(w)
      PROVE  OneTransaction'
  BY <1>0, <1>4 DEF Decide, GoTo, transaction
<1>5. ASSUME NEW w \in Writer, Refuse(w)
      PROVE  OneTransaction'
  BY <1>0, <1>5 DEF Refuse, GoTo, Return, transaction
<1>6. ASSUME NEW w \in Writer, WriteRow(w)
      PROVE  OneTransaction'
  BY <1>0, <1>6 DEF WriteRow, GoTo
<1>7. ASSUME NEW w \in Writer, WriteFails(w)
      PROVE  OneTransaction'
  BY <1>0, <1>7 DEF WriteFails, GoTo, Return, transaction
<1>8. ASSUME NEW w \in Writer, Conflict(w)
      PROVE  OneTransaction'
  BY <1>0, <1>8 DEF Conflict, GoTo, Return, transaction
<1>9. ASSUME NEW w \in Writer, InsertEvents(w)
      PROVE  OneTransaction'
  BY <1>0, <1>9 DEF InsertEvents, GoTo
<1>10. ASSUME NEW w \in Writer, RunProjections(w)
       PROVE  OneTransaction'
  BY <1>0, <1>10 DEF RunProjections, GoTo
<1>11. ASSUME NEW w \in Writer, FailInTransaction(w)
       PROVE  OneTransaction'
  BY <1>0, <1>11 DEF FailInTransaction, GoTo, Return, Rollback
<1>12. ASSUME NEW w \in Writer, Commit(w)
       PROVE  OneTransaction'
  BY <1>0, <1>12 DEF Commit, GoTo, Return
<1>13. ASSUME NEW w \in Writer, Crash(w)
       PROVE  OneTransaction'
  BY <1>0, <1>13 DEF Crash, GoTo, Return
<1>14. CASE UNCHANGED vars
  BY <1>0, <1>14 DEF vars, transaction, locals
<1> QED
  BY <1>1, <1>2, <1>3, <1>4, <1>5, <1>6, <1>7, <1>8, <1>9, <1>10, <1>11, <1>12,
     <1>13, <1>14 DEF Next, Progress

\* No other writer is in a transaction when one is, or when the row is free.
LEMMA AtMostOneInTransaction ==
    ASSUME OneTransaction, NEW w \in Writer, NEW v \in Writer,
           pc[v] \in InTransaction, lock \in {w, NoWriter}
    PROVE  v = w
BY NoWriterAssumption DEF OneTransaction

\* A snapshot of the version of the row is the row.
LEMMA SameVersionIsTheRow ==
    ASSUME IInv, NEW w \in Writer, row.version = seen[w].version
    PROVE  seen[w] = row
<1>1. seen[w] \in Snapshot /\ row \in Snapshot
  BY DEF IInv, TypeOK
<1>2. /\ seen[w].state \in Seq(Event)
      /\ row.state \in Seq(Event)
      /\ Len(seen[w].state) = Len(row.state)
      /\ \A i \in 1 .. Len(seen[w].state) : seen[w].state[i] = row.state[i]
  BY <1>1 DEF IInv, SeenIsAPrefix, CommittedTogether, Snapshot
<1>3. seen[w].state = row.state
  BY <1>2, SeqEqual, Zenon
<1> QED
  BY <1>1, <1>3 DEF Snapshot

LEMMA NextTransactionExtendsRow == IInv /\ [Next]_vars => TransactionExtendsRow'
<1> SUFFICES ASSUME IInv, [Next]_vars
             PROVE  TransactionExtendsRow'
  OBVIOUS
<1>0. /\ OneTransaction
      /\ TransactionExtendsRow
      /\ pc \in [Writer -> Steps]
      /\ batch \in [Writer -> Batch \cup {<< >>}]
      /\ seen \in [Writer -> Snapshot]
      /\ tx \in [row : Snapshot, events : SUBSET EventRow, view : Snapshot]
      /\ row \in Snapshot
  BY DEF IInv, TypeOK
<1> USE DEF TransactionExtendsRow, InTransaction
<1>1. ASSUME NEW w \in Writer, Call(w)
      PROVE  TransactionExtendsRow'
  BY <1>0, <1>1 DEF Call, GoTo, committed, transaction
<1>2. ASSUME NEW w \in Writer, Load(w)
      PROVE  TransactionExtendsRow'
  BY <1>0, <1>2 DEF Load, GoTo, committed, transaction
<1>3. ASSUME NEW w \in Writer, LoadFails(w)
      PROVE  TransactionExtendsRow'
  BY <1>0, <1>3 DEF LoadFails, GoTo, committed, Return, transaction
<1>4. ASSUME NEW w \in Writer, Decide(w)
      PROVE  TransactionExtendsRow'
  BY <1>0, <1>4 DEF Decide, GoTo, committed, transaction
<1>5. ASSUME NEW w \in Writer, Refuse(w)
      PROVE  TransactionExtendsRow'
  BY <1>0, <1>5 DEF Refuse, GoTo, committed, Return, transaction
<1>6. ASSUME NEW w \in Writer, WriteRow(w)
      PROVE  TransactionExtendsRow'
  <2>1. seen[w] = row
    BY <1>6, SameVersionIsTheRow DEF WriteRow
  <2>2. \A v \in Writer \ {w} : pc'[v] = pc[v] /\ pc[v] \notin InTransaction
    BY <1>0, <1>6, AtMostOneInTransaction DEF WriteRow, GoTo
  <2>3. /\ pc'[w] = "insert" /\ batch' = batch /\ seen' = seen
        /\ row' = row /\ events' = events /\ batch[w] \in Batch
    BY <1>0, <1>6 DEF WriteRow, GoTo, committed
  <2>4. /\ tx'.row.version = row.version + Len(batch[w])
        /\ tx'.row.state = row.state \o batch[w]
        /\ tx'.events = events
    BY <1>6, <2>1 DEF WriteRow
  <2> QED
    BY <1>0, <2>1, <2>2, <2>3, <2>4
<1>7. ASSUME NEW w \in Writer, WriteFails(w)
      PROVE  TransactionExtendsRow'
  BY <1>0, <1>7 DEF WriteFails, GoTo, committed, Return, transaction
<1>8. ASSUME NEW w \in Writer, Conflict(w)
      PROVE  TransactionExtendsRow'
  BY <1>0, <1>8 DEF Conflict, GoTo, committed, Return, transaction
<1>9. ASSUME NEW w \in Writer, InsertEvents(w)
      PROVE  TransactionExtendsRow'
  <2>1. \A v \in Writer \ {w} : pc'[v] = pc[v] /\ pc[v] \notin InTransaction
    BY <1>0, <1>9, AtMostOneInTransaction DEF InsertEvents, GoTo
  <2>2. /\ pc'[w] = "project" /\ batch' = batch /\ seen' = seen
        /\ row' = row /\ events' = events /\ pc[w] = "insert"
    BY <1>0, <1>9 DEF InsertEvents, GoTo, committed
  <2>3. /\ tx'.row = tx.row
        /\ tx'.events = events \cup RowsAfter(row.version, batch[w])
    BY <1>0, <1>9, <2>2 DEF InsertEvents
  <2> QED
    BY <1>0, <2>1, <2>2, <2>3
<1>10. ASSUME NEW w \in Writer, RunProjections(w)
       PROVE  TransactionExtendsRow'
  BY <1>0, <1>10 DEF RunProjections, GoTo, committed
<1>11. ASSUME NEW w \in Writer, FailInTransaction(w)
       PROVE  TransactionExtendsRow'
  BY <1>0, <1>11 DEF FailInTransaction, GoTo, committed, Return, Rollback
<1>12. ASSUME NEW w \in Writer, Commit(w)
       PROVE  TransactionExtendsRow'
  <2>1. \A v \in Writer \ {w} : pc'[v] = pc[v] /\ pc[v] \notin InTransaction
    BY <1>0, <1>12, AtMostOneInTransaction DEF Commit, Return, GoTo
  <2>2. pc'[w] = "idle" /\ batch' = batch
    BY <1>0, <1>12 DEF Commit, Return, GoTo
  <2> QED
    BY <1>0, <2>1, <2>2
<1>13. ASSUME NEW w \in Writer, Crash(w)
       PROVE  TransactionExtendsRow'
  BY <1>0, <1>13 DEF Crash, GoTo, committed, Return
<1>14. CASE UNCHANGED vars
  BY <1>0, <1>14 DEF vars, committed, transaction, locals
<1> QED
  BY <1>1, <1>2, <1>3, <1>4, <1>5, <1>6, <1>7, <1>8, <1>9, <1>10, <1>11, <1>12,
     <1>13, <1>14 DEF Next, Progress

-----------------------------------------------------------------------------
(* The theorems. *)

LEMMA NextIInv == IInv /\ [Next]_vars => IInv'
BY NextTypeOK, NextCommittedTogether, NextDecidedOnTheWholeStream, NextOneTransaction,
   NextSeenIsAPrefix, NextTransactionExtendsRow DEF IInv

\* The strengthened invariant is inductive.
THEOREM Invariance == Spec => []IInv
BY InitIInv, NextIInv, PTL DEF Spec

\* Every variable of the event store keeps its type.
THEOREM TypeCorrect == Spec => []TypeOK
<1>1. IInv => TypeOK
  BY DEF IInv
<1> QED
  BY <1>1, Invariance, PTL

\* The row, the event rows and the read model commit together, in every
\* interleaving of any number of writers, their failures and their crashes.
THEOREM CommitsTogether == Spec => []CommittedTogether
<1>1. IInv => CommittedTogether
  BY DEF IInv
<1> QED
  BY <1>1, Invariance, PTL

\* No batch was ever decided on a stream other than the one it extends.
THEOREM NoStaleDecision == Spec => []DecidedOnTheWholeStream
<1>1. IInv => DecidedOnTheWholeStream
  BY DEF IInv
<1> QED
  BY <1>1, Invariance, PTL

\* Committed events are never changed, reordered or removed.
THEOREM StreamOnlyGrows == Spec => AppendOnly
<1> DEFINE Grows == /\ row'.version >= row.version
                    /\ SubSeq(row'.state, 1, Len(row.state)) = row.state
                    /\ events \subseteq events'
<1>1. IInv /\ [Next]_vars => [Grows]_committed
  <2> SUFFICES ASSUME IInv, [Next]_vars
               PROVE  [Grows]_committed
    OBVIOUS
  <2>1. ASSUME NEW w \in Writer, Commit(w)
        PROVE  Grows
    <3>1. /\ row'.state = row.state \o batch[w]
          /\ batch[w] \in Seq(Event) /\ row.state \in Seq(Event)
          /\ row'.version = row.version + Len(batch[w])
          /\ events \subseteq events'
      BY <2>1, CommitExtendsRow
    <3>2. row.version \in Nat /\ Len(batch[w]) \in Nat
      BY <3>1 DEF IInv, TypeOK, Snapshot
    <3>3. row'.version >= row.version
      BY <3>1, <3>2
    <3>4. SubSeq(row.state \o batch[w], 1, Len(row.state)) = row.state
      BY <3>1, SubSeqOfConcat
    <3> QED
      BY <3>1, <3>3, <3>4
  <2>2. CASE UNCHANGED <<committed, effects>>
    BY <2>2
  <2> QED
    BY <2>1, <2>2, OnlyCommitCommits
<1>2. Spec => [][Grows]_committed
  BY <1>1, Invariance, PTL DEF Spec
<1> QED
  BY <1>2 DEF AppendOnly

-----------------------------------------------------------------------------
(* Run implements AtomicStream. *)

\* The calls that AtomicStream sees open.
openCalls == [w \in Writer |-> IF pc[w] = "idle" THEN "closed" ELSE "open"]

LEMMA InitIsAtomic == Init => Atomic!Init
BY DEF Init, Atomic!Init, NoSnapshot

LEMMA StepIsAtomic == IInv /\ [Next]_vars => [Atomic!Next]_(Atomic!vars)
<1> SUFFICES ASSUME IInv, [Next]_vars
             PROVE  Atomic!Next \/ UNCHANGED Atomic!vars
  OBVIOUS
<1>0. pc \in [Writer -> Steps]
  BY DEF IInv, TypeOK
<1>1. ASSUME NEW w \in Writer, Call(w)
      PROVE  Atomic!Open(w)
  <2>1. pc[w] = "idle" /\ pc' = [pc EXCEPT ![w] = "load"]
        /\ UNCHANGED <<row, effects>>
    BY <1>1 DEF Call, GoTo, committed
  <2>2. openCalls[w] = "closed" /\ openCalls' = [openCalls EXCEPT ![w] = "open"]
    BY <1>0, <2>1 DEF openCalls
  <2> QED
    BY <2>1, <2>2 DEF Atomic!Open, openCalls
<1>2. ASSUME NEW w \in Writer, pc[w] # "idle", pc'[w] # "idle",
             pc' = [pc EXCEPT ![w] = pc'[w]], UNCHANGED <<row, effects>>
      PROVE  UNCHANGED Atomic!vars
  <2>1. openCalls' = openCalls
    BY <1>0, <1>2 DEF openCalls
  <2> QED
    BY <1>2, <2>1 DEF Atomic!vars, openCalls
<1>3. ASSUME NEW w \in Writer, pc[w] # "idle", pc' = [pc EXCEPT ![w] = "idle"],
             UNCHANGED <<row, effects>>
      PROVE  Atomic!CloseWithoutEffect(w)
  <2>1. openCalls[w] = "open" /\ openCalls' = [openCalls EXCEPT ![w] = "closed"]
    BY <1>0, <1>3 DEF openCalls
  <2> QED
    BY <1>3, <2>1 DEF Atomic!CloseWithoutEffect, openCalls
<1>4. ASSUME NEW w \in Writer,
             Load(w) \/ Decide(w) \/ WriteRow(w) \/ InsertEvents(w) \/ RunProjections(w)
      PROVE  UNCHANGED Atomic!vars
  <2>1. /\ pc[w] # "idle" /\ pc'[w] # "idle"
        /\ pc' = [pc EXCEPT ![w] = pc'[w]]
        /\ UNCHANGED <<row, effects>>
    BY <1>0, <1>4 DEF Load, Decide, WriteRow, InsertEvents, RunProjections, GoTo, committed
  <2> QED
    BY <1>2, <2>1
<1>5. ASSUME NEW w \in Writer,
             \/ LoadFails(w) \/ Refuse(w) \/ WriteFails(w)
             \/ FailInTransaction(w) \/ Crash(w)
      PROVE  Atomic!CloseWithoutEffect(w)
  <2>1. /\ pc[w] # "idle" /\ pc' = [pc EXCEPT ![w] = "idle"]
        /\ UNCHANGED <<row, effects>>
    BY <1>5 DEF LoadFails, Refuse, WriteFails, FailInTransaction, Crash, Return, GoTo,
                Rollback, InTransaction, committed
  <2> QED
    BY <1>3, <2>1
<1>6. ASSUME NEW w \in Writer, Conflict(w)
      PROVE  UNCHANGED Atomic!vars \/ Atomic!CloseWithoutEffect(w)
  <2>1. pc[w] # "idle" /\ UNCHANGED <<row, effects>>
    BY <1>6 DEF Conflict, committed
  <2>2. CASE pc' = [pc EXCEPT ![w] = "load"]
    BY <1>0, <1>2, <2>1, <2>2
  <2>3. CASE pc' = [pc EXCEPT ![w] = "idle"]
    BY <1>3, <2>1, <2>3
  <2> QED
    BY <1>6, <2>2, <2>3 DEF Conflict, GoTo, Return
<1>7. ASSUME NEW w \in Writer, Commit(w)
      PROVE  Atomic!TakeEffect(w)
  <2>1. /\ batch[w] \in Batch
        /\ row'.state = row.state \o batch[w]
        /\ effects' = Append(effects, [base |-> row.state, batch |-> batch[w]])
    BY <1>7, CommitExtendsRow
  <2>2. pc[w] # "idle" /\ pc' = [pc EXCEPT ![w] = "idle"]
    BY <1>7 DEF Commit, Return, GoTo
  <2>3. openCalls[w] = "open" /\ openCalls' = [openCalls EXCEPT ![w] = "closed"]
    BY <1>0, <2>2 DEF openCalls
  <2> QED
    BY <2>1, <2>3 DEF Atomic!TakeEffect, openCalls
<1>8. CASE UNCHANGED vars
  BY <1>8 DEF vars, committed, locals, Atomic!vars
<1> QED
  BY <1>1, <1>4, <1>5, <1>6, <1>7, <1>8 DEF Next, Progress, Atomic!Next

\* For any writers and batches, Run takes effect at one instant or not at all:
\* the event store implements AtomicStream.
THEOREM RunImplementsAtomicStream == Spec => RunIsAtomic
BY InitIsAtomic, StepIsAtomic, Invariance, PTL DEF Spec, RunIsAtomic, Atomic!Spec

-----------------------------------------------------------------------------
(* WaiverStream: the approvers and the decision of one stream.               *)

Distinct(s) == \A i, j \in 1 .. Len(s) : i # j => s[i].user # s[j].user

\* The approvers of a waiver, as the policy wants them.
GoodSignatures(p, s) ==
    /\ Distinct(s)
    /\ \A i \in 1 .. Len(s) : CanApprove(p, s[i])

Waiting ==
    /\ waiver.status = "none" => waiver = NoWaiver /\ signed = << >>
    /\ waiver.status = "requested" =>
        /\ Len(signed) = Len(waiver.approvals)
        /\ \A i \in 1 .. Len(signed) : signed[i].user = waiver.approvals[i]
        /\ Len(signed) < needed(waiver.policy)
        /\ GoodSignatures(waiver.policy, signed)

Decided ==
    waiver.status \notin {"none", "requested", "rejected"} =>
        \/ DecidedAlone(request) /\ waiver.decidedBy = request.by
        \/ Acknowledgement(waiver.scope) /\ waiver.decidedBy = Speccy
        \/ Len(signed) = needed(waiver.policy) /\ GoodSignatures(waiver.policy, signed)

DeciderIsKnown ==
    waiver.decidedBy = NoUser <=> waiver.status \in {"none", "requested"}

StreamInv == StreamTypeOK /\ Waiting /\ Decided /\ DeciderIsKnown

-----------------------------------------------------------------------------
(* What each command appends, when it appends something. *)

LEMMA EvolveOne == \A s, e : EvolveAll(s, <<e>>) = Evolve(s, e)
BY DEF EvolveAll

LEMMA EvolveTwo ==
    ASSUME NEW s, NEW d, NEW e
    PROVE  EvolveAll(s, <<d, e>>) = Evolve(Evolve(s, d), e)
BY DEF EvolveAll

LEMMA RequestStep ==
    ASSUME NEW r \in Request, RequestWaiver(r)
    PROVE  /\ waiver.status = "none"
           /\ request' = r
           /\ signed' = signed
           /\ \/ ~DecidedAlone(r) /\ waiver' = AfterRequested(r)
              \/ /\ DecidedAlone(r)
                 /\ waiver' = AfterApproved(AfterRequested(r), Approved(r.by, TRUE))
<1>1. /\ DecideRequest(waiver, r) # << >>
      /\ waiver' = EvolveAll(waiver, DecideRequest(waiver, r))
      /\ request' = r /\ signed' = signed
  BY DEF RequestWaiver, Record
<1>2. waiver.status = "none"
  BY <1>1 DEF DecideRequest
<1>3. CASE ~DecidedAlone(r)
  <2>2. DecideRequest(waiver, r) = <<Requested(r)>>
    BY <1>1, <1>3 DEF DecideRequest
  <2>3. waiver' = Evolve(waiver, Requested(r))
    BY <1>1, <2>2, EvolveOne
  <2> QED
    BY <1>1, <1>2, <1>3, <2>3 DEF Evolve, Requested
<1>4. CASE DecidedAlone(r)
  <2> DEFINE d == Requested(r)
             e == Approved(r.by, TRUE)
  <2>1. DecideRequest(waiver, r) = <<d, e>>
    BY <1>1, <1>4 DEF DecideRequest
  <2>2. Evolve(waiver, d) = AfterRequested(r)
    BY DEF Evolve, Requested
  <2>3. Evolve(AfterRequested(r), e) = AfterApproved(AfterRequested(r), e)
    BY DEF Evolve, Approved
  <2> HIDE DEF d, e
  <2>4. EvolveAll(waiver, <<d, e>>) = Evolve(Evolve(waiver, d), e)
    BY EvolveTwo
  <2>5. waiver' = AfterApproved(AfterRequested(r), e)
    BY <1>1, <2>1, <2>2, <2>3, <2>4
  <2> QED
    BY <1>1, <1>2, <1>4, <2>5 DEF e
<1> QED
  BY <1>3, <1>4

LEMMA ApproveStep ==
    ASSUME NEW a \in Approver, ApproveWaiver(a)
    PROVE  /\ waiver.status = "requested"
           /\ CanApprove(waiver.policy, a)
           /\ ~HasApproved(waiver, a.user)
           /\ signed' = Append(signed, a)
           /\ request' = request
           /\ waiver' = AfterApproved(waiver,
                          Approved(a.user, Len(waiver.approvals) + 1 >= needed(waiver.policy)))
<1> DEFINE e == Approved(a.user, Len(waiver.approvals) + 1 >= needed(waiver.policy))
<1>1. /\ DecideApprove(waiver, a) # << >>
      /\ waiver' = EvolveAll(waiver, DecideApprove(waiver, a))
      /\ signed' = Append(signed, a) /\ request' = request
  BY DEF ApproveWaiver, Record
<1>2. /\ waiver.status = "requested"
      /\ CanApprove(waiver.policy, a)
      /\ ~HasApproved(waiver, a.user)
      /\ DecideApprove(waiver, a) = <<e>>
  BY <1>1 DEF DecideApprove
<1>3. Evolve(waiver, e) = AfterApproved(waiver, e)
  BY DEF Evolve, Approved
<1> HIDE DEF e
<1> QED
  BY <1>1, <1>2, <1>3, EvolveOne DEF e

LEMMA RejectStep ==
    ASSUME NEW a \in Approver, NEW reason \in Reasons, RejectWaiver(a, reason)
    PROVE  /\ waiver.status = "requested"
           /\ waiver' = [waiver EXCEPT !.status = "rejected", !.decidedBy = a.user]
           /\ UNCHANGED <<request, signed>>
<1>1. /\ DecideReject(waiver, a, reason) # << >>
      /\ waiver' = EvolveAll(waiver, DecideReject(waiver, a, reason))
      /\ UNCHANGED <<request, signed>>
  BY DEF RejectWaiver, Record
<1>2. waiver.status = "requested" /\ DecideReject(waiver, a, reason) = <<Rejected(a.user)>>
  BY <1>1 DEF DecideReject
<1>3. EvolveAll(waiver, <<Rejected(a.user)>>) = Evolve(waiver, Rejected(a.user))
  BY EvolveOne
<1>4. Evolve(waiver, Rejected(a.user)) = [waiver EXCEPT !.status = "rejected", !.decidedBy = a.user]
  BY DEF Evolve, Rejected
<1> QED
  BY <1>1, <1>2, <1>3, <1>4, Zenon

LEMMA InvalidateStep ==
    ASSUME NEW holds \in BOOLEAN, NEW why \in Endings, Invalidate(holds, why)
    PROVE  /\ waiver.status = "approved"
           /\ waiver' = [waiver EXCEPT !.status = "invalidated", !.endedBecause = why]
           /\ UNCHANGED <<request, signed>>
<1>1. /\ DecideInvalidate(waiver, holds, why) # << >>
      /\ waiver' = EvolveAll(waiver, DecideInvalidate(waiver, holds, why))
      /\ UNCHANGED <<request, signed>>
  BY DEF Invalidate, Record
<1>2. waiver.status = "approved" /\ DecideInvalidate(waiver, holds, why) = <<Invalidated(why)>>
  BY <1>1 DEF DecideInvalidate
<1>3. EvolveAll(waiver, <<Invalidated(why)>>) = Evolve(waiver, Invalidated(why))
  BY EvolveOne
<1>4. Evolve(waiver, Invalidated(why)) = [waiver EXCEPT !.status = "invalidated", !.endedBecause = why]
  BY DEF Evolve, Invalidated, AfterInvalidated
<1> QED
  BY <1>1, <1>2, <1>3, <1>4, Zenon

LEMMA RestoreStep ==
    ASSUME NEW holds \in BOOLEAN, NEW inSidecar \in BOOLEAN, Restore(holds, inSidecar)
    PROVE  /\ waiver.status = "invalidated"
           /\ waiver' = [waiver EXCEPT !.status = "approved", !.endedBecause = "none"]
           /\ UNCHANGED <<request, signed>>
<1>1. /\ DecideRestore(waiver, holds, inSidecar) # << >>
      /\ waiver' = EvolveAll(waiver, DecideRestore(waiver, holds, inSidecar))
      /\ UNCHANGED <<request, signed>>
  BY DEF Restore, Record
<1>2. waiver.status = "invalidated" /\ DecideRestore(waiver, holds, inSidecar) = <<Restored>>
  BY <1>1 DEF DecideRestore
<1>3. EvolveAll(waiver, <<Restored>>) = Evolve(waiver, Restored)
  BY EvolveOne
<1>4. Evolve(waiver, Restored) = [waiver EXCEPT !.status = "approved", !.endedBecause = "none"]
  BY DEF Evolve, Restored, AfterRestored
<1> QED
  BY <1>1, <1>2, <1>3, <1>4, Zenon

LEMMA WithdrawStep ==
    ASSUME NEW u \in User, WithdrawAcknowledgement(u)
    PROVE  /\ waiver.status = "approved"
           /\ waiver' = [waiver EXCEPT !.status = "withdrawn", !.withdrawnBy = u]
           /\ UNCHANGED <<request, signed>>
<1>1. /\ DecideWithdraw(waiver, u) # << >>
      /\ waiver' = EvolveAll(waiver, DecideWithdraw(waiver, u))
      /\ UNCHANGED <<request, signed>>
  BY DEF WithdrawAcknowledgement, Record
<1>2. waiver.status = "approved" /\ DecideWithdraw(waiver, u) = <<Withdrawn(u)>>
  BY <1>1 DEF DecideWithdraw
<1>3. EvolveAll(waiver, <<Withdrawn(u)>>) = Evolve(waiver, Withdrawn(u))
  BY EvolveOne
<1>4. Evolve(waiver, Withdrawn(u)) = [waiver EXCEPT !.status = "withdrawn", !.withdrawnBy = u]
  BY DEF Evolve, Withdrawn
<1> QED
  BY <1>1, <1>2, <1>3, <1>4, Zenon

LEMMA NoLongerNeededStep ==
    ASSUME ApproveWaitingAcknowledgement
    PROVE  /\ waiver.status = "requested"
           /\ Acknowledgement(waiver.scope)
           /\ waiver' = AfterApproved(waiver, Approved(Speccy, TRUE))
           /\ UNCHANGED <<request, signed>>
<1>1. /\ DecideNoLongerNeeded(waiver) # << >>
      /\ waiver' = EvolveAll(waiver, DecideNoLongerNeeded(waiver))
      /\ UNCHANGED <<request, signed>>
  BY DEF ApproveWaitingAcknowledgement, Record
<1>2. /\ waiver.status = "requested" /\ Acknowledgement(waiver.scope)
      /\ DecideNoLongerNeeded(waiver) = <<Approved(Speccy, TRUE)>>
  BY <1>1 DEF DecideNoLongerNeeded
<1>3. EvolveAll(waiver, <<Approved(Speccy, TRUE)>>) = Evolve(waiver, Approved(Speccy, TRUE))
  BY EvolveOne
<1>4. Evolve(waiver, Approved(Speccy, TRUE)) = AfterApproved(waiver, Approved(Speccy, TRUE))
  BY DEF Evolve, Approved
<1> QED
  BY <1>1, <1>2, <1>3, <1>4, Zenon

-----------------------------------------------------------------------------
(* The invariant. *)

LEMMA NoWaiverIsState == NoWaiver \in State
BY MaxNeededAssumption DEF NoWaiver, State, Statuses, Scopes, Policy, Endings

LEMMA InitStreamInv == StreamInit => StreamInv
<1> SUFFICES ASSUME StreamInit
             PROVE  StreamInv
  OBVIOUS
<1>2. StreamTypeOK
  BY NoWaiverIsState DEF StreamInit, StreamTypeOK
<1>3. Waiting /\ Decided /\ DeciderIsKnown
  BY DEF StreamInit, Waiting, Decided, DeciderIsKnown, NoWaiver
<1> QED
  BY <1>2, <1>3 DEF StreamInv

LEMMA ApprovedIsState ==
    ASSUME NEW s \in State, NEW u \in User \cup {Speccy}, NEW final \in BOOLEAN
    PROVE  AfterApproved(s, Approved(u, final)) \in State
<1> DEFINE e == Approved(u, final)
<1>1. e.by = u /\ e.final = final
  BY DEF Approved
<1> HIDE DEF e
<1>2. Append(s.approvals, u) \in Seq(User \cup {Speccy})
  BY DEF State
<1>3. "approved" \in Statuses
  BY DEF Statuses
<1>4. CASE final
  BY <1>1, <1>2, <1>3, <1>4 DEF AfterApproved, State, e
<1>5. CASE ~final
  BY <1>1, <1>2, <1>5 DEF AfterApproved, State, e
<1> QED
  BY <1>4, <1>5

LEMMA RequestedIsState ==
    ASSUME NEW r \in Request
    PROVE  AfterRequested(r) \in State
<1>1. r.scope \in Scopes /\ r.policy \in Policy /\ r.by \in User
  BY DEF Request
<1>2. "requested" \in Statuses
  BY DEF Statuses
<1> QED
  BY <1>1, <1>2, NoWaiverIsState DEF AfterRequested, State

\* A state with another status is a state.
LEMMA StatusIsState ==
    ASSUME NEW s \in State, NEW status \in Statuses
    PROVE  /\ \A u \in User : [s EXCEPT !.status = status, !.decidedBy = u] \in State
           /\ \A why \in Endings \cup {"none"} :
                [s EXCEPT !.status = status, !.endedBecause = why] \in State
BY DEF State

LEMMA StreamTypeStep == StreamTypeOK /\ [StreamNext]_streamVars => StreamTypeOK'
<1> SUFFICES ASSUME StreamTypeOK, [StreamNext]_streamVars
             PROVE  StreamTypeOK'
  OBVIOUS
<1> USE DEF StreamTypeOK
<1>1. ASSUME NEW r \in Request, RequestWaiver(r)
      PROVE  StreamTypeOK'
  <2>1. AfterRequested(r) \in State
    BY RequestedIsState
  <2>2. AfterApproved(AfterRequested(r), Approved(r.by, TRUE)) \in State
    BY <2>1, ApprovedIsState DEF Request
  <2> QED
    BY <1>1, <2>1, <2>2, RequestStep
<1>2. ASSUME NEW a \in Approver, ApproveWaiver(a)
      PROVE  StreamTypeOK'
  <2>1. \A final \in BOOLEAN : AfterApproved(waiver, Approved(a.user, final)) \in State
    BY ApprovedIsState DEF Approver
  <2> DEFINE final == Len(waiver.approvals) + 1 >= needed(waiver.policy)
  <2>2. final \in BOOLEAN
    OBVIOUS
  <2>3. waiver' = AfterApproved(waiver, Approved(a.user, final))
        /\ signed' = Append(signed, a) /\ request' = request
    BY <1>2, ApproveStep
  <2> HIDE DEF final
  <2> QED
    BY <2>1, <2>2, <2>3
<1>3. ASSUME NEW a \in Approver, NEW reason \in Reasons, RejectWaiver(a, reason)
      PROVE  StreamTypeOK'
  <2>1. [waiver EXCEPT !.status = "rejected", !.decidedBy = a.user] \in State
    BY StatusIsState DEF Statuses, Approver
  <2> QED
    BY <1>3, <2>1, RejectStep
<1>4. ASSUME NEW holds \in BOOLEAN, NEW why \in Endings, Invalidate(holds, why)
      PROVE  StreamTypeOK'
  <2>1. "invalidated" \in Statuses /\ why \in Endings \cup {"none"}
    BY DEF Statuses
  <2>2. [waiver EXCEPT !.status = "invalidated", !.endedBecause = why] \in State
    BY <2>1, StatusIsState
  <2> QED
    BY <1>4, <2>2, InvalidateStep
<1>5. ASSUME NEW holds \in BOOLEAN, NEW inSidecar \in BOOLEAN, Restore(holds, inSidecar)
      PROVE  StreamTypeOK'
  BY <1>5, RestoreStep DEF State, Statuses
<1>6. ASSUME NEW u \in User, WithdrawAcknowledgement(u)
      PROVE  StreamTypeOK'
  BY <1>6, WithdrawStep DEF State, Statuses
<1>7. CASE ApproveWaitingAcknowledgement
  <2>1. AfterApproved(waiver, Approved(Speccy, TRUE)) \in State
    BY ApprovedIsState
  <2> QED
    BY <1>7, <2>1, NoLongerNeededStep
<1>8. CASE UNCHANGED streamVars
  BY <1>8 DEF streamVars
<1> QED
  BY <1>1, <1>2, <1>3, <1>4, <1>5, <1>6, <1>7, <1>8 DEF StreamNext

LEMMA NeededIsPositive ==
    ASSUME NEW p \in Policy
    PROVE  needed(p) \in Nat \ {0}
BY MaxNeededAssumption DEF needed, Policy

\* One more approver, allowed and new, keeps the list of approvers good.
LEMMA SignatureAdded ==
    ASSUME NEW s \in Seq(Approver), NEW p \in Policy, GoodSignatures(p, s),
           NEW a \in Approver, CanApprove(p, a),
           \A i \in 1 .. Len(s) : s[i].user # a.user
    PROVE  GoodSignatures(p, Append(s, a))
<1>1. /\ Len(Append(s, a)) = Len(s) + 1
      /\ \A i \in 1 .. Len(s) : Append(s, a)[i] = s[i]
      /\ Append(s, a)[Len(s) + 1] = a
      /\ Len(s) \in Nat
  OBVIOUS
<1> DEFINE t == Append(s, a)
<1> HIDE DEF t
<1>2. \A i \in 1 .. Len(t) : i \in 1 .. Len(s) \/ i = Len(s) + 1
  BY <1>1 DEF t
<1>3. /\ \A i \in 1 .. Len(s) : t[i] = s[i]
      /\ t[Len(s) + 1] = a
      /\ Len(s) + 1 \notin 1 .. Len(s)
  BY <1>1 DEF t
<1>4. Distinct(t)
  BY <1>2, <1>3 DEF GoodSignatures, Distinct
<1>5. \A i \in 1 .. Len(t) : CanApprove(p, t[i])
  BY <1>2, <1>3 DEF GoodSignatures
<1> QED
  BY <1>4, <1>5 DEF GoodSignatures, t

LEMMA NextStreamInv == StreamInv /\ [StreamNext]_streamVars => StreamInv'
<1> SUFFICES ASSUME StreamInv, [StreamNext]_streamVars
             PROVE  Waiting' /\ Decided' /\ DeciderIsKnown'
  BY StreamTypeStep DEF StreamInv
<1>0. StreamTypeOK /\ Waiting /\ Decided /\ DeciderIsKnown /\ waiver \in State
  BY DEF StreamInv, StreamTypeOK
<1> USE DEF Waiting, Decided, DeciderIsKnown
<1>1. ASSUME NEW r \in Request, RequestWaiver(r)
      PROVE  Waiting' /\ Decided' /\ DeciderIsKnown'
  <2>1. waiver = NoWaiver /\ signed = << >> /\ signed' = << >> /\ request' = r
    BY <1>0, <1>1, RequestStep
  <2>2. r.by \in User /\ r.by # NoUser /\ r.policy \in Policy
    BY UserAssumption DEF Request
  <2>3. CASE waiver' = AfterRequested(r)
    <3>1. /\ waiver'.status = "requested" /\ waiver'.approvals = << >>
          /\ waiver'.policy = r.policy /\ waiver'.decidedBy = NoUser
      BY <2>3 DEF AfterRequested, NoWaiver
    <3>2. needed(r.policy) > 0
      BY <2>2, NeededIsPositive
    <3> QED
      BY <2>1, <3>1, <3>2 DEF GoodSignatures, Distinct
  <2>4. CASE DecidedAlone(r) /\ waiver' = AfterApproved(AfterRequested(r), Approved(r.by, TRUE))
    <3>1. waiver'.status = "approved" /\ waiver'.decidedBy = r.by
      BY <2>4 DEF AfterApproved, AfterRequested, NoWaiver, Approved
    <3> QED
      BY <2>1, <2>2, <2>4, <3>1
  <2> QED
    BY <1>1, <2>3, <2>4, RequestStep
<1>2. ASSUME NEW a \in Approver, ApproveWaiver(a)
      PROVE  Waiting' /\ Decided' /\ DeciderIsKnown'
  <2> DEFINE final == Len(waiver.approvals) + 1 >= needed(waiver.policy)
  <2>1. /\ waiver.status = "requested" /\ CanApprove(waiver.policy, a)
        /\ ~HasApproved(waiver, a.user) /\ signed' = Append(signed, a)
        /\ request' = request /\ waiver' = AfterApproved(waiver, Approved(a.user, final))
    BY <1>2, ApproveStep
  <2>2. /\ Len(signed) = Len(waiver.approvals)
        /\ \A i \in 1 .. Len(signed) : signed[i].user = waiver.approvals[i]
        /\ Len(signed) < needed(waiver.policy)
        /\ GoodSignatures(waiver.policy, signed)
        /\ waiver.decidedBy = NoUser
    BY <1>0, <2>1
  <2>3. /\ signed \in Seq(Approver) /\ waiver.policy \in Policy
        /\ waiver.approvals \in Seq(User \cup {Speccy})
        /\ a.user \in User /\ a.user # NoUser
    BY <1>0, UserAssumption DEF StreamTypeOK, State, Approver
  <2>4. GoodSignatures(waiver.policy, signed')
    <3>1. \A i \in 1 .. Len(signed) : signed[i].user # a.user
      BY <2>1, <2>2 DEF HasApproved
    <3> QED
      BY <2>1, <2>2, <2>3, <3>1, SignatureAdded
  <2>5. /\ Len(signed') = Len(signed) + 1
        /\ \A i \in 1 .. Len(signed) : signed'[i] = signed[i]
        /\ signed'[Len(signed) + 1] = a
    BY <2>1, <2>3
  <2>6. /\ waiver'.approvals = Append(waiver.approvals, a.user)
        /\ waiver'.policy = waiver.policy
        /\ waiver'.status = IF final THEN "approved" ELSE "requested"
        /\ waiver'.decidedBy = IF final THEN a.user ELSE NoUser
    BY <1>0, <2>1, <2>2 DEF AfterApproved, Approved, State
  <2>7. /\ Len(waiver'.approvals) = Len(signed')
        /\ \A i \in 1 .. Len(signed') : signed'[i].user = waiver'.approvals[i]
    BY <2>2, <2>3, <2>5, <2>6
  <2>8. needed(waiver.policy) \in Nat /\ Len(signed) \in Nat
    BY <2>3, NeededIsPositive
  <2>9. CASE final
    <3>1. Len(signed') = needed(waiver'.policy)
      BY <2>2, <2>5, <2>6, <2>8, <2>9
    <3> QED
      BY <2>3, <2>4, <2>6, <2>9, <3>1
  <2>10. CASE ~final
    <3>1. Len(signed') < needed(waiver'.policy)
      BY <2>2, <2>5, <2>6, <2>8, <2>10
    <3> QED
      BY <2>4, <2>6, <2>7, <2>10, <3>1
  <2> QED
    BY <2>9, <2>10
<1>3. ASSUME NEW a \in Approver, NEW reason \in Reasons, RejectWaiver(a, reason)
      PROVE  Waiting' /\ Decided' /\ DeciderIsKnown'
  <2>1. a.user # NoUser
    BY UserAssumption DEF Approver
  <2>2. waiver'.status = "rejected" /\ waiver'.decidedBy = a.user
    BY <1>0, <1>3, RejectStep DEF State
  <2> QED
    BY <2>1, <2>2
<1>4. ASSUME NEW holds \in BOOLEAN, NEW why \in Endings, Invalidate(holds, why)
      PROVE  Waiting' /\ Decided' /\ DeciderIsKnown'
  <2>1. /\ waiver'.status = "invalidated" /\ waiver'.decidedBy = waiver.decidedBy
        /\ waiver'.scope = waiver.scope /\ waiver'.policy = waiver.policy
        /\ waiver.status = "approved" /\ UNCHANGED <<request, signed>>
    <3>1. waiver' = [waiver EXCEPT !.status = "invalidated", !.endedBecause = why]
      BY <1>4, InvalidateStep
    <3>2. waiver.status = "approved" /\ UNCHANGED <<request, signed>>
      BY <1>4, InvalidateStep
    <3> QED
      BY <1>0, <3>1, <3>2 DEF State
  <2> QED
    BY <1>0, <2>1
<1>5. ASSUME NEW holds \in BOOLEAN, NEW inSidecar \in BOOLEAN, Restore(holds, inSidecar)
      PROVE  Waiting' /\ Decided' /\ DeciderIsKnown'
  <2>1. /\ waiver'.status = "approved" /\ waiver'.decidedBy = waiver.decidedBy
        /\ waiver'.scope = waiver.scope /\ waiver'.policy = waiver.policy
        /\ waiver.status = "invalidated" /\ UNCHANGED <<request, signed>>
    BY <1>0, <1>5, RestoreStep DEF State
  <2> QED
    BY <1>0, <2>1
<1>6. ASSUME NEW u \in User, WithdrawAcknowledgement(u)
      PROVE  Waiting' /\ Decided' /\ DeciderIsKnown'
  <2>1. /\ waiver'.status = "withdrawn" /\ waiver'.decidedBy = waiver.decidedBy
        /\ waiver'.scope = waiver.scope /\ waiver'.policy = waiver.policy
        /\ waiver.status = "approved" /\ UNCHANGED <<request, signed>>
    BY <1>0, <1>6, WithdrawStep DEF State
  <2> QED
    BY <1>0, <2>1
<1>7. CASE ApproveWaitingAcknowledgement
  <2>1. /\ waiver'.status = "approved" /\ waiver'.decidedBy = Speccy
        /\ waiver'.scope = waiver.scope /\ Acknowledgement(waiver.scope)
    BY <1>0, <1>7, NoLongerNeededStep DEF State, AfterApproved, Approved
  <2> QED
    BY <2>1, UserAssumption
<1>8. CASE UNCHANGED streamVars
  BY <1>0, <1>8 DEF streamVars
<1> QED
  BY <1>1, <1>2, <1>3, <1>4, <1>5, <1>6, <1>7, <1>8 DEF StreamNext

-----------------------------------------------------------------------------
(* The theorems. *)

THEOREM StreamInvariance == StreamSpec => []StreamInv
BY InitStreamInv, NextStreamInv, PTL DEF StreamSpec

\* The state of a waiver keeps its type under every order of commands.
THEOREM StreamTypeCorrect == StreamSpec => []StreamTypeOK
<1>1. StreamInv => StreamTypeOK
  BY DEF StreamInv
<1> QED
  BY <1>1, StreamInvariance, PTL

\* For any people and any N, a waiver in force, ended or withdrawn met its policy.
THEOREM ApprovedMeetsPolicy == StreamSpec => []PolicyMet
<1>1. StreamInv => PolicyMet
  <2> SUFFICES ASSUME StreamInv, waiver.status \in {"approved", "invalidated", "withdrawn"},
                      ~(DecidedAlone(request) /\ waiver.decidedBy = request.by),
                      ~(Acknowledgement(waiver.scope) /\ waiver.decidedBy = Speccy)
               PROVE  /\ Len(signed) = needed(waiver.policy)
                      /\ Distinct(signed)
                      /\ waiver.policy.name \in {"non_author", "n_approvals"} =>
                           \A i \in 1 .. Len(signed) : ~signed[i].author
                      /\ waiver.policy.name = "maintainer" =>
                           \A i \in 1 .. Len(signed) : signed[i].maintainer \/ signed[i].admin
    BY DEF PolicyMet, Distinct
  <2>1. Len(signed) = needed(waiver.policy) /\ GoodSignatures(waiver.policy, signed)
    BY DEF StreamInv, Decided
  <2> QED
    BY <2>1 DEF GoodSignatures, CanApprove
<1> QED
  BY <1>1, StreamInvariance, PTL

\* No command, sweep or late approval moves a rejected or withdrawn waiver.
THEOREM FinalIsFinal == StreamSpec => FinalStaysFinal
<1>1. StreamInv /\ [StreamNext]_streamVars =>
        [waiver.status \in {"rejected", "withdrawn"} => waiver' = waiver]_streamVars
  BY RequestStep, ApproveStep, RejectStep, InvalidateStep, RestoreStep, WithdrawStep,
     NoLongerNeededStep DEF StreamNext
<1> QED
  BY <1>1, StreamInvariance, PTL DEF StreamSpec, FinalStaysFinal

\* Who decided, the approvals and the policy outlive every end and every restoration.
THEOREM DecisionStays == StreamSpec => DecisionIsKept
<1>1. StreamInv /\ [StreamNext]_streamVars =>
        [waiver.decidedBy # NoUser =>
            /\ waiver'.decidedBy = waiver.decidedBy
            /\ waiver'.approvals = waiver.approvals
            /\ waiver'.policy = waiver.policy]_streamVars
  <2> SUFFICES ASSUME StreamInv, StreamNext, waiver.decidedBy # NoUser
               PROVE  /\ waiver'.decidedBy = waiver.decidedBy
                      /\ waiver'.approvals = waiver.approvals
                      /\ waiver'.policy = waiver.policy
    OBVIOUS
  <2>1. waiver \in State /\ waiver.status \notin {"none", "requested"}
    BY DEF StreamInv, StreamTypeOK, DeciderIsKnown
  <2>2. CASE \/ \E holds \in BOOLEAN, why \in Endings : Invalidate(holds, why)
             \/ \E holds, inSidecar \in BOOLEAN : Restore(holds, inSidecar)
             \/ \E u \in User : WithdrawAcknowledgement(u)
    BY <2>1, <2>2, InvalidateStep, RestoreStep, WithdrawStep DEF State
  <2> QED
    BY <2>1, <2>2, RequestStep, ApproveStep, RejectStep, NoLongerNeededStep DEF StreamNext
<1> QED
  BY <1>1, StreamInvariance, PTL DEF StreamSpec, DecisionIsKept
=============================================================================
