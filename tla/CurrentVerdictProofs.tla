-------------------------- MODULE CurrentVerdictProofs --------------------------
(***************************************************************************)
(* Proofs about CurrentVerdict for any requests, edits, changes of         *)
(* settings and reviews.                                                   *)
(*                                                                         *)
(* A lint pass holds the mutex from its read of the doc to its save, so a  *)
(* change that it has not seen waits for the mutex yet (Holding).  With no *)
(* change at the start of a review, runs are saved in the order in which   *)
(* they started, but for a full review, which may start long before it     *)
(* ends (Calm).  Linted, Current and Reaches each say of the properties    *)
(* what the changes and the review under way have left to do.              *)
(***************************************************************************)
EXTENDS CurrentVerdict, SequenceTheorems, FiniteSetTheorems, TLAPS

Record == [kind : {"full", "lint"}, status : Statuses, version : Nat, recorded : Nat, read : Nat, carried : Nat]

Writing == {"lint", "carry", "save"}
Linting == {"check"} \cup Writing
Queued == {"insert", "load", "judge", "ended"}

Complete == {i \in DOMAIN runs : runs[i].status = "complete"}
FullEnds == {i \in DOMAIN runs : runs[i].kind = "full" /\ runs[i].status = "complete"}
Stored(v) == {i \in DOMAIN runs : InStore(runs[i]) /\ runs[i].version = v}

Mine(a) == runs[mine[a]]
Busy == \E c \in Client : pc[c] # "idle"
Changed == \E c \in Client : pc[c] = "changed"

\* Who is where, and what the runs are.
Types ==
    /\ head \in 1 .. MaxEdits + 1
    /\ settings \in 1 .. MaxSettings + 1
    /\ runs \in Seq(Record)
    /\ mu \in Actor \cup {NoOne}
    /\ pc \in [Actor -> Steps]
    /\ seen \in [Actor -> 0 .. head]
    /\ mine \in [Actor -> Nat]
    /\ races \subseteq Races
    /\ \A c \in Client : pc[c] \in {"idle", "changed"} \cup Linting
    /\ pc[Worker] \notin {"changed", "check"}
    /\ \A a \in Actor : mu = a <=> pc[a] \in Linting

\* What a run is as long as somebody makes it, and after.
Rows ==
    /\ 1 \in Complete /\ runs[1].kind = "lint"
    /\ \A i \in DOMAIN runs :
         /\ runs[i].version \in 1 .. head
         /\ runs[i].recorded \in 1 .. settings /\ runs[i].read \in runs[i].recorded .. settings
         /\ runs[i].carried \in 0 .. Len(runs)
         /\ runs[i].kind = "lint" => runs[i].status \in {"begun", "complete"} /\ runs[i].read = runs[i].recorded
         /\ runs[i].kind = "full" /\ runs[i].status = "active" => i = mine[Worker] /\ pc[Worker] \in {"load", "judge"}

WorksOf(a) ==
    /\ pc[a] \in Writing => /\ mine[a] \in DOMAIN runs
                            /\ Mine(a).kind = "lint" /\ Mine(a).status = "begun" /\ Mine(a).version = seen[a]
    /\ pc[a] \in Linting \cup {"asked", "relint"} => seen[a] >= 1
    /\ mine[a] \in 0 .. Len(runs)

QueueWorks ==
    pc[Worker] \in Queued =>
        /\ mine[Worker] \in DOMAIN runs /\ Mine(Worker).kind = "full"
        /\ \A i \in DOMAIN runs : runs[i].kind = "full" => i <= mine[Worker]
        /\ pc[Worker] = "insert" => Mine(Worker).status = "begun"
        /\ pc[Worker] \in {"load", "judge"} => Mine(Worker).status = "active"
        /\ pc[Worker] = "ended" => Mine(Worker).status = "complete"

Works == QueueWorks /\ \A a \in Actor : WorksOf(a)

\* A change that the pass of a client has not seen waits for the mutex.
Holding ==
    \A c \in Client :
        /\ pc[c] \in Linting => seen[c] = head \/ Changed
        /\ pc[c] \in {"carry", "save"} => Mine(c).read = settings \/ Changed

Calm ==
    "start" \notin races =>
        /\ pc[Worker] \in {"asked", "insert"} => ~Busy
        /\ pc[Worker] = "insert" => mine[Worker] = Len(runs)
        /\ \A a \in Actor : pc[a] \in Writing => mine[a] = Len(runs)

Base == Types /\ Rows /\ Works /\ Holding /\ Calm

\* EveryVersionLinted: a version without a verdict has a change under way.
Judged == {runs[i].version : i \in Complete}

Linted ==
    "start" \notin races =>
        /\ head \in Judged \/ Busy
        /\ \A i \in DOMAIN runs : runs[i].kind = "full" => runs[i].version \in Judged
        /\ pc[Worker] = "asked" => seen[Worker] \in Judged

\* ShownIsCurrent: the runs are in the order of the versions.
Ordered ==
    /\ \A i, j \in DOMAIN runs : i < j => runs[i].version <= runs[j].version
    /\ \A c \in Client, i \in DOMAIN runs : pc[c] = "check" => runs[i].version <= seen[c]
    /\ pc[Worker] \in {"asked", "relint"} => seen[Worker] = head
    /\ pc[Worker] \in Writing => seen[Worker] = head \/ Changed
    /\ pc[Worker] \in {"carry", "save"} => Mine(Worker).read = settings \/ Changed

\* The review under way judges what is current.
JudgesCurrent == Mine(Worker).version = head /\ Mine(Worker).recorded = settings

Current ==
    races \cap {"start", "relint"} = {} =>
        /\ Ordered
        /\ currentShown \/ Busy
        /\ pc[Worker] = "insert" => JudgesCurrent
        /\ pc[Worker] \in {"load", "judge"} /\ Shown < mine[Worker] =>
              /\ JudgesCurrent \/ Busy
              /\ JudgesCurrent => currentShown

\* ReviewReachesVerdict: the worker is to lint the version that came meanwhile.
WillRelint == pc[Worker] = "relint" \/ (pc[Worker] = "ended" /\ head # Mine(Worker).version)

Reaches ==
    races \cap {"start", "settings"} = {} =>
        /\ Source(Shown) = LatestFull \/ WillRelint \/ pc[Worker] \in Writing
        /\ \A a \in Actor : pc[a] = "save" => Mine(a).carried = LatestFull \/ WillRelint
        /\ pc[Worker] \in Queued =>
             /\ Busy => head > Mine(Worker).version
             /\ \A j \in DOMAIN runs : j > mine[Worker] => head > Mine(Worker).version

IInv == Base /\ Linted /\ Current /\ Reaches

-----------------------------------------------------------------------------
(* The latest run of a set. *)

LEMMA LeastElement ==
    ASSUME NEW S \in SUBSET Nat, S # {}
    PROVE  \E k \in S : \A j \in S : k <= j
<1> DEFINE R == OpToRel(<, Nat)
<1>1. IsWellFoundedOn(R, Nat)
  BY NatLessThanWellFounded
<1>2. \A x, y \in Nat : <<x, y>> \in R <=> x < y
  BY DEF OpToRel
<1> HIDE DEF R
<1>3. PICK k \in S : \A j \in S : <<j, k>> \notin R
  BY <1>1, WFMin
<1>4. \A j \in S : ~(j < k)
  <2> TAKE j \in S
  <2>1. j \in Nat /\ k \in Nat
    OBVIOUS
  <2> QED
    BY <1>2, <1>3, <2>1
<1>5. \A j \in S : j \in Nat /\ k \in Nat
  OBVIOUS
<1>6. \A j \in S : k <= j
  BY <1>4, <1>5
<1> QED
  BY <1>6

LEMMA LatestOf ==
    ASSUME NEW n \in Nat, NEW T \in SUBSET (1 .. n)
    PROVE  /\ T = {} => Latest(T) = 0
           /\ T # {} => Latest(T) \in T /\ \A t \in T : t <= Latest(T)
           /\ Latest(T) \in 0 .. n
<1>1. CASE T = {}
  BY <1>1 DEF Latest
<1>2. CASE T # {}
  <2> DEFINE S == {n - t : t \in T}
  <2>1. S \in SUBSET Nat /\ S # {}
    BY <1>2
  <2> HIDE DEF S
  <2>2. PICK k \in S : \A j \in S : k <= j
    BY <2>1, LeastElement
  <2>3. \E t \in T : \A u \in T : t >= u
    <3>1. PICK t \in T : k = n - t
      BY <2>2 DEF S
    <3>2. \A u \in T : n - u \in S
      BY DEF S
    <3>3. \A u \in T : n - t <= n - u
      BY <2>2, <3>1, <3>2
    <3>4. \A u \in T : u \in Int /\ t \in Int
      BY <3>1
    <3> QED
      BY <3>1, <3>3, <3>4
  <2>4. Max(T) \in T /\ \A u \in T : Max(T) >= u
    BY <2>3 DEF Max
  <2>5. Latest(T) = Max(T)
    BY <1>2 DEF Latest
  <2>6. Max(T) \in 0 .. n /\ \A t \in T : t <= Max(T)
    <3>1. Max(T) \in 1 .. n /\ \A u \in T : u \in 1 .. n
      BY <2>4
    <3> QED
      BY <2>4, <3>1
  <2> QED
    BY <1>2, <2>4, <2>5, <2>6
<1> QED
  BY <1>1, <1>2

LEMMA LatestAdded ==
    ASSUME NEW n \in Nat, NEW T \in SUBSET (1 .. n), NEW k \in 1 .. n
    PROVE  Latest(T \cup {k}) = IF Latest(T) < k THEN k ELSE Latest(T)
<1>1. T \cup {k} \in SUBSET (1 .. n) /\ T \cup {k} # {}
  OBVIOUS
<1>2. Latest(T \cup {k}) \in T \cup {k} /\ \A t \in T \cup {k} : t <= Latest(T \cup {k})
  BY <1>1, LatestOf
<1> DEFINE m == Latest(T \cup {k})
<1>3. m \in T \cup {k} /\ \A t \in T \cup {k} : t <= m
  BY <1>2
<1>4. /\ T = {} => Latest(T) = 0
      /\ T # {} => Latest(T) \in T /\ \A t \in T : t <= Latest(T)
  BY LatestOf
<1>t. \A t \in T \cup {k} : t \in 1 .. n
  OBVIOUS
<1>z. m \in 1 .. n
  BY <1>3, <1>t
<1> HIDE DEF m
<1>5. m = IF Latest(T) < k THEN k ELSE Latest(T)
  <2>1. CASE T = {}
    BY <1>3, <1>4, <2>1
  <2>2. CASE T # {} /\ m = k
    <3>1. Latest(T) \in T /\ Latest(T) <= k /\ Latest(T) \in 1 .. n /\ k \in 1 .. n
      BY <1>3, <1>4, <1>t, <2>2
    <3> QED
      BY <2>2, <3>1
  <2>3. CASE T # {} /\ m \in T
    <3>1. m <= Latest(T) /\ Latest(T) <= m /\ k <= m
      BY <1>3, <1>4, <2>3
    <3>2. m \in 1 .. n /\ Latest(T) \in 1 .. n /\ k \in 1 .. n
      BY <1>4, <1>t, <1>z, <2>3
    <3> QED
      BY <3>1, <3>2
  <2> QED
    BY <1>3, <2>1, <2>2, <2>3
<1> QED
  BY <1>5 DEF m

LEMMA Asked ==
    /\ Shown = Latest(Complete) /\ LatestFull = Latest(FullEnds)
    /\ \A v : LatestRunFor(v) = Latest(Stored(v))
<1>1. Shown = Latest(Complete)
  BY DEF Shown, RunsThat, Complete
<1>2. LatestFull = Latest(FullEnds)
  BY DEF LatestFull, RunsThat, FullEnds
<1>3. \A v : LatestRunFor(v) = Latest(Stored(v))
  BY DEF LatestRunFor, RunsThat, Stored
<1> QED
  BY <1>1, <1>2, <1>3

LEMMA AskedNext == Shown' = Latest(Complete') /\ LatestFull' = Latest(FullEnds')
<1>1. Shown' = Latest(Complete')
  BY DEF Shown, RunsThat, Complete
<1>2. LatestFull' = Latest(FullEnds')
  BY DEF LatestFull, RunsThat, FullEnds
<1> QED
  BY <1>1, <1>2

-----------------------------------------------------------------------------
(* What a step does to the runs. *)

LEMMA RunTypes ==
    ASSUME Types
    PROVE  /\ runs \in Seq(Record) /\ Len(runs) \in Nat /\ DOMAIN runs = 1 .. Len(runs)
           /\ \A i \in DOMAIN runs : runs[i] \in Record
           /\ Complete \subseteq 1 .. Len(runs) /\ FullEnds \subseteq 1 .. Len(runs)
           /\ \A v : Stored(v) \subseteq 1 .. Len(runs)
<1>1. runs \in Seq(Record)
  BY DEF Types
<1>2. Len(runs) \in Nat /\ DOMAIN runs = 1 .. Len(runs) /\ \A i \in DOMAIN runs : runs[i] \in Record
  BY <1>1, LenProperties, ElementOfSeq
<1> QED
  BY <1>1, <1>2 DEF Complete, FullEnds, Stored

\* One run more, or one run that becomes another.
Adds(r) ==
    /\ runs' \in Seq(Record) /\ Len(runs') = Len(runs) + 1
    /\ DOMAIN runs' = DOMAIN runs \cup {Len(runs) + 1}
    /\ runs'[Len(runs) + 1] = r
    /\ \A i \in DOMAIN runs : runs'[i] = runs[i]

Makes(k, r) ==
    /\ runs' \in Seq(Record) /\ Len(runs') = Len(runs)
    /\ DOMAIN runs' = DOMAIN runs
    /\ runs'[k] = r
    /\ \A i \in DOMAIN runs : i # k => runs'[i] = runs[i]

LEMMA Appended ==
    ASSUME Types, NEW r \in Record, runs' = Append(runs, r)
    PROVE  Adds(r)
<1>1. runs \in Seq(Record) /\ Len(runs) \in Nat /\ DOMAIN runs = 1 .. Len(runs)
  BY RunTypes
<1>2. /\ runs' \in Seq(Record) /\ Len(runs') = Len(runs) + 1
      /\ runs'[Len(runs) + 1] = r
      /\ \A i \in 1 .. Len(runs) : runs'[i] = runs[i]
  BY <1>1, AppendProperties
<1>3. DOMAIN runs' = 1 .. Len(runs) + 1
  BY <1>2, LenProperties
<1> QED
  BY <1>1, <1>2, <1>3 DEF Adds

LEMMA Updated ==
    ASSUME Types, NEW k \in DOMAIN runs, NEW r \in Record, runs' = [runs EXCEPT ![k] = r]
    PROVE  Makes(k, r)
<1>1. runs \in Seq(Record) /\ Len(runs) \in Nat /\ DOMAIN runs = 1 .. Len(runs)
  BY RunTypes
<1>2. runs' \in Seq(Record) /\ Len(runs') = Len(runs)
  BY <1>1, ExceptSeq
<1>3. DOMAIN runs' = DOMAIN runs /\ runs'[k] = r /\ \A i \in DOMAIN runs : i # k => runs'[i] = runs[i]
  OBVIOUS
<1> QED
  BY <1>2, <1>3 DEF Makes

LEMMA Facts ==
    ASSUME Base
    PROVE  /\ head \in Nat /\ head >= 1 /\ settings \in Nat /\ settings >= 1
           /\ Worker \in Actor /\ Client \subseteq Actor /\ Worker \notin Client /\ NoOne \notin Actor
           /\ \A a \in Actor : a \in Client \/ a = Worker
           /\ pc \in [Actor -> Steps] /\ seen \in [Actor -> 0 .. head] /\ mine \in [Actor -> Nat]
           /\ seen \in [Actor -> Nat]
           /\ mu \in Actor \cup {NoOne}
           /\ \A c \in Client : pc[c] \in {"idle", "changed", "check", "lint", "carry", "save"}
           /\ pc[Worker] \in {"idle", "lint", "carry", "save", "asked", "insert", "load", "judge", "ended", "relint"}
           /\ \A a \in Actor : mu = a <=> pc[a] \in {"check", "lint", "carry", "save"}
<1>1. Types
  BY DEF Base
<1>2. /\ head \in Nat /\ head >= 1 /\ settings \in Nat /\ settings >= 1
      /\ pc \in [Actor -> Steps] /\ seen \in [Actor -> 0 .. head] /\ mine \in [Actor -> Nat]
      /\ mu \in Actor \cup {NoOne}
      /\ \A a \in Actor : mu = a <=> pc[a] \in {"check", "lint", "carry", "save"}
      /\ \A c \in Client : pc[c] \in {"idle", "changed", "check", "lint", "carry", "save"}
      /\ pc[Worker] \notin {"changed", "check"}
  BY <1>1, BoundsAssumption DEF Types, Linting, Writing
<1>3. /\ Worker \in Actor /\ Client \subseteq Actor /\ Worker \notin Client /\ NoOne \notin Actor
      /\ \A a \in Actor : a \in Client \/ a = Worker
  BY ActorAssumption DEF Actor
<1>4. pc[Worker] \in {"idle", "lint", "carry", "save", "asked", "insert", "load", "judge", "ended", "relint"}
  BY <1>2, <1>3 DEF Steps
<1>5. seen \in [Actor -> Nat]
  BY <1>2
<1> QED
  BY <1>2, <1>3, <1>4, <1>5

LEMMA NewRunIsRecord ==
    ASSUME NEW kind \in {"full", "lint"}, NEW v \in Nat, NEW now \in Nat
    PROVE  /\ NewRun(kind, v, now) \in Record
           /\ NewRun(kind, v, now).kind = kind /\ NewRun(kind, v, now).status = "begun"
           /\ NewRun(kind, v, now).version = v /\ NewRun(kind, v, now).recorded = now
           /\ NewRun(kind, v, now).read = now /\ NewRun(kind, v, now).carried = 0
BY DEF NewRun, Record, Statuses

\* The run that an actor makes.
LEMMA HasRun ==
    ASSUME Base, NEW a \in Actor, pc[a] \in Writing \/ (a = Worker /\ pc[a] \in Queued)
    PROVE  /\ mine[a] \in DOMAIN runs /\ Mine(a) \in Record /\ mine[a] # 1
           /\ pc[a] \in Writing => Mine(a).kind = "lint" /\ Mine(a).status = "begun" /\ Mine(a).version = seen[a]
           /\ pc[a] \in Queued => Mine(a).kind = "full"
<1>1. /\ mine[a] \in DOMAIN runs
      /\ pc[a] \in Writing => Mine(a).kind = "lint" /\ Mine(a).status = "begun" /\ Mine(a).version = seen[a]
      /\ pc[a] \in Queued => Mine(a).kind = "full"
  BY Facts DEF Base, Works, WorksOf, QueueWorks, Writing, Queued
<1>2. runs[1].kind = "lint" /\ runs[1].status = "complete"
  BY DEF Base, Rows, Complete
<1>3. mine[a] # 1
  BY <1>1, <1>2 DEF Mine
<1>4. Mine(a) \in Record
  BY <1>1, RunTypes DEF Base, Mine
<1> QED
  BY <1>1, <1>3, <1>4

LEMMA Begins ==
    ASSUME Base, NEW a \in Actor, NEW v \in Nat, BeginLint(a, v)
    PROVE  /\ Adds(NewRun("lint", v, settings)) /\ NewRun("lint", v, settings) \in Record
           /\ mine' = [mine EXCEPT ![a] = Len(runs) + 1] /\ pc' = [pc EXCEPT ![a] = "lint"]
<1>1. NewRun("lint", v, settings) \in Record
  BY Facts, NewRunIsRecord
<1> QED
  BY <1>1, Appended DEF BeginLint, GoTo, Base

Settled(r) == [r EXCEPT !.recorded = settings, !.read = settings]

LEMMA Loads ==
    ASSUME Base, NEW a \in Actor, LintLoads(a)
    PROVE  Makes(mine[a], Settled(Mine(a))) /\ Settled(Mine(a)) \in Record
<1>1. mine[a] \in DOMAIN runs /\ Mine(a) \in Record
  BY HasRun DEF LintLoads, Writing
<1>2. Settled(Mine(a)) \in Record
  BY <1>1, Facts DEF Settled, Record
<1>3. runs' = [runs EXCEPT ![mine[a]] = Settled(Mine(a))]
  BY <1>1 DEF LintLoads, Settled, Mine
<1> QED
  BY <1>1, <1>2, <1>3, Updated DEF Base

Carrying(r) == [r EXCEPT !.carried = LatestFull]

LEMMA Carries ==
    ASSUME Base, NEW a \in Actor, Carry(a)
    PROVE  /\ Makes(mine[a], Carrying(Mine(a))) /\ Carrying(Mine(a)) \in Record
           /\ LatestFull \in 0 .. Len(runs)
<1>1. mine[a] \in DOMAIN runs /\ Mine(a) \in Record
  BY HasRun DEF Carry, Writing
<1>2. LatestFull \in 0 .. Len(runs)
  BY RunTypes, Asked, LatestOf DEF Base
<1>3. LatestFull \in Nat
  BY <1>2, RunTypes DEF Base
<1>4. Carrying(Mine(a)) \in Record
  BY <1>1, <1>3 DEF Carrying, Record
<1>5. runs' = [runs EXCEPT ![mine[a]] = Carrying(Mine(a))]
  BY <1>1 DEF Carry, Carrying, Mine
<1> QED
  BY <1>1, <1>2, <1>4, <1>5, Updated DEF Base

WithStatus(r, status) == [r EXCEPT !.status = status]

LEMMA EndsAs ==
    ASSUME Base, NEW a \in Actor, NEW status \in Statuses, pc[a] \in Writing \/ (a = Worker /\ pc[a] \in Queued),
           runs' = [runs EXCEPT ![mine[a]].status = status]
    PROVE  Makes(mine[a], WithStatus(Mine(a), status)) /\ WithStatus(Mine(a), status) \in Record
<1>1. mine[a] \in DOMAIN runs /\ Mine(a) \in Record
  BY HasRun
<1>2. WithStatus(Mine(a), status) \in Record
  BY <1>1 DEF WithStatus, Record
<1>3. runs' = [runs EXCEPT ![mine[a]] = WithStatus(Mine(a), status)]
  BY <1>1 DEF WithStatus, Mine
<1> QED
  BY <1>1, <1>2, <1>3, Updated DEF Base

ReadNow(r) == [r EXCEPT !.read = settings]

LEMMA LoadsAgain ==
    ASSUME Base, Load
    PROVE  Makes(mine[Worker], ReadNow(Mine(Worker))) /\ ReadNow(Mine(Worker)) \in Record
<1>1. mine[Worker] \in DOMAIN runs /\ Mine(Worker) \in Record
  BY HasRun, Facts DEF Load, Queued
<1>2. ReadNow(Mine(Worker)) \in Record
  BY <1>1, Facts DEF ReadNow, Record
<1>3. runs' = [runs EXCEPT ![mine[Worker]] = ReadNow(Mine(Worker))]
  BY <1>1 DEF Load, ReadNow, Mine
<1> QED
  BY <1>1, <1>2, <1>3, Updated DEF Base

-----------------------------------------------------------------------------
(* The rows. *)

LEMMA RowsKept ==
    ASSUME Base, UNCHANGED runs, head' \in Nat, settings' \in Nat, head' >= head, settings' >= settings,
           pc[Worker] \in {"load", "judge"} => pc'[Worker] = pc[Worker] /\ mine'[Worker] = mine[Worker]
    PROVE  Rows'
<1>1. Rows /\ head \in Nat /\ settings \in Nat
  BY Facts DEF Base
<1>2. \A i \in DOMAIN runs : runs[i] \in Record
  BY RunTypes DEF Base
<1>3. \A i \in DOMAIN runs :
         /\ runs[i].version \in 1 .. head'
         /\ runs[i].recorded \in 1 .. settings' /\ runs[i].read \in runs[i].recorded .. settings'
  BY <1>1, <1>2 DEF Rows, Record
<1> QED
  BY <1>1, <1>3 DEF Rows, Complete

LEMMA RowsAdded ==
    ASSUME Base, NEW kind \in {"full", "lint"}, NEW v \in 1 .. head, Adds(NewRun(kind, v, settings)),
           UNCHANGED <<head, settings>>,
           pc[Worker] \in {"load", "judge"} => pc'[Worker] = pc[Worker] /\ mine'[Worker] = mine[Worker]
    PROVE  Rows'
<1>1. Rows /\ head \in Nat /\ settings \in Nat /\ settings >= 1 /\ Len(runs) \in Nat /\ DOMAIN runs = 1 .. Len(runs)
  BY Facts, RunTypes DEF Base
<1> DEFINE r == NewRun(kind, v, settings)  l == Len(runs) + 1
<1>2. r.kind = kind /\ r.status = "begun" /\ r.version = v /\ r.recorded = settings /\ r.read = settings /\ r.carried = 0
  BY <1>1, NewRunIsRecord
<1>3. /\ DOMAIN runs' = DOMAIN runs \cup {l} /\ runs'[l] = r /\ \A i \in DOMAIN runs : runs'[i] = runs[i]
      /\ Len(runs') = l
  BY DEF Adds
<1> HIDE DEF r, l
<1>4. 1 \in Complete' /\ runs'[1].kind = "lint"
  BY <1>1, <1>3 DEF Rows, Complete
<1>5. ASSUME NEW i \in DOMAIN runs
      PROVE  /\ runs'[i].version \in 1 .. head
             /\ runs'[i].recorded \in 1 .. settings /\ runs'[i].read \in runs'[i].recorded .. settings
             /\ runs'[i].carried \in 0 .. l
             /\ runs'[i].kind = "lint" => runs'[i].status \in {"begun", "complete"} /\ runs'[i].read = runs'[i].recorded
             /\ runs'[i].kind = "full" /\ runs'[i].status = "active" => i = mine'[Worker] /\ pc'[Worker] \in {"load", "judge"}
  <2>1. /\ runs[i].version \in 1 .. head
        /\ runs[i].recorded \in 1 .. settings /\ runs[i].read \in runs[i].recorded .. settings
        /\ runs[i].carried \in 0 .. Len(runs)
        /\ runs[i].kind = "lint" => runs[i].status \in {"begun", "complete"} /\ runs[i].read = runs[i].recorded
        /\ runs[i].kind = "full" /\ runs[i].status = "active" => i = mine[Worker] /\ pc[Worker] \in {"load", "judge"}
    BY <1>1 DEF Rows
  <2>2. runs[i].carried \in 0 .. l
    BY <1>1, <2>1 DEF l
  <2> QED
    BY <1>3, <2>1, <2>2
<1>6. /\ r.version \in 1 .. head /\ r.recorded \in 1 .. settings /\ r.read \in r.recorded .. settings
      /\ r.carried \in 0 .. l
  BY <1>1, <1>2 DEF l
<1> QED
  BY <1>2, <1>3, <1>4, <1>5, <1>6 DEF Rows

LEMMA RowsMade ==
    ASSUME Base, NEW k \in DOMAIN runs, NEW r \in Record, Makes(k, r), k # 1, UNCHANGED <<head, settings>>,
           r.version = runs[k].version,
           r.recorded \in 1 .. settings, r.read \in r.recorded .. settings, r.carried \in 0 .. Len(runs),
           r.kind = "lint" => r.status \in {"begun", "complete"} /\ r.read = r.recorded,
           r.kind = "full" /\ r.status = "active" => k = mine'[Worker] /\ pc'[Worker] \in {"load", "judge"},
           k # mine[Worker] /\ pc[Worker] \in {"load", "judge"} => pc'[Worker] = pc[Worker] /\ mine'[Worker] = mine[Worker]
    PROVE  Rows'
<1>1. Rows /\ DOMAIN runs' = DOMAIN runs /\ runs'[k] = r /\ Len(runs') = Len(runs)
      /\ \A i \in DOMAIN runs : i # k => runs'[i] = runs[i]
  BY DEF Base, Makes
<1>2. 1 \in Complete' /\ runs'[1].kind = "lint"
  BY <1>1 DEF Rows, Complete
<1>3. \A i \in DOMAIN runs :
         /\ runs'[i].version \in 1 .. head
         /\ runs'[i].recorded \in 1 .. settings /\ runs'[i].read \in runs'[i].recorded .. settings
         /\ runs'[i].carried \in 0 .. Len(runs)
         /\ runs'[i].kind = "lint" => runs'[i].status \in {"begun", "complete"} /\ runs'[i].read = runs'[i].recorded
         /\ runs'[i].kind = "full" /\ runs'[i].status = "active" => i = mine'[Worker] /\ pc'[Worker] \in {"load", "judge"}
  BY <1>1 DEF Rows
<1> QED
  BY <1>1, <1>2, <1>3 DEF Rows

-----------------------------------------------------------------------------
(* One actor moves. *)

Moves(a) ==
    /\ pc' = [pc EXCEPT ![a] = pc'[a]] /\ pc'[a] \in Steps
    /\ seen' = [seen EXCEPT ![a] = seen'[a]] /\ seen'[a] \in 0 .. head'
    /\ mine' = [mine EXCEPT ![a] = mine'[a]] /\ mine'[a] \in Nat

\* It takes the mutex, gives it back, or leaves it.
MutexMoves(a) ==
    \/ mu' = mu /\ (pc'[a] \in Linting <=> pc[a] \in Linting)
    \/ mu = NoOne /\ mu' = a /\ pc'[a] \in Linting
    \/ pc[a] \in Linting /\ mu' = NoOne /\ pc'[a] \notin Linting

LEMMA Others ==
    ASSUME Base, NEW a \in Actor, Moves(a)
    PROVE  /\ \A b \in Actor : b # a => pc'[b] = pc[b] /\ seen'[b] = seen[b] /\ mine'[b] = mine[b]
           /\ pc' \in [Actor -> Steps] /\ mine' \in [Actor -> Nat]
           /\ DOMAIN seen' = Actor
BY Facts DEF Moves

\* At most one actor lints.
LEMMA OneLints ==
    ASSUME Base, NEW a \in Actor, pc[a] \in Linting
    PROVE  mu = a /\ mu # NoOne /\ \A b \in Actor : b # a => pc[b] \notin Linting
BY Facts DEF Base, Types

LEMMA NobodyLints ==
    ASSUME Base, mu = NoOne
    PROVE  \A b \in Actor : pc[b] \notin Linting
BY Facts DEF Base, Types

LEMMA TypesStep ==
    ASSUME Base, NEW a \in Actor, Moves(a), MutexMoves(a),
           head' \in head .. MaxEdits + 1, settings' \in 1 .. MaxSettings + 1, runs' \in Seq(Record), races' \subseteq Races,
           a \in Client => pc'[a] \in {"idle", "changed"} \cup Linting,
           a = Worker => pc'[a] \notin {"changed", "check"}
    PROVE  Types'
<1>1. /\ Types /\ head \in Nat /\ head >= 1
      /\ Worker \in Actor /\ Client \subseteq Actor /\ NoOne \notin Actor /\ Worker \notin Client
  BY Facts DEF Base
<1>2. /\ \A b \in Actor : b # a => pc'[b] = pc[b] /\ seen'[b] = seen[b] /\ mine'[b] = mine[b]
      /\ pc' \in [Actor -> Steps] /\ mine' \in [Actor -> Nat] /\ DOMAIN seen' = Actor
  BY Others
<1>3. head' \in 1 .. MaxEdits + 1
  BY <1>1, BoundsAssumption
<1>4. seen' \in [Actor -> 0 .. head']
  <2>1. \A b \in Actor : b # a => seen'[b] \in 0 .. head'
    <3> TAKE b \in Actor
    <3> HAVE b # a
    <3>1. seen[b] \in 0 .. head
      BY <1>1 DEF Types
    <3>2. head' \in Nat /\ head' >= head
      BY <1>1, <1>3, BoundsAssumption
    <3> QED
      BY <1>1, <1>2, <3>1, <3>2
  <2>2. seen'[a] \in 0 .. head'
    BY DEF Moves
  <2>3. \A b \in Actor : seen'[b] \in 0 .. head'
    BY <2>1, <2>2
  <2>4. seen' = [b \in Actor |-> seen'[b]]
    BY <1>1 DEF Moves, Types
  <2> QED
    BY <2>3, <2>4
<1>5. /\ mu' \in Actor \cup {NoOne}
      /\ \A b \in Actor : mu' = b <=> pc'[b] \in Linting
  <2>1. mu \in Actor \cup {NoOne} /\ \A b \in Actor : mu = b <=> pc[b] \in Linting
    BY <1>1 DEF Types
  <2>2. mu' \in Actor \cup {NoOne}
    BY <2>1 DEF MutexMoves
  <2>3. mu' = a <=> pc'[a] \in Linting
    BY <1>1, <2>1 DEF MutexMoves
  <2>4. ASSUME NEW b \in Actor, b # a PROVE mu' = b <=> mu = b
    BY <1>1, <2>1, <2>4 DEF MutexMoves
  <2>5. ASSUME NEW b \in Actor, b # a PROVE mu' = b <=> pc'[b] \in Linting
    BY <1>2, <2>1, <2>4, <2>5
  <2> QED
    BY <2>2, <2>3, <2>5
<1>6. /\ \A c \in Client : pc'[c] \in {"idle", "changed"} \cup Linting
      /\ pc'[Worker] \notin {"changed", "check"}
  BY <1>1, <1>2 DEF Types
<1> QED
  BY <1>2, <1>3, <1>4, <1>5, <1>6 DEF Types, Linting, Writing

\* The runs of the others are kept.
Keeps(a) ==
    /\ runs' \in Seq(Record) /\ DOMAIN runs \subseteq DOMAIN runs' /\ Len(runs') >= Len(runs)
    /\ \A i \in DOMAIN runs : i = mine[a] \/ runs'[i] = runs[i]

Owns(a) == pc[a] \in Writing \/ (a = Worker /\ pc[a] \in Queued)

LEMMA OthersWork ==
    ASSUME Base, NEW a \in Actor, Moves(a), Keeps(a), Owns(a) \/ \A i \in DOMAIN runs : runs'[i] = runs[i]
    PROVE  /\ \A b \in Actor : b # a => WorksOf(b)'
           /\ \A b \in Actor : b # a /\ Owns(b) => mine[b] \in DOMAIN runs' /\ runs'[mine[b]] = Mine(b)
<1>1. /\ \A b \in Actor : b # a => pc'[b] = pc[b] /\ seen'[b] = seen[b] /\ mine'[b] = mine[b]
      /\ pc' \in [Actor -> Steps] /\ mine' \in [Actor -> Nat]
  BY Others
<1>2. \A b \in Actor : b # a /\ Owns(b) => mine[b] \in DOMAIN runs /\ runs'[mine[b]] = Mine(b)
  <2> TAKE b \in Actor
  <2> HAVE b # a /\ Owns(b)
  <2>1. mine[b] \in DOMAIN runs /\ (pc[b] \in Writing => Mine(b).kind = "lint") /\ (pc[b] \in Queued => Mine(b).kind = "full")
    BY HasRun DEF Owns
  <2>2. CASE \A i \in DOMAIN runs : runs'[i] = runs[i]
    BY <2>1, <2>2 DEF Mine
  <2>3. CASE Owns(a)
    <3>1. (pc[a] \in Writing => Mine(a).kind = "lint") /\ (pc[a] \in Queued => Mine(a).kind = "full")
      BY <2>3, HasRun DEF Owns
    <3>2. ~(pc[a] \in Writing /\ pc[b] \in Writing)
      BY OneLints DEF Linting
    <3>3. mine[a] # mine[b]
      BY <2>1, <2>3, <3>1, <3>2 DEF Owns, Mine
    <3> QED
      BY <2>1, <3>3 DEF Keeps, Mine
  <2> QED
    BY <2>2, <2>3
<1>3. \A b \in Actor : b # a => WorksOf(b)'
  <2> TAKE b \in Actor
  <2> HAVE b # a
  <2>1. WorksOf(b)
    BY DEF Base, Works
  <2>2. pc[b] \in Writing => mine[b] \in DOMAIN runs' /\ runs'[mine[b]] = Mine(b)
    BY <1>2 DEF Owns, Keeps
  <2>3. Len(runs) \in Nat /\ Len(runs') \in Nat /\ Len(runs') >= Len(runs)
    BY RunTypes, LenProperties DEF Base, Keeps
  <2>4. mine[b] \in 0 .. Len(runs) => mine[b] \in 0 .. Len(runs')
    BY <2>3
  <2> QED
    BY <1>1, <2>1, <2>2, <2>4 DEF WorksOf, Mine
<1> QED
  BY <1>2, <1>3 DEF Keeps

\* The review under way is kept by the steps of the clients.
LEMMA QueueStep ==
    ASSUME Base, NEW a \in Actor, a # Worker, Moves(a), Keeps(a), Owns(a) \/ \A i \in DOMAIN runs : runs'[i] = runs[i],
           \A i \in DOMAIN runs' : runs'[i].kind = "full" => i \in DOMAIN runs /\ runs[i].kind = "full"
    PROVE  QueueWorks'
<1>1. /\ pc'[Worker] = pc[Worker] /\ mine'[Worker] = mine[Worker]
      /\ QueueWorks
  BY Others, Facts DEF Base, Works
<1>2. pc[Worker] \in Queued => mine[Worker] \in DOMAIN runs' /\ runs'[mine[Worker]] = Mine(Worker)
  BY Facts, OthersWork DEF Owns
<1> QED
  BY <1>1, <1>2 DEF QueueWorks, Mine

LEMMA HoldingOfWorker ==
    ASSUME Base, Moves(Worker), Keeps(Worker), Owns(Worker) \/ \A i \in DOMAIN runs : runs'[i] = runs[i],
           UNCHANGED <<head, settings>>
    PROVE  Holding'
<1>1. Holding /\ \A c \in Client : c \in Actor /\ c # Worker
  BY Facts DEF Base
<1>2. \A c \in Client : pc'[c] = pc[c] /\ seen'[c] = seen[c] /\ mine'[c] = mine[c]
  BY <1>1, Facts, Others
<1>3. \A c \in Client : pc[c] \in {"carry", "save"} => runs'[mine[c]] = Mine(c)
  BY <1>1, Facts, OthersWork DEF Owns, Writing
<1>4. Changed => Changed'
  BY <1>2 DEF Changed
<1> QED
  BY <1>1, <1>2, <1>3, <1>4 DEF Holding, Mine

\* No run is started, and no client asks for anything.
LEMMA CalmStep ==
    ASSUME Base, NEW a \in Actor, Moves(a), Len(runs') = Len(runs), UNCHANGED races,
           pc'[a] = "asked" => a # Worker, pc'[a] = "insert" => a # Worker,
           pc'[a] \in Writing => pc[a] \in Writing /\ mine'[a] = mine[a],
           a \in Client => pc[a] # "idle"
    PROVE  Calm'
<1>1. \A b \in Actor : b # a => pc'[b] = pc[b] /\ mine'[b] = mine[b]
  BY Others
<1>2. Calm /\ Worker \in Actor /\ Client \subseteq Actor
  BY Facts DEF Base
<1>3. Busy' => Busy
  BY <1>1, <1>2 DEF Busy
<1>4. \A b \in Actor : pc'[b] \in Writing => pc[b] \in Writing /\ mine'[b] = mine[b]
  BY <1>1
<1>5. pc'[Worker] \in {"asked", "insert"} => a # Worker /\ pc'[Worker] = pc[Worker] /\ mine'[Worker] = mine[Worker]
  BY <1>1, <1>2
<1> QED
  BY <1>2, <1>3, <1>4, <1>5 DEF Calm

-----------------------------------------------------------------------------
(* Base is inductive: the changes and the lint passes. *)

LEMMA ChangeBase ==
    ASSUME Base, NEW c \in Client, Edit(c) \/ Decide(c)
    PROVE  Base' /\ Moves(c) /\ Keeps(c) /\ UNCHANGED runs
<1>1. /\ c \in Actor /\ c # Worker /\ pc[c] = "idle" /\ pc' = [pc EXCEPT ![c] = "changed"] /\ pc'[c] = "changed"
      /\ UNCHANGED <<runs, mu, seen, mine>>
      /\ head' \in head .. MaxEdits + 1 /\ settings' \in 1 .. MaxSettings + 1
      /\ head' >= head /\ settings' >= settings /\ head' \in Nat /\ settings' \in Nat
      /\ races' \subseteq Races /\ races \subseteq races'
      /\ pc[Worker] \in {"asked", "insert"} => "start" \in races'
  <2>1. /\ c \in Actor /\ c # Worker /\ pc[c] = "idle" /\ pc' = [pc EXCEPT ![c] = "changed"] /\ pc'[c] = "changed"
        /\ UNCHANGED <<runs, mu, seen, mine>>
    BY Facts DEF Edit, Decide, GoTo
  <2>2. \/ head' = head + 1 /\ head <= MaxEdits /\ settings' = settings
        \/ settings' = settings + 1 /\ settings <= MaxSettings /\ head' = head
    BY DEF Edit, Decide
  <2>3. head \in 1 .. MaxEdits + 1 /\ settings \in 1 .. MaxSettings + 1 /\ MaxEdits \in Nat /\ MaxSettings \in Nat
    BY BoundsAssumption DEF Base, Types
  <2>4. /\ head' \in head .. MaxEdits + 1 /\ settings' \in 1 .. MaxSettings + 1
        /\ head' >= head /\ settings' >= settings /\ head' \in Nat /\ settings' \in Nat
    BY <2>2, <2>3
  <2>5. PICK kind : ChangeMeets(kind)
    BY DEF Edit, Decide
  <2>6. races \subseteq Races
    BY DEF Base, Types
  <2>7. /\ races' \subseteq Races /\ races \subseteq races'
        /\ pc[Worker] \in {"asked", "insert"} => "start" \in races'
    BY <2>5, <2>6 DEF ChangeMeets, Races
  <2> QED
    BY <2>1, <2>4, <2>7
<1>2. Moves(c) /\ MutexMoves(c)
  <2>1. seen[c] \in 0 .. head'
    BY <1>1, Facts
  <2> QED
    BY <1>1, <2>1, Facts DEF Moves, MutexMoves, Steps, Linting, Writing
<1>3. Keeps(c) /\ runs' \in Seq(Record) /\ \A i \in DOMAIN runs : runs'[i] = runs[i]
  BY <1>1, RunTypes DEF Base, Keeps
<1>4. /\ \A b \in Actor : b # c => pc'[b] = pc[b]
      /\ Worker \in Actor /\ Client \subseteq Actor
  BY <1>1, <1>2, Others, Facts
<1>5. Types'
  BY <1>1, <1>2, <1>3, <1>4, TypesStep
<1>6. Rows'
  BY <1>1, <1>4, RowsKept
<1>7. Works'
  <2>1. WorksOf(c)'
    <3>1. mine[c] \in Nat /\ pc'[c] \notin Linting \cup {"asked", "relint"} /\ pc'[c] \notin Writing
      BY <1>1, Facts DEF Linting, Writing
    <3>2. mine'[c] \in 0 .. Len(runs')
      BY <1>1, Facts DEF Base, Works, WorksOf
    <3> QED
      BY <3>1, <3>2 DEF WorksOf
  <2>2. QueueWorks'
    BY <1>1, <1>2, <1>3, QueueStep
  <2> QED
    BY <1>2, <1>3, <1>1, <2>1, <2>2, OthersWork DEF Works
<1>8. Holding'
  <2>1. Changed'
    BY <1>1 DEF Changed
  <2> QED
    BY <2>1 DEF Holding
<1>9. Calm'
  <2>1. \A b \in Actor : pc'[b] \in Writing => pc[b] \in Writing
    BY <1>1, <1>4 DEF Writing
  <2>2. pc'[Worker] \notin {"asked", "insert"} \/ "start" \in races'
    BY <1>1, <1>4
  <2> QED
    BY <1>1, <2>1, <2>2 DEF Base, Calm
<1> QED
  BY <1>1, <1>2, <1>3, <1>5, <1>6, <1>7, <1>8, <1>9 DEF Base

LEMMA PassBeginsBase ==
    ASSUME Base, NEW c \in Client, PassBegins(c)
    PROVE  Base' /\ Moves(c) /\ Keeps(c)
<1>1. /\ c \in Actor /\ c # Worker /\ pc[c] = "changed" /\ mu = NoOne /\ mu' = c
      /\ pc' = [pc EXCEPT ![c] = "check"] /\ pc'[c] = "check"
      /\ seen' = [seen EXCEPT ![c] = head] /\ seen'[c] = head /\ head \in Nat /\ head >= 1 /\ settings \in Nat
      /\ UNCHANGED <<runs, head, settings, mine, races>>
  BY Facts DEF PassBegins, GoTo, doc
<1>2. Moves(c) /\ MutexMoves(c)
  BY <1>1, Facts DEF Moves, MutexMoves, Steps, Linting, Writing
<1>3. Keeps(c) /\ runs' \in Seq(Record) /\ \A i \in DOMAIN runs : runs'[i] = runs[i]
  BY <1>1, RunTypes DEF Base, Keeps
<1>4. /\ \A b \in Actor : b # c => pc'[b] = pc[b] /\ pc'[b] \notin Linting
      /\ Worker \in Actor /\ Client \subseteq Actor
  BY <1>1, <1>2, Others, Facts, NobodyLints
<1>5. Types'
  <2>1. head' \in head .. MaxEdits + 1 /\ settings' \in 1 .. MaxSettings + 1 /\ races' \subseteq Races
    BY <1>1, BoundsAssumption DEF Base, Types
  <2> QED
    BY <1>1, <1>2, <1>3, <2>1, TypesStep DEF Linting
<1>6. Rows'
  BY <1>1, <1>4, RowsKept
<1>7. Works'
  <2>1. WorksOf(c)'
    BY <1>1 DEF Base, Works, WorksOf, Writing, Linting
  <2>2. QueueWorks'
    BY <1>1, <1>2, <1>3, QueueStep
  <2> QED
    BY <1>2, <1>3, <1>1, <2>1, <2>2, OthersWork DEF Works
<1>8. Holding'
  BY <1>1, <1>4 DEF Holding, Linting, Writing
<1>9. Calm'
  BY <1>1, <1>2, CalmStep DEF Writing
<1> QED
  BY <1>2, <1>3, <1>5, <1>6, <1>7, <1>8, <1>9 DEF Base

LEMMA LintIfNeededBase ==
    ASSUME Base, NEW c \in Client, LintIfNeeded(c)
    PROVE  Base' /\ Moves(c) /\ Keeps(c)
<1>1. /\ c \in Actor /\ c # Worker /\ pc[c] = "check" /\ mu = c /\ mu # NoOne
      /\ Worker \in Actor /\ Client \subseteq Actor
      /\ \A b \in Actor : b # c => pc[b] \notin Linting
      /\ UNCHANGED <<head, settings, races>>
      /\ seen[c] \in 1 .. head /\ seen[c] \in Nat /\ head \in Nat /\ settings \in Nat
  <2>1. pc[c] = "check" /\ c \in Actor /\ UNCHANGED <<head, settings, races>>
    BY Facts DEF LintIfNeeded, doc
  <2>2. seen[c] \in 0 .. head /\ seen[c] >= 1
    BY <2>1, Facts DEF Base, Works, WorksOf, Linting
  <2> QED
    BY <2>1, <2>2, Facts, OneLints DEF Linting
<1>0. /\ head' \in head .. MaxEdits + 1 /\ settings' \in 1 .. MaxSettings + 1 /\ races' \subseteq Races
      /\ settings \in 1 .. MaxSettings + 1
  BY <1>1, BoundsAssumption DEF Base, Types
<1>2. CASE Return(c) /\ mu' = NoOne /\ UNCHANGED runs
  <2>1. /\ pc' = [pc EXCEPT ![c] = "idle"] /\ pc'[c] = "idle" /\ seen' = [seen EXCEPT ![c] = 0] /\ seen'[c] = 0
        /\ mine' = [mine EXCEPT ![c] = 0] /\ mine'[c] = 0 /\ UNCHANGED runs
    BY <1>1, <1>2, Facts DEF Return, GoTo
  <2>2. Moves(c) /\ MutexMoves(c)
    BY <1>1, <1>2, <2>1, Facts DEF Moves, MutexMoves, Steps, Linting, Writing
  <2>3. Keeps(c) /\ runs' \in Seq(Record) /\ \A i \in DOMAIN runs : runs'[i] = runs[i]
    BY <2>1, RunTypes DEF Base, Keeps
  <2>4. \A b \in Actor : b # c => pc'[b] = pc[b] /\ mine'[b] = mine[b] /\ pc'[b] \notin Linting
    BY <1>1, <2>2, Others
  <2>5. Types'
    BY <1>0, <1>1, <2>1, <2>2, <2>3, TypesStep
  <2>6. Rows'
    BY <1>1, <2>1, <2>4, RowsKept
  <2>7. Works'
    <3>1. WorksOf(c)'
      BY <1>1, <2>1, RunTypes DEF Base, WorksOf, Writing, Linting
    <3>2. QueueWorks'
      BY <1>1, <2>1, <2>2, <2>3, QueueStep
    <3> QED
      BY <1>1, <2>2, <2>3, <3>1, <3>2, OthersWork DEF Works
  <2>8. Holding'
    BY <1>1, <2>1, <2>4 DEF Holding, Linting, Writing
  <2>9. Calm'
    BY <1>1, <2>1, <2>2, CalmStep DEF Writing
  <2> QED
    BY <2>2, <2>3, <2>5, <2>6, <2>7, <2>8, <2>9 DEF Base
<1>3. CASE BeginLint(c, seen[c]) /\ UNCHANGED <<mu, seen>>
  <2> DEFINE r == NewRun("lint", seen[c], settings)
  <2>1. /\ Adds(r) /\ r \in Record
        /\ mine' = [mine EXCEPT ![c] = Len(runs) + 1] /\ pc' = [pc EXCEPT ![c] = "lint"]
    BY <1>1, <1>3, Begins
  <2>2. r.kind = "lint" /\ r.status = "begun" /\ r.version = seen[c]
    BY <1>1, NewRunIsRecord
  <2> HIDE DEF r
  <2>3. /\ Len(runs) \in Nat /\ pc'[c] = "lint" /\ mine'[c] = Len(runs) + 1 /\ mine'[c] \in Nat /\ seen'[c] = seen[c]
        /\ Len(runs') = Len(runs) + 1 /\ mine'[c] \in DOMAIN runs' /\ runs'[mine'[c]] = r
        /\ DOMAIN runs' = DOMAIN runs \cup {Len(runs) + 1}
        /\ runs' \in Seq(Record) /\ \A i \in DOMAIN runs : runs'[i] = runs[i]
    BY <1>1, <1>3, <2>1, RunTypes, Facts DEF Adds, Base
  <2>4. Moves(c) /\ MutexMoves(c)
    BY <1>1, <1>3, <2>1, <2>3, Facts DEF Moves, MutexMoves, Steps, Linting, Writing
  <2>5. Keeps(c)
    BY <2>3 DEF Keeps
  <2>6. /\ \A b \in Actor : b # c => pc'[b] = pc[b] /\ mine'[b] = mine[b] /\ pc'[b] \notin Linting
    BY <1>1, <2>4, Others
  <2>7. Types'
    BY <1>0, <1>1, <2>3, <2>4, TypesStep DEF Linting, Writing
  <2>8. Rows'
    <3>1. pc[Worker] \in {"load", "judge"} => pc'[Worker] = pc[Worker] /\ mine'[Worker] = mine[Worker]
      BY <1>1, <2>6
    <3> QED
      BY <1>1, <2>1, <3>1, RowsAdded DEF r
  <2>9. Works'
    <3>1. WorksOf(c)'
      BY <1>1, <2>2, <2>3 DEF WorksOf, Mine
    <3>2. QueueWorks'
      <4>1. \A i \in DOMAIN runs' : runs'[i].kind = "full" => i \in DOMAIN runs /\ runs[i].kind = "full"
        BY <2>2, <2>3
      <4> QED
        BY <1>1, <2>4, <2>5, <2>3, <4>1, QueueStep
    <3> QED
      BY <1>1, <2>3, <2>4, <2>5, <3>1, <3>2, OthersWork DEF Works
  <2>10. Holding'
    <3>1. Changed => Changed'
      BY <1>1, <2>6 DEF Changed
    <3> QED
      BY <1>1, <1>3, <2>3, <2>6, <3>1 DEF Base, Holding, Linting, Writing
  <2>11. Calm'
    <3>1. Busy
      BY <1>1 DEF Busy
    <3>2. "start" \notin races => pc'[Worker] \notin {"asked", "insert"}
      BY <1>1, <2>6, <3>1 DEF Base, Calm
    <3> QED
      BY <1>1, <2>3, <2>6, <3>2 DEF Calm, Linting
  <2> QED
    BY <2>4, <2>5, <2>7, <2>8, <2>9, <2>10, <2>11 DEF Base
<1> QED
  BY <1>2, <1>3 DEF LintIfNeeded

LEMMA PassBase ==
    ASSUME Base, NEW a \in Actor, pc[a] \in Writing, NEW r \in Record, Makes(mine[a], r),
           r.kind = "lint", r.version = Mine(a).version, r.recorded \in 1 .. settings, r.read = r.recorded,
           r.carried \in 0 .. Len(runs),
           UNCHANGED <<head, settings, races>>, Moves(a), MutexMoves(a),
           \/ /\ pc'[a] \in {"carry", "save"} /\ r.status = "begun" /\ mine'[a] = mine[a] /\ seen'[a] = seen[a]
              /\ r.read = settings \/ (r.read = Mine(a).read /\ pc[a] = "carry")
           \/ pc'[a] = "idle" /\ r.status = "complete" /\ mine'[a] = 0
    PROVE  Base' /\ Keeps(a)
<1>1. /\ Worker \in Actor /\ Client \subseteq Actor /\ Worker \notin Client
      /\ head \in Nat /\ settings \in Nat /\ pc[Worker] \notin {"changed", "check"}
      /\ \A b \in Actor : b # a => pc'[b] = pc[b] /\ mine'[b] = mine[b] /\ seen'[b] = seen[b] /\ pc[b] \notin Linting
      /\ a \in Client \/ a = Worker
  BY Facts, Others, OneLints DEF Linting
<1>2. /\ mine[a] \in DOMAIN runs /\ mine[a] # 1 /\ Mine(a).kind = "lint" /\ Mine(a).version = seen[a]
      /\ seen[a] >= 1
  BY HasRun DEF Base, Works, WorksOf, Linting
<1>3. /\ runs' \in Seq(Record) /\ DOMAIN runs' = DOMAIN runs /\ Len(runs') = Len(runs) /\ Len(runs) \in Nat
      /\ runs'[mine[a]] = r /\ \A i \in DOMAIN runs : i # mine[a] => runs'[i] = runs[i]
      /\ \A i \in DOMAIN runs : runs'[i].kind = "full" => runs[i].kind = "full"
  BY <1>2, RunTypes DEF Makes, Base, Mine
<1>4. Keeps(a) /\ Owns(a)
  BY <1>3 DEF Keeps, Owns
<1>5. Types'
  <2>1. head' \in head .. MaxEdits + 1 /\ settings' \in 1 .. MaxSettings + 1 /\ races' \subseteq Races
    BY <1>1, BoundsAssumption DEF Base, Types
  <2> QED
    BY <1>1, <1>3, <2>1, TypesStep DEF Linting, Writing
<1>6. Rows'
  <2>1. r.read \in r.recorded .. settings
    BY <1>1
  <2>2. r.version = runs[mine[a]].version
    BY DEF Mine
  <2>3. mine[a] # mine[Worker] /\ pc[Worker] \in {"load", "judge"} => pc'[Worker] = pc[Worker] /\ mine'[Worker] = mine[Worker]
    BY <1>1 DEF Writing
  <2> QED
    BY <1>2, <2>1, <2>2, <2>3, RowsMade
<1>7. Works'
  <2>1. WorksOf(a)'
    BY <1>2, <1>3 DEF Base, Works, WorksOf, Mine, Linting, Writing
  <2>2. QueueWorks'
    <3>1. CASE a = Worker
      BY <3>1 DEF QueueWorks, Queued
    <3>2. CASE a # Worker
      BY <3>2, <1>3, <1>4, QueueStep
    <3> QED
      BY <3>1, <3>2
  <2> QED
    BY <1>4, <2>1, <2>2, OthersWork DEF Works
<1>8. Holding'
  <2>1. CASE a = Worker
    BY <1>4, <2>1, HoldingOfWorker
  <2>2. CASE a \in Client
    <3>1. Changed => Changed'
      BY <1>1, <2>2 DEF Changed, Writing
    <3>2. \A c \in Client : c # a => pc'[c] \notin Linting /\ pc'[c] \notin {"carry", "save"}
      BY <1>1 DEF Linting, Writing
    <3>3. Mine(a).read = settings \/ Changed \/ pc[a] # "carry"
      BY <2>2 DEF Base, Holding
    <3>4. seen[a] = head \/ Changed
      BY <2>2 DEF Base, Holding, Linting
    <3>5. pc'[a] \in Linting => seen'[a] = head \/ Changed'
      BY <3>1, <3>4 DEF Linting, Writing
    <3>6. pc'[a] \in {"carry", "save"} => runs'[mine'[a]].read = settings \/ Changed'
      BY <1>3, <3>1, <3>3
    <3> QED
      BY <3>2, <3>5, <3>6 DEF Holding, Mine
  <2> QED
    BY <1>1, <2>1, <2>2
<1>9. Calm'
  <2>1. a \in Client => pc[a] # "idle"
    BY DEF Writing
  <2>2. pc'[a] \in Writing => pc[a] \in Writing /\ mine'[a] = mine[a]
    BY DEF Writing
  <2> QED
    BY <1>3, <2>1, <2>2, CalmStep
<1> QED
  BY <1>4, <1>5, <1>6, <1>7, <1>8, <1>9 DEF Base

LEMMA LintLoadsBase ==
    ASSUME Base, NEW a \in Actor, LintLoads(a)
    PROVE  Base' /\ Moves(a) /\ Keeps(a)
<1> DEFINE r == Settled(Mine(a))
<1>1. /\ pc[a] = "lint" /\ pc' = [pc EXCEPT ![a] = "carry"] /\ pc'[a] = "carry"
      /\ UNCHANGED <<head, settings, mu, seen, mine, races>>
      /\ settings \in 1 .. settings
  BY Facts DEF LintLoads, GoTo, doc
<1>2. Makes(mine[a], r) /\ r \in Record /\ Mine(a) \in Record /\ mine[a] \in DOMAIN runs /\ Mine(a).kind = "lint"
      /\ Mine(a).status = "begun"
  BY <1>1, Loads, HasRun DEF Writing
<1>3. /\ r.kind = "lint" /\ r.version = Mine(a).version /\ r.recorded = settings /\ r.read = settings
      /\ r.status = "begun" /\ r.carried = Mine(a).carried
  BY <1>2 DEF Settled, Record
<1>4. r.carried \in 0 .. Len(runs)
  BY <1>2, <1>3 DEF Base, Rows, Mine
<1> HIDE DEF r
<1>5. Moves(a) /\ MutexMoves(a)
  BY <1>1, Facts DEF Moves, MutexMoves, Steps, Linting, Writing
<1>6. Base' /\ Keeps(a)
  BY <1>1, <1>2, <1>3, <1>4, <1>5, PassBase DEF Writing
<1> QED
  BY <1>5, <1>6

LEMMA CarryBase ==
    ASSUME Base, NEW a \in Actor, Carry(a)
    PROVE  Base' /\ Moves(a) /\ Keeps(a)
<1> DEFINE r == Carrying(Mine(a))
<1>1. /\ pc[a] = "carry" /\ pc' = [pc EXCEPT ![a] = "save"] /\ pc'[a] = "save"
      /\ UNCHANGED <<head, settings, mu, seen, mine, races>>
  BY Facts DEF Carry, GoTo, doc
<1>2. Makes(mine[a], r) /\ r \in Record /\ Mine(a) \in Record /\ mine[a] \in DOMAIN runs /\ Mine(a).kind = "lint"
      /\ Mine(a).status = "begun" /\ LatestFull \in 0 .. Len(runs)
  BY <1>1, Carries, HasRun DEF Writing
<1>3. /\ r.kind = "lint" /\ r.version = Mine(a).version /\ r.recorded = Mine(a).recorded /\ r.read = Mine(a).read
      /\ r.status = "begun" /\ r.carried = LatestFull
  BY <1>2 DEF Carrying, Record
<1>4. r.recorded \in 1 .. settings /\ r.read = r.recorded
  BY <1>2, <1>3 DEF Base, Rows, Mine
<1> HIDE DEF r
<1>5. Moves(a) /\ MutexMoves(a)
  BY <1>1, Facts DEF Moves, MutexMoves, Steps, Linting, Writing
<1>6. Base' /\ Keeps(a)
  BY <1>1, <1>2, <1>3, <1>4, <1>5, PassBase DEF Writing
<1> QED
  BY <1>5, <1>6

LEMMA LintSavesBase ==
    ASSUME Base, NEW a \in Actor, LintSaves(a)
    PROVE  Base' /\ Moves(a) /\ Keeps(a)
<1> DEFINE r == WithStatus(Mine(a), "complete")
<1>1. /\ pc[a] = "save" /\ pc' = [pc EXCEPT ![a] = "idle"] /\ pc'[a] = "idle"
      /\ seen' = [seen EXCEPT ![a] = 0] /\ seen'[a] = 0 /\ mine' = [mine EXCEPT ![a] = 0] /\ mine'[a] = 0
      /\ mu' = NoOne
      /\ UNCHANGED <<head, settings, races>>
  BY Facts DEF LintSaves, Return, GoTo, doc
<1>2. Makes(mine[a], r) /\ r \in Record /\ Mine(a) \in Record /\ mine[a] \in DOMAIN runs /\ Mine(a).kind = "lint"
  BY <1>1, EndsAs, HasRun DEF Writing, LintSaves, Statuses
<1>3. /\ r.kind = "lint" /\ r.version = Mine(a).version /\ r.recorded = Mine(a).recorded /\ r.read = Mine(a).read
      /\ r.status = "complete" /\ r.carried = Mine(a).carried
  BY <1>2 DEF WithStatus, Record
<1>4. r.recorded \in 1 .. settings /\ r.read = r.recorded /\ r.carried \in 0 .. Len(runs)
  BY <1>2, <1>3 DEF Base, Rows, Mine
<1> HIDE DEF r
<1>5. Moves(a) /\ MutexMoves(a)
  BY <1>1, Facts DEF Moves, MutexMoves, Steps, Linting, Writing
<1>6. Base' /\ Keeps(a)
  BY <1>1, <1>2, <1>3, <1>4, <1>5, PassBase DEF Writing
<1> QED
  BY <1>5, <1>6

-----------------------------------------------------------------------------
(* Base is inductive: the steps of a review. *)

\* The mutex and the requests do not hold up a review.
LEMMA ReviewBase ==
    ASSUME Base, pc[Worker] \in {"insert", "load", "judge"}, NEW r \in Record, Makes(mine[Worker], r),
           r.kind = "full", r.version = Mine(Worker).version, r.recorded = Mine(Worker).recorded,
           r.read \in r.recorded .. settings, r.carried = Mine(Worker).carried,
           UNCHANGED <<head, settings, mu, races>>, Moves(Worker),
           \/ /\ pc'[Worker] \in {"load", "judge"} /\ r.status = "active" /\ mine'[Worker] = mine[Worker]
           \/ /\ pc'[Worker] = "ended" /\ r.status = "complete" /\ mine'[Worker] = mine[Worker]
           \/ /\ pc'[Worker] = "idle" /\ r.status = "failed" /\ mine'[Worker] = 0
    PROVE  Base' /\ Keeps(Worker)
<1>1. /\ Worker \in Actor /\ Client \subseteq Actor /\ Worker \notin Client /\ Worker \notin Client
      /\ head \in Nat /\ settings \in Nat
      /\ \A b \in Actor : b # Worker => pc'[b] = pc[b] /\ mine'[b] = mine[b] /\ seen'[b] = seen[b]
  BY Facts, Others
<1>2. /\ mine[Worker] \in DOMAIN runs /\ mine[Worker] # 1 /\ Mine(Worker).kind = "full"
      /\ \A i \in DOMAIN runs : runs[i].kind = "full" => i <= mine[Worker]
      /\ mine[Worker] \in 0 .. Len(runs)
  BY <1>1, HasRun DEF Base, Works, QueueWorks, WorksOf, Queued
<1>3. /\ runs' \in Seq(Record) /\ DOMAIN runs' = DOMAIN runs /\ Len(runs') = Len(runs) /\ Len(runs) \in Nat
      /\ runs'[mine[Worker]] = r /\ \A i \in DOMAIN runs : i # mine[Worker] => runs'[i] = runs[i]
      /\ \A i \in DOMAIN runs : runs'[i].kind = "full" => runs[i].kind = "full"
  BY <1>2, RunTypes DEF Makes, Base, Mine
<1>4. Keeps(Worker) /\ Owns(Worker) /\ MutexMoves(Worker)
  BY <1>3 DEF Keeps, Owns, Queued, MutexMoves, Linting, Writing
<1>5. Types'
  <2>1. head' \in head .. MaxEdits + 1 /\ settings' \in 1 .. MaxSettings + 1 /\ races' \subseteq Races
    BY <1>1, BoundsAssumption DEF Base, Types
  <2>2. pc'[Worker] \notin {"changed", "check"}
    OBVIOUS
  <2> QED
    BY <1>1, <1>3, <1>4, <2>1, <2>2, TypesStep
<1>6. Rows'
  <2>1. r.version = runs[mine[Worker]].version
    BY DEF Mine
  <2>2. r.recorded \in 1 .. settings /\ r.carried \in 0 .. Len(runs)
    BY <1>2 DEF Base, Rows, Mine
  <2>3. r.kind = "full" /\ r.status = "active" => mine[Worker] = mine'[Worker] /\ pc'[Worker] \in {"load", "judge"}
    OBVIOUS
  <2> QED
    BY <1>2, <2>1, <2>2, <2>3, RowsMade
<1>7. Works'
  <2>1. WorksOf(Worker)'
    BY <1>2, <1>3 DEF WorksOf, Writing, Linting
  <2>2. QueueWorks'
    BY <1>2, <1>3 DEF QueueWorks, Queued, Mine
  <2> QED
    BY <1>1, <1>4, <2>1, <2>2, OthersWork DEF Works
<1>8. Holding'
  BY <1>4, HoldingOfWorker
<1>9. Calm'
  BY <1>1, <1>3, CalmStep DEF Writing
<1> QED
  BY <1>4, <1>5, <1>6, <1>7, <1>8, <1>9 DEF Base

LEMMA UnderWay ==
    ASSUME Base, pc[Worker] \in {"insert", "load", "judge"}
    PROVE  /\ mine[Worker] \in DOMAIN runs /\ Mine(Worker) \in Record /\ Mine(Worker).kind = "full"
           /\ Mine(Worker).recorded \in 1 .. settings /\ Mine(Worker).read \in Mine(Worker).recorded .. settings
           /\ settings \in Mine(Worker).recorded .. settings
           /\ Worker \in Actor
<1>1. mine[Worker] \in DOMAIN runs /\ Mine(Worker) \in Record /\ Mine(Worker).kind = "full" /\ Worker \in Actor
  BY HasRun, Facts DEF Queued
<1>2. Mine(Worker).recorded \in 1 .. settings /\ Mine(Worker).read \in Mine(Worker).recorded .. settings
  BY <1>1 DEF Base, Rows, Mine
<1>3. settings \in Mine(Worker).recorded .. settings
  BY <1>2, Facts
<1> QED
  BY <1>1, <1>2, <1>3

LEMMA InsertRunBase ==
    ASSUME Base, InsertRun
    PROVE  Base' /\ Moves(Worker) /\ Keeps(Worker)
<1> DEFINE r == WithStatus(Mine(Worker), "active")
<1>1. /\ pc[Worker] = "insert" /\ pc' = [pc EXCEPT ![Worker] = "load"] /\ pc'[Worker] = "load"
      /\ UNCHANGED <<head, settings, mu, seen, mine, races>>
  BY Facts DEF InsertRun, GoTo, doc
<1>2. Makes(mine[Worker], r) /\ r \in Record
  BY <1>1, EndsAs, Facts DEF Queued, InsertRun, Becomes, Statuses
<1>3. /\ r.kind = "full" /\ r.version = Mine(Worker).version /\ r.recorded = Mine(Worker).recorded
      /\ r.read \in r.recorded .. settings /\ r.carried = Mine(Worker).carried /\ r.status = "active"
  BY <1>1, UnderWay DEF WithStatus, Record
<1> HIDE DEF r
<1>4. Moves(Worker)
  BY <1>1, Facts DEF Moves, Steps
<1> QED
  BY <1>1, <1>2, <1>3, <1>4, ReviewBase

LEMMA LoadBase ==
    ASSUME Base, Load
    PROVE  Base' /\ Moves(Worker) /\ Keeps(Worker)
<1> DEFINE r == ReadNow(Mine(Worker))
<1>1. /\ pc[Worker] = "load" /\ pc' = [pc EXCEPT ![Worker] = "judge"] /\ pc'[Worker] = "judge"
      /\ UNCHANGED <<head, settings, mu, seen, mine, races>>
  BY Facts DEF Load, GoTo, doc
<1>2. Makes(mine[Worker], r) /\ r \in Record /\ Mine(Worker).status = "active"
  BY <1>1, LoadsAgain DEF Base, Works, QueueWorks, Queued
<1>3. /\ r.kind = "full" /\ r.version = Mine(Worker).version /\ r.recorded = Mine(Worker).recorded
      /\ r.read \in r.recorded .. settings /\ r.carried = Mine(Worker).carried /\ r.status = "active"
  BY <1>1, <1>2, UnderWay DEF ReadNow, Record
<1> HIDE DEF r
<1>4. Moves(Worker)
  BY <1>1, Facts DEF Moves, Steps
<1> QED
  BY <1>1, <1>2, <1>3, <1>4, ReviewBase

LEMMA ReviewSavesBase ==
    ASSUME Base, ReviewSaves
    PROVE  Base' /\ Moves(Worker) /\ Keeps(Worker)
<1> DEFINE r == WithStatus(Mine(Worker), "complete")
<1>1. /\ pc[Worker] = "judge" /\ pc' = [pc EXCEPT ![Worker] = "ended"] /\ pc'[Worker] = "ended"
      /\ UNCHANGED <<head, settings, mu, seen, mine, races>>
  BY Facts DEF ReviewSaves, GoTo, doc
<1>2. Makes(mine[Worker], r) /\ r \in Record
  BY <1>1, EndsAs, Facts DEF Queued, ReviewSaves, Becomes, Statuses
<1>3. /\ r.kind = "full" /\ r.version = Mine(Worker).version /\ r.recorded = Mine(Worker).recorded
      /\ r.read \in r.recorded .. settings /\ r.carried = Mine(Worker).carried /\ r.status = "complete"
  BY <1>1, UnderWay DEF WithStatus, Record
<1> HIDE DEF r
<1>4. Moves(Worker)
  BY <1>1, Facts DEF Moves, Steps
<1> QED
  BY <1>1, <1>2, <1>3, <1>4, ReviewBase

LEMMA ReviewFailsBase ==
    ASSUME Base, ReviewFails
    PROVE  Base' /\ Moves(Worker) /\ Keeps(Worker)
<1> DEFINE r == WithStatus(Mine(Worker), "failed")
<1>1. /\ pc[Worker] \in {"load", "judge"} /\ pc' = [pc EXCEPT ![Worker] = "idle"] /\ pc'[Worker] = "idle"
      /\ seen' = [seen EXCEPT ![Worker] = 0] /\ seen'[Worker] = 0
      /\ mine' = [mine EXCEPT ![Worker] = 0] /\ mine'[Worker] = 0
      /\ UNCHANGED <<head, settings, mu, races>>
  BY Facts DEF ReviewFails, Return, GoTo, doc
<1>2. Makes(mine[Worker], r) /\ r \in Record
  BY <1>1, EndsAs, Facts DEF Queued, ReviewFails, Becomes, Statuses
<1>3. /\ r.kind = "full" /\ r.version = Mine(Worker).version /\ r.recorded = Mine(Worker).recorded
      /\ r.read \in r.recorded .. settings /\ r.carried = Mine(Worker).carried /\ r.status = "failed"
  BY <1>1, UnderWay DEF WithStatus, Record
<1> HIDE DEF r
<1>4. Moves(Worker)
  BY <1>1, Facts DEF Moves, Steps
<1> QED
  BY <1>1, <1>2, <1>3, <1>4, ReviewBase

\* The steps at which the worker only reads.
LEMMA WorkerReads ==
    ASSUME Base, Moves(Worker), UNCHANGED <<head, settings, runs, mu>>, races \subseteq races', races' \subseteq Races,
           pc[Worker] \in {"idle", "ended"}, pc'[Worker] \in {"idle", "asked", "relint"},
           pc'[Worker] \in {"asked", "relint"} => seen'[Worker] = head,
           mine'[Worker] \in {0, mine[Worker]},
           pc'[Worker] = "asked" /\ Busy => "start" \in races'
    PROVE  Base' /\ Keeps(Worker)
<1>1. /\ Worker \in Actor /\ Client \subseteq Actor /\ Worker \notin Client
      /\ head \in Nat /\ head >= 1 /\ settings \in Nat
      /\ \A b \in Actor : b # Worker => pc'[b] = pc[b] /\ mine'[b] = mine[b] /\ seen'[b] = seen[b]
  BY Facts, Others
<1>2. /\ Keeps(Worker) /\ MutexMoves(Worker) /\ runs' \in Seq(Record)
      /\ \A i \in DOMAIN runs : runs'[i] = runs[i]
  BY RunTypes DEF Base, Keeps, MutexMoves, Linting, Writing
<1>3. Types'
  <2>1. head' \in head .. MaxEdits + 1 /\ settings' \in 1 .. MaxSettings + 1
    BY <1>1, BoundsAssumption DEF Base, Types
  <2>2. pc'[Worker] \notin {"changed", "check"}
    OBVIOUS
  <2> QED
    BY <1>1, <1>2, <2>1, <2>2, TypesStep
<1>4. Rows'
  BY <1>1, RowsKept
<1>5. Works'
  <2>1. WorksOf(Worker)'
    <3>1. mine'[Worker] \in 0 .. Len(runs)
      BY <1>1, RunTypes DEF Base, Works, WorksOf
    <3> QED
      BY <1>1, <3>1 DEF WorksOf, Writing, Linting
  <2>2. QueueWorks'
    BY DEF QueueWorks, Queued
  <2> QED
    BY <1>1, <1>2, <2>1, <2>2, OthersWork DEF Works
<1>6. Holding'
  BY <1>2, HoldingOfWorker
<1>7. Calm'
  <2>1. Busy' => Busy
    BY <1>1 DEF Busy
  <2>2. \A a \in Actor : pc'[a] \in Writing => pc[a] \in Writing /\ mine'[a] = mine[a]
    BY <1>1 DEF Writing
  <2> QED
    BY <2>1, <2>2 DEF Base, Calm
<1> QED
  BY <1>2, <1>3, <1>4, <1>5, <1>6, <1>7 DEF Base

LEMMA AskReviewBase ==
    ASSUME Base, AskReview
    PROVE  /\ Base' /\ Moves(Worker) /\ Keeps(Worker)
           /\ pc[Worker] = "idle" /\ pc'[Worker] = "asked" /\ seen'[Worker] = head /\ UNCHANGED <<head, settings, runs>>
           /\ races \subseteq races'
           /\ Busy => "start" \in races'
<1>1. /\ pc[Worker] = "idle" /\ pc' = [pc EXCEPT ![Worker] = "asked"] /\ pc'[Worker] = "asked"
      /\ seen' = [seen EXCEPT ![Worker] = head] /\ seen'[Worker] = head
      /\ UNCHANGED <<head, settings, runs, mu, mine>>
      /\ races' = races \cup {race \in {"start"} : \E c \in Client : pc[c] # "idle"}
  BY Facts DEF AskReview, GoTo, doc, ReviewMeets
<1>2. races \subseteq races' /\ races' \subseteq Races /\ (Busy => "start" \in races')
  BY <1>1 DEF Busy, Base, Types, Races
<1>3. Moves(Worker)
  BY <1>1, Facts DEF Moves, Steps
<1> QED
  BY <1>1, <1>2, <1>3, WorkerReads

LEMMA ReadHeadBase ==
    ASSUME Base, ReadHead
    PROVE  /\ Base' /\ Moves(Worker) /\ Keeps(Worker)
           /\ pc[Worker] = "ended" /\ mine[Worker] \in DOMAIN runs /\ UNCHANGED <<head, settings, runs, races>>
           /\ \/ pc'[Worker] = "idle" /\ head = Mine(Worker).version
              \/ pc'[Worker] = "relint" /\ seen'[Worker] = head
<1>1. /\ pc[Worker] = "ended" /\ UNCHANGED <<head, settings, runs, mu, races>>
      /\ Worker \in Actor /\ mine[Worker] \in DOMAIN runs
  BY Facts, HasRun DEF ReadHead, doc, Queued
<1>2. races' \subseteq Races
  BY <1>1 DEF Base, Types
<1>3. CASE head = Mine(Worker).version
  <2>1. /\ pc' = [pc EXCEPT ![Worker] = "idle"] /\ pc'[Worker] = "idle"
        /\ seen' = [seen EXCEPT ![Worker] = 0] /\ seen'[Worker] = 0
        /\ mine' = [mine EXCEPT ![Worker] = 0] /\ mine'[Worker] = 0
    BY <1>3, Facts DEF ReadHead, Return, GoTo, Mine
  <2>2. Moves(Worker)
    BY <1>1, <2>1, Facts DEF Moves, Steps
  <2> QED
    BY <1>1, <1>2, <1>3, <2>1, <2>2, WorkerReads
<1>4. CASE head # Mine(Worker).version
  <2>1. /\ pc' = [pc EXCEPT ![Worker] = "relint"] /\ pc'[Worker] = "relint"
        /\ seen' = [seen EXCEPT ![Worker] = head] /\ seen'[Worker] = head
        /\ mine' = mine
    BY <1>4, Facts DEF ReadHead, GoTo, Mine
  <2>2. Moves(Worker)
    BY <1>1, <2>1, Facts DEF Moves, Steps
  <2> QED
    BY <1>1, <1>2, <2>1, <2>2, WorkerReads
<1> QED
  BY <1>3, <1>4

LEMMA StartRunBase ==
    ASSUME Base, StartRun
    PROVE  Base' /\ Moves(Worker) /\ Keeps(Worker)
<1> DEFINE r == NewRun("full", seen[Worker], settings)
<1>1. /\ pc[Worker] = "asked" /\ pc' = [pc EXCEPT ![Worker] = "insert"] /\ pc'[Worker] = "insert"
      /\ mine' = [mine EXCEPT ![Worker] = Len(runs) + 1] /\ mine'[Worker] = Len(runs) + 1
      /\ UNCHANGED <<head, settings, mu, seen, races>>
      /\ Worker \in Actor /\ Client \subseteq Actor /\ Worker \notin Client
      /\ head \in Nat /\ settings \in Nat /\ Len(runs) \in Nat
  BY Facts, RunTypes DEF StartRun, GoTo, doc, Base
<1>2. seen[Worker] \in 1 .. head /\ seen[Worker] \in Nat
  <2>1. seen[Worker] >= 1 /\ seen[Worker] \in 0 .. head
    BY <1>1, Facts DEF Base, Works, WorksOf
  <2> QED
    BY <1>1, <2>1
<1>3. r \in Record /\ r.kind = "full" /\ r.status = "begun" /\ r.version = seen[Worker]
  BY <1>1, <1>2, NewRunIsRecord
<1>4. runs' = Append(runs, r)
  BY DEF StartRun
<1> HIDE DEF r
<1>5. Adds(r)
  BY <1>3, <1>4, Appended DEF Base
<1>6. /\ runs' \in Seq(Record) /\ Len(runs') = Len(runs) + 1 /\ runs'[Len(runs) + 1] = r
      /\ DOMAIN runs' = DOMAIN runs \cup {Len(runs) + 1} /\ DOMAIN runs = 1 .. Len(runs)
      /\ \A i \in DOMAIN runs : runs'[i] = runs[i]
  BY <1>5, RunTypes DEF Adds, Base
<1>7. Moves(Worker) /\ MutexMoves(Worker) /\ Keeps(Worker)
  BY <1>1, <1>6, Facts DEF Moves, MutexMoves, Keeps, Steps, Linting, Writing
<1>8. \A b \in Actor : b # Worker => pc'[b] = pc[b] /\ mine'[b] = mine[b]
  BY <1>7, Others, Facts
<1>9. Types'
  <2>1. /\ head' \in head .. MaxEdits + 1 /\ settings' \in 1 .. MaxSettings + 1 /\ races' \subseteq Races
        /\ pc'[Worker] \notin {"changed", "check"}
    BY <1>1, BoundsAssumption DEF Base, Types
  <2> QED
    BY <1>1, <1>6, <1>7, <2>1, TypesStep
<1>10. Rows'
  BY <1>1, <1>2, <1>5, RowsAdded DEF r
<1>11. Works'
  <2>1. WorksOf(Worker)'
    BY <1>1, <1>2, <1>6 DEF WorksOf, Writing, Linting
  <2>2. QueueWorks'
    BY <1>1, <1>3, <1>6 DEF QueueWorks, Mine
  <2> QED
    BY <1>1, <1>6, <1>7, <2>1, <2>2, OthersWork DEF Works
<1>12. Holding'
  BY <1>1, <1>6, <1>7, HoldingOfWorker
<1>13. Calm'
  <2>1. "start" \notin races => ~Busy /\ \A c \in Client : pc'[c] = "idle"
    BY <1>1, <1>8 DEF Base, Calm, Busy
  <2>2. Busy' => \E c \in Client : pc'[c] # "idle"
    BY DEF Busy
  <2>3. \A a \in Actor : a = Worker \/ a \in Client
    BY Facts
  <2> QED
    BY <1>1, <1>6, <2>1, <2>2, <2>3 DEF Calm, Writing
<1> QED
  BY <1>7, <1>9, <1>10, <1>11, <1>12, <1>13 DEF Base

LEMMA RelintBase ==
    ASSUME Base, Relint
    PROVE  Base' /\ Moves(Worker) /\ Keeps(Worker)
<1> DEFINE r == NewRun("lint", seen[Worker], settings)
<1>1. /\ pc[Worker] = "relint" /\ mu = NoOne /\ mu' = Worker
      /\ UNCHANGED <<head, settings, seen, races>>
      /\ Worker \in Actor /\ Client \subseteq Actor /\ Worker \notin Client
      /\ head \in Nat /\ settings \in Nat /\ Len(runs) \in Nat
      /\ \A b \in Actor : pc[b] \notin Linting
  BY Facts, RunTypes, NobodyLints DEF Relint, doc, Base
<1>2. seen[Worker] \in 1 .. head /\ seen[Worker] \in Nat
  <2>1. seen[Worker] >= 1 /\ seen[Worker] \in 0 .. head
    BY <1>1, Facts DEF Base, Works, WorksOf
  <2> QED
    BY <1>1, <2>1
<1>3. r \in Record /\ r.kind = "lint" /\ r.status = "begun" /\ r.version = seen[Worker]
  BY <1>1, <1>2, NewRunIsRecord
<1>4. Adds(r) /\ mine' = [mine EXCEPT ![Worker] = Len(runs) + 1] /\ pc' = [pc EXCEPT ![Worker] = "lint"]
  BY <1>1, <1>2, Begins DEF Relint
<1> HIDE DEF r
<1>6. /\ runs' \in Seq(Record) /\ Len(runs') = Len(runs) + 1 /\ runs'[Len(runs) + 1] = r
      /\ DOMAIN runs' = DOMAIN runs \cup {Len(runs) + 1} /\ DOMAIN runs = 1 .. Len(runs)
      /\ \A i \in DOMAIN runs : runs'[i] = runs[i]
      /\ pc'[Worker] = "lint" /\ mine'[Worker] = Len(runs) + 1
  BY <1>1, <1>4, RunTypes, Facts DEF Adds, Base
<1>7. Moves(Worker) /\ MutexMoves(Worker) /\ Keeps(Worker)
  BY <1>1, <1>4, <1>6, Facts DEF Moves, MutexMoves, Keeps, Steps, Linting, Writing
<1>8. \A b \in Actor : b # Worker => pc'[b] = pc[b] /\ mine'[b] = mine[b] /\ pc'[b] \notin Linting
  BY <1>1, <1>7, Others, Facts
<1>9. Types'
  <2>1. /\ head' \in head .. MaxEdits + 1 /\ settings' \in 1 .. MaxSettings + 1 /\ races' \subseteq Races
        /\ pc'[Worker] \notin {"changed", "check"}
    BY <1>1, <1>6, BoundsAssumption DEF Base, Types
  <2> QED
    BY <1>1, <1>6, <1>7, <2>1, TypesStep
<1>10. Rows'
  BY <1>1, <1>2, <1>4, RowsAdded DEF r
<1>11. Works'
  <2>1. WorksOf(Worker)'
    BY <1>1, <1>2, <1>3, <1>6 DEF WorksOf, Mine
  <2>2. QueueWorks'
    BY <1>6 DEF QueueWorks, Queued
  <2> QED
    BY <1>1, <1>6, <1>7, <2>1, <2>2, OthersWork DEF Works
<1>12. Holding'
  BY <1>1, <1>6, <1>7, HoldingOfWorker
<1>13. Calm'
  BY <1>1, <1>6, <1>8 DEF Calm, Linting
<1> QED
  BY <1>7, <1>9, <1>10, <1>11, <1>12, <1>13 DEF Base

-----------------------------------------------------------------------------
(* What the doc shows after a step. *)

LEMMA ShownIsComplete ==
    ASSUME Base
    PROVE  /\ Shown \in Complete /\ Shown \in DOMAIN runs /\ Shown \in Nat /\ Shown \in 1 .. Len(runs)
           /\ runs[Shown].status = "complete"
           /\ \A i \in Complete : i <= Shown
<1>1. 1 \in Complete /\ Complete \subseteq 1 .. Len(runs) /\ Len(runs) \in Nat /\ DOMAIN runs = 1 .. Len(runs)
  BY RunTypes DEF Base, Rows
<1>2. Latest(Complete) \in Complete /\ \A i \in Complete : i <= Latest(Complete)
  BY <1>1, LatestOf
<1>3. Shown \in Complete /\ \A i \in Complete : i <= Shown
  BY <1>2, Asked
<1> QED
  BY <1>1, <1>3 DEF Complete

\* The rows that are there stay what they are, and so do the verdicts.
Lasts ==
    /\ \A i \in DOMAIN runs :
         /\ i \in DOMAIN runs' /\ runs'[i].version = runs[i].version /\ runs'[i].kind = runs[i].kind
         /\ runs[i].status \in {"complete", "failed"} => runs'[i] = runs[i]

\* No verdict is added to them.
Stands == Lasts /\ Shown' = Shown /\ LatestFull' = LatestFull

LEMMA LastsMeans ==
    ASSUME Base, Lasts
    PROVE  /\ Complete \subseteq Complete'
           /\ Judged \subseteq Judged'
           /\ runs'[Shown] = runs[Shown]
           /\ UNCHANGED <<head, settings, Shown>> /\ currentShown => currentShown'
           /\ UNCHANGED Shown => Source(Shown)' = Source(Shown)
<1>1. Shown \in DOMAIN runs /\ runs[Shown].status = "complete"
  BY ShownIsComplete
<1>2. Complete \subseteq Complete'
  BY DEF Lasts, Complete
<1>3. Judged \subseteq Judged'
  BY <1>2 DEF Judged, Lasts, Complete
<1>4. runs'[Shown] = runs[Shown]
  BY <1>1 DEF Lasts
<1>5. ASSUME UNCHANGED <<head, settings, Shown>>, currentShown
      PROVE  currentShown'
  <2>1. CASE runs[Shown].version = head /\ runs[Shown].read = settings
    BY <1>4, <1>5, <2>1 DEF currentShown
  <2>2. CASE FailedAfter
    <3>1. PICK i \in DOMAIN runs : i > Shown /\ runs[i].status = "failed" /\ runs[i].version = head
      BY <2>2 DEF FailedAfter
    <3>2. i \in DOMAIN runs' /\ runs'[i] = runs[i]
      BY <3>1 DEF Lasts
    <3>3. FailedAfter'
      BY <1>5, <3>1, <3>2 DEF FailedAfter
    <3> QED
      BY <3>3 DEF currentShown
  <2> QED
    BY <1>5, <2>1, <2>2 DEF currentShown
<1>6. UNCHANGED Shown => Source(Shown)' = Source(Shown)
  BY <1>4 DEF Source
<1> QED
  BY <1>2, <1>3, <1>4, <1>5, <1>6

LEMMA StandsKept ==
    ASSUME UNCHANGED runs
    PROVE  Stands
<1>1. Complete' = Complete /\ FullEnds' = FullEnds
  BY DEF Complete, FullEnds
<1> QED
  BY <1>1, Asked, AskedNext DEF Stands, Lasts

LEMMA StandsAdded ==
    ASSUME Base, NEW r, Adds(r), r.status = "begun"
    PROVE  Stands
<1>1. Len(runs) \in Nat /\ DOMAIN runs = 1 .. Len(runs)
  BY RunTypes DEF Base
<1>2. Complete' = Complete /\ FullEnds' = FullEnds
  BY <1>1 DEF Adds, Complete, FullEnds
<1> QED
  BY <1>2, Asked, AskedNext DEF Stands, Lasts, Adds

LEMMA StandsMade ==
    ASSUME NEW k \in DOMAIN runs, NEW r, Makes(k, r), runs[k].status \notin {"complete", "failed"},
           r.status # "complete", r.version = runs[k].version, r.kind = runs[k].kind
    PROVE  Stands
<1>1. Complete' = Complete /\ FullEnds' = FullEnds
  BY DEF Makes, Complete, FullEnds
<1>2. Lasts
  BY DEF Makes, Lasts
<1> QED
  BY <1>1, <1>2, Asked, AskedNext DEF Stands

LEMMA VerdictAdded ==
    ASSUME Base, NEW k \in DOMAIN runs, NEW r, Makes(k, r), runs[k].status \notin {"complete", "failed"},
           r.status = "complete", r.version = runs[k].version, r.kind = runs[k].kind
    PROVE  /\ Lasts /\ k # Shown /\ k \in Complete'
           /\ Shown' = IF Shown < k THEN k ELSE Shown
           /\ r.kind = "lint" => LatestFull' = LatestFull
           /\ r.kind = "full" => LatestFull' = IF LatestFull < k THEN k ELSE LatestFull
<1>1. /\ Len(runs) \in Nat /\ DOMAIN runs = 1 .. Len(runs) /\ k \in 1 .. Len(runs)
      /\ Complete \in SUBSET (1 .. Len(runs)) /\ FullEnds \in SUBSET (1 .. Len(runs))
  BY RunTypes DEF Base
<1>2. Complete' = Complete \cup {k}
  BY DEF Makes, Complete
<1>3. r.kind = "lint" => FullEnds' = FullEnds
  BY DEF Makes, FullEnds
<1>4. r.kind = "full" => FullEnds' = FullEnds \cup {k}
  BY DEF Makes, FullEnds
<1>5. Lasts
  BY DEF Makes, Lasts
<1>6. Shown' = IF Shown < k THEN k ELSE Shown
  BY <1>1, <1>2, Asked, AskedNext, LatestAdded
<1>7. r.kind = "lint" => LatestFull' = LatestFull
  BY <1>3, Asked, AskedNext
<1>8. r.kind = "full" => LatestFull' = IF LatestFull < k THEN k ELSE LatestFull
  <2> HAVE r.kind = "full"
  <2>1. Latest(FullEnds') = IF Latest(FullEnds) < k THEN k ELSE Latest(FullEnds)
    <3>1. FullEnds' = FullEnds \cup {k}
      BY <1>4
    <3>2. Latest(FullEnds \cup {k}) = IF Latest(FullEnds) < k THEN k ELSE Latest(FullEnds)
      BY <1>1, LatestAdded
    <3> QED
      BY <3>1, <3>2
  <2> QED
    BY <2>1, Asked, AskedNext
<1>9. k # Shown
  BY ShownIsComplete
<1> QED
  BY <1>2, <1>5, <1>6, <1>7, <1>8, <1>9

\* A run that is not over has no verdict and did not fail.
LEMMA OwnedIsOpen ==
    ASSUME Base, NEW a \in Actor, pc[a] \in Writing \/ (a = Worker /\ pc[a] \in {"insert", "load", "judge"})
    PROVE  Owns(a) /\ mine[a] \in DOMAIN runs /\ Mine(a) \in Record /\ Mine(a).status \notin {"complete", "failed"}
<1>1. Owns(a) /\ mine[a] \in DOMAIN runs /\ Mine(a) \in Record
  BY HasRun DEF Owns, Queued
<1>2. Mine(a).status \notin {"complete", "failed"}
  BY <1>1, HasRun DEF Base, Works, QueueWorks, Queued
<1> QED
  BY <1>1, <1>2

-----------------------------------------------------------------------------
(* IInv is inductive: the changes. *)

LEMMA EditStep ==
    ASSUME IInv, NEW c \in Client, Edit(c)
    PROVE  IInv'
<1>1. /\ Base /\ Base' /\ UNCHANGED <<runs, settings, mine, seen>>
      /\ c \in Actor /\ c # Worker /\ pc'[c] = "changed"
      /\ \A b \in Actor : b # c => pc'[b] = pc[b]
      /\ Worker \in Actor /\ Client \subseteq Actor
      /\ head \in Nat /\ head' = head + 1 /\ Stands /\ Lasts /\ Shown' = Shown /\ LatestFull' = LatestFull
  BY ChangeBase, Facts, StandsKept, Others DEF IInv, Edit, GoTo, Stands
<1>2. /\ races \subseteq races'
      /\ pc[Worker] \in {"asked", "insert"} => "start" \in races'
      /\ pc[Worker] = "relint" => "relint" \in races'
  BY DEF Edit, ChangeMeets, Races
<1>3. Busy' /\ Changed'
  BY <1>1 DEF Busy, Changed
<1>4. \A i \in DOMAIN runs : runs[i] \in Record /\ runs[i].version \in 1 .. head
  BY <1>1, RunTypes DEF Base, Rows
<1>5. Linted'
  <2> SUFFICES ASSUME "start" \notin races' PROVE Linted'
    BY DEF Linted
  <2>1. Linted /\ "start" \notin races /\ pc'[Worker] # "asked"
    BY <1>1, <1>2 DEF IInv
  <2>2. Judged \subseteq Judged'
    BY <1>1, LastsMeans
  <2>3. \A i \in DOMAIN runs' : runs'[i].kind = "full" => runs'[i].version \in Judged'
    BY <1>1, <2>1, <2>2 DEF Linted
  <2> QED
    BY <1>1, <1>3, <2>1, <2>3 DEF Linted
<1>6. Current'
  <2> SUFFICES ASSUME races' \cap {"start", "relint"} = {} PROVE Current'
    BY DEF Current
  <2>1. Ordered /\ pc'[Worker] \notin {"asked", "insert", "relint"} /\ pc[Worker] = pc'[Worker]
    BY <1>1, <1>2 DEF IInv, Current
  <2>2. Ordered'
    BY <1>1, <1>3, <2>1 DEF Ordered
  <2>3. pc'[Worker] \in {"load", "judge"} => ~JudgesCurrent'
    <3> HAVE pc'[Worker] \in {"load", "judge"}
    <3>1. mine[Worker] \in DOMAIN runs
      BY <1>1, <2>1, HasRun DEF Queued
    <3>2. Mine(Worker).version # head + 1
      BY <1>1, <1>4, <3>1 DEF Mine
    <3> QED
      BY <1>1, <3>2 DEF JudgesCurrent, Mine
  <2> QED
    BY <1>3, <2>1, <2>2, <2>3 DEF Current
<1>7. Reaches'
  <2> SUFFICES ASSUME races' \cap {"start", "settings"} = {} PROVE Reaches'
    BY DEF Reaches
  <2>1. /\ Source(Shown) = LatestFull \/ WillRelint \/ pc[Worker] \in Writing
        /\ \A a \in Actor : pc[a] = "save" => Mine(a).carried = LatestFull \/ WillRelint
        /\ pc[Worker] = pc'[Worker]
    BY <1>1, <1>2 DEF IInv, Reaches
  <2>2. pc[Worker] \in Queued => mine[Worker] \in DOMAIN runs /\ head' > Mine(Worker).version
    <3> HAVE pc[Worker] \in Queued
    <3>1. mine[Worker] \in DOMAIN runs
      BY <1>1, HasRun
    <3> QED
      BY <1>1, <1>4, <3>1 DEF Mine
  <2>3. WillRelint => WillRelint'
    <3>1. pc[Worker] = "ended" => head' # Mine(Worker).version
      BY <1>1, <1>4, <2>2 DEF Queued, Mine
    <3> QED
      BY <1>1, <2>1, <3>1 DEF WillRelint, Mine
  <2>4. Source(Shown)' = Source(Shown)
    BY <1>1, LastsMeans
  <2>5. \A a \in Actor : pc'[a] = "save" => pc[a] = "save" /\ Mine(a)' = Mine(a)
    BY <1>1 DEF Mine
  <2>6. Mine(Worker)' = Mine(Worker)
    BY <1>1 DEF Mine
  <2> QED
    BY <1>1, <2>1, <2>2, <2>3, <2>4, <2>5, <2>6 DEF Reaches
<1> QED
  BY <1>1, <1>5, <1>6, <1>7 DEF IInv

LEMMA DecideStep ==
    ASSUME IInv, NEW c \in Client, Decide(c)
    PROVE  IInv'
<1>1. /\ Base /\ Base' /\ UNCHANGED <<runs, head, mine, seen>>
      /\ c \in Actor /\ c # Worker /\ pc'[c] = "changed"
      /\ \A b \in Actor : b # c => pc'[b] = pc[b]
      /\ Worker \in Actor /\ Client \subseteq Actor
      /\ settings \in Nat /\ settings' = settings + 1 /\ Stands /\ Lasts /\ Shown' = Shown /\ LatestFull' = LatestFull
  BY ChangeBase, Facts, StandsKept, Others DEF IInv, Decide, GoTo, Stands
<1>2. /\ races \subseteq races'
      /\ pc[Worker] \in {"asked", "insert"} => "start" \in races'
      /\ pc[Worker] # "idle" => "settings" \in races'
  BY DEF Decide, ChangeMeets, Races
<1>3. Busy' /\ Changed'
  BY <1>1 DEF Busy, Changed
<1>4. \A i \in DOMAIN runs : runs[i] \in Record /\ runs[i].recorded \in 1 .. settings
  BY <1>1, RunTypes DEF Base, Rows
<1>5. Linted'
  <2> SUFFICES ASSUME "start" \notin races' PROVE Linted'
    BY DEF Linted
  <2>1. Linted /\ "start" \notin races /\ pc'[Worker] # "asked"
    BY <1>1, <1>2 DEF IInv
  <2>2. Judged \subseteq Judged'
    BY <1>1, LastsMeans
  <2>3. \A i \in DOMAIN runs' : runs'[i].kind = "full" => runs'[i].version \in Judged'
    BY <1>1, <2>1, <2>2 DEF Linted
  <2> QED
    BY <1>1, <1>3, <2>1, <2>3 DEF Linted
<1>6. Current'
  <2> SUFFICES ASSUME races' \cap {"start", "relint"} = {} PROVE Current'
    BY DEF Current
  <2>1. Ordered /\ pc'[Worker] \notin {"asked", "insert"} /\ pc[Worker] = pc'[Worker]
    BY <1>1, <1>2 DEF IInv, Current
  <2>2. Ordered'
    BY <1>1, <1>3, <2>1 DEF Ordered
  <2>3. pc'[Worker] \in {"load", "judge"} => ~JudgesCurrent'
    <3> HAVE pc'[Worker] \in {"load", "judge"}
    <3>1. mine[Worker] \in DOMAIN runs
      BY <1>1, <2>1, HasRun DEF Queued
    <3>2. Mine(Worker).recorded # settings + 1
      BY <1>1, <1>4, <3>1 DEF Mine
    <3> QED
      BY <1>1, <3>2 DEF JudgesCurrent, Mine
  <2> QED
    BY <1>3, <2>1, <2>2, <2>3 DEF Current
<1>7. Reaches'
  <2> SUFFICES ASSUME races' \cap {"start", "settings"} = {} PROVE Reaches'
    BY DEF Reaches
  <2>1. /\ Source(Shown) = LatestFull \/ WillRelint \/ pc[Worker] \in Writing
        /\ \A a \in Actor : pc[a] = "save" => Mine(a).carried = LatestFull \/ WillRelint
        /\ pc[Worker] = pc'[Worker] /\ pc[Worker] = "idle"
    BY <1>1, <1>2 DEF IInv, Reaches
  <2>2. ~WillRelint
    BY <2>1 DEF WillRelint
  <2>3. Source(Shown)' = Source(Shown)
    BY <1>1, LastsMeans
  <2>4. \A a \in Actor : pc'[a] = "save" => pc[a] = "save" /\ Mine(a)' = Mine(a)
    BY <1>1 DEF Mine
  <2> QED
    BY <1>1, <2>1, <2>2, <2>3, <2>4 DEF Reaches, Writing, Queued
<1> QED
  BY <1>1, <1>5, <1>6, <1>7 DEF IInv

-----------------------------------------------------------------------------
(* IInv is inductive: the lint passes. *)

LEMMA PassBeginsStep ==
    ASSUME IInv, NEW c \in Client, PassBegins(c)
    PROVE  IInv'
<1>1. /\ Base /\ Base' /\ UNCHANGED <<runs, head, settings, mine, races>>
      /\ c \in Actor /\ c # Worker /\ pc[c] = "changed" /\ pc'[c] = "check" /\ seen'[c] = head
      /\ \A b \in Actor : b # c => pc'[b] = pc[b] /\ seen'[b] = seen[b]
      /\ \A b \in Actor : pc[b] \notin Linting
      /\ Worker \in Actor /\ Client \subseteq Actor /\ head \in Nat
      /\ Stands /\ Lasts /\ Shown' = Shown /\ LatestFull' = LatestFull
  BY PassBeginsBase, Facts, StandsKept, Others, NobodyLints DEF IInv, PassBegins, GoTo, Stands, doc
<1>2. Busy' /\ Busy
  BY <1>1 DEF Busy
<1>3. \A i \in DOMAIN runs : runs[i].version <= head
  BY <1>1 DEF Base, Rows
<1>4. Judged \subseteq Judged'
  BY <1>1, LastsMeans
<1>5. Linted'
  BY <1>1, <1>2, <1>4 DEF IInv, Linted
<1>6. Current'
  <2> SUFFICES ASSUME races' \cap {"start", "relint"} = {} PROVE Current'
    BY DEF Current
  <2>1. Ordered /\ pc[Worker] = pc'[Worker] /\ seen'[Worker] = seen[Worker] /\ pc[Worker] # "insert"
    BY <1>1, <1>2 DEF IInv, Current, Base, Calm
  <2>2. Ordered'
    BY <1>1, <1>3, <2>1 DEF Ordered, Linting, Writing
  <2>3. /\ JudgesCurrent' = JudgesCurrent
        /\ currentShown => currentShown'
    BY <1>1, LastsMeans DEF JudgesCurrent, Mine
  <2>4. pc[Worker] \in {"load", "judge"} /\ Shown < mine[Worker] => (JudgesCurrent => currentShown)
    BY <1>1 DEF IInv, Current
  <2> QED
    BY <1>1, <1>2, <2>1, <2>2, <2>3, <2>4 DEF Current
<1>7. Reaches'
  <2> SUFFICES ASSUME races' \cap {"start", "settings"} = {} PROVE Reaches'
    BY DEF Reaches
  <2>1. Source(Shown)' = Source(Shown)
    BY <1>1, LastsMeans
  <2>2. \A a \in Actor : pc'[a] = "save" => pc[a] = "save"
    BY <1>1
  <2>3. \A a \in Actor : Mine(a)' = Mine(a)
    BY <1>1 DEF Mine
  <2>4. WillRelint' = WillRelint
    BY <1>1 DEF WillRelint, Mine
  <2>5. /\ Source(Shown) = LatestFull \/ WillRelint \/ pc[Worker] \in Writing
        /\ \A a \in Actor : pc[a] = "save" => Mine(a).carried = LatestFull \/ WillRelint
        /\ pc[Worker] \in Queued =>
             /\ Busy => head > Mine(Worker).version
             /\ \A j \in DOMAIN runs : j > mine[Worker] => head > Mine(Worker).version
        /\ pc'[Worker] = pc[Worker]
    BY <1>1 DEF IInv, Reaches
  <2> QED
    BY <1>1, <1>2, <2>1, <2>2, <2>3, <2>4, <2>5 DEF Reaches
<1> QED
  BY <1>1, <1>5, <1>6, <1>7 DEF IInv

\* A pass that skips leaves a doc that has no other change with a verdict on
\* its version, and shows it if the runs are in order.
LEMMA SkipShowsCurrent ==
    ASSUME IInv, NEW c \in Client, pc[c] = "check", seen[c] = head, UpToDate(head)
    PROVE  /\ "start" \notin races => head \in Judged
           /\ races \cap {"start", "relint"} = {} =>
                /\ currentShown
                /\ pc[Worker] \in {"load", "judge"} /\ Shown < mine[Worker] => JudgesCurrent
<1> DEFINE k == LatestRunFor(head)
<1>1. /\ Base /\ Len(runs) \in Nat /\ DOMAIN runs = 1 .. Len(runs) /\ Stored(head) \in SUBSET (1 .. Len(runs))
      /\ head \in Nat /\ settings \in Nat
      /\ \A i \in DOMAIN runs : runs[i] \in Record
  BY RunTypes, Facts DEF IInv, Base
<1>2. k = Latest(Stored(head)) /\ k # 0 /\ runs[k].recorded = settings
  BY Asked DEF UpToDate
<1> HIDE DEF k
<1>3. k \in Stored(head) /\ \A i \in Stored(head) : i <= k
  BY <1>1, <1>2, LatestOf
<1>4. k \in DOMAIN runs /\ runs[k].version = head /\ runs[k].status # "begun" /\ k \in Nat
  BY <1>1, <1>3 DEF Stored, InStore
<1>5. /\ runs[k].kind \in {"full", "lint"} /\ runs[k].status \in Statuses
      /\ runs[k].read \in settings .. settings /\ runs[k].read = settings
      /\ runs[k].kind = "lint" => runs[k].status = "complete"
      /\ runs[k].kind = "full" /\ runs[k].status = "active" => k = mine[Worker] /\ pc[Worker] \in {"load", "judge"}
  <2>1. /\ runs[k].kind \in {"full", "lint"} /\ runs[k].status \in Statuses
        /\ runs[k].read \in runs[k].recorded .. settings
        /\ runs[k].kind = "lint" => runs[k].status \in {"begun", "complete"}
        /\ runs[k].kind = "full" /\ runs[k].status = "active" => k = mine[Worker] /\ pc[Worker] \in {"load", "judge"}
    BY <1>1, <1>4 DEF Base, Rows, Record
  <2> QED
    BY <1>1, <1>2, <1>4, <2>1
<1>6. ASSUME "start" \notin races PROVE head \in Judged
  <2>1. CASE runs[k].kind = "lint"
    BY <1>4, <1>5, <2>1 DEF Judged, Complete
  <2>2. CASE runs[k].kind = "full"
    BY <1>4, <1>6, <2>2 DEF IInv, Linted
  <2> QED
    BY <1>5, <2>1, <2>2
<1>7. ASSUME races \cap {"start", "relint"} = {}
      PROVE  /\ currentShown
             /\ pc[Worker] \in {"load", "judge"} /\ Shown < mine[Worker] => JudgesCurrent
  <2>1. /\ Shown \in DOMAIN runs /\ runs[Shown].status = "complete" /\ Shown \in Nat
        /\ \A i \in Complete : i <= Shown
    BY <1>1, ShownIsComplete
  <2>2. /\ \A i, j \in DOMAIN runs : i < j => runs[i].version <= runs[j].version
        /\ \A i \in DOMAIN runs : runs[i].version \in Nat /\ runs[i].version <= head
    BY <1>1, <1>7 DEF IInv, Current, Ordered, Base, Rows
  <2>3. \A i \in DOMAIN runs : i > k => runs[i].version = head
    <3> TAKE i \in DOMAIN runs
    <3> HAVE i > k
    <3>1. k < i
      BY <1>1, <1>4
    <3>2. head <= runs[i].version /\ runs[i].version <= head /\ runs[i].version \in Nat
      BY <1>4, <2>2, <3>1
    <3> QED
      BY <1>1, <3>2
  <2>4. Shown <= k
    <3>1. CASE Shown > k
      <4>1. Shown \in Stored(head)
        BY <2>1, <2>3, <3>1 DEF Stored, InStore
      <4> QED
        BY <1>3, <4>1
    <3> QED
      BY <1>4, <2>1, <3>1
  <2>5. runs[k].status = "complete" => Shown = k
    <3> HAVE runs[k].status = "complete"
    <3>1. k <= Shown
      BY <1>4, <2>1 DEF Complete
    <3> QED
      BY <1>4, <2>1, <2>4, <3>1
  <2>6. runs[k].status # "complete" => Shown < k
    BY <1>4, <2>1, <2>4
  <2>7. currentShown
    <3>1. CASE runs[k].status = "complete"
      BY <1>4, <1>5, <2>5, <3>1 DEF currentShown
    <3>2. CASE runs[k].status = "failed"
      <4>1. k > Shown
        BY <1>4, <2>1, <2>6, <3>2
      <4> QED
        BY <1>4, <3>2, <4>1 DEF currentShown, FailedAfter
    <3>3. CASE runs[k].status = "active"
      <4>1. k = mine[Worker] /\ pc[Worker] \in {"load", "judge"} /\ Shown < mine[Worker]
        BY <1>5, <2>6, <3>3
      <4>2. JudgesCurrent
        BY <1>2, <1>4, <4>1 DEF JudgesCurrent, Mine
      <4> QED
        BY <1>7, <4>1, <4>2 DEF IInv, Current
    <3> QED
      BY <1>4, <1>5, <3>1, <3>2, <3>3 DEF Statuses
  <2>8. ASSUME pc[Worker] \in {"load", "judge"}, Shown < mine[Worker] PROVE JudgesCurrent
    <3>1. /\ mine[Worker] \in DOMAIN runs /\ Mine(Worker).status = "active"
          /\ \A i \in DOMAIN runs : runs[i].kind = "full" => i <= mine[Worker]
          /\ mine[Worker] \in Nat
      BY <1>1, <2>8 DEF Base, Works, QueueWorks, Queued
    <3>2. CASE mine[Worker] > k
      <4>1. mine[Worker] \in Stored(head)
        BY <2>3, <3>1, <3>2 DEF Stored, InStore, Mine
      <4> QED
        BY <1>3, <3>2, <4>1, <3>1, <1>4
    <3>3. CASE mine[Worker] < k
      <4>1. runs[k].kind = "lint"
        BY <1>4, <1>5, <3>1, <3>3
      <4> QED
        BY <1>5, <2>5, <2>8, <3>1, <3>3, <4>1, <1>4
    <3>4. CASE mine[Worker] = k
      BY <1>2, <1>4, <3>4 DEF JudgesCurrent, Mine
    <3> QED
      BY <1>4, <3>1, <3>2, <3>3, <3>4
  <2> QED
    BY <2>7, <2>8
<1> QED
  BY <1>6, <1>7


LEMMA SkipStep ==
    ASSUME IInv, NEW c \in Client, LintIfNeeded(c), UpToDate(seen[c])
    PROVE  IInv'
<1>1. /\ Base /\ Base' /\ UNCHANGED <<runs, head, settings, races>>
      /\ c \in Actor /\ c # Worker /\ pc[c] = "check" /\ pc'[c] = "idle"
      /\ \A b \in Actor : b # c => pc'[b] = pc[b] /\ seen'[b] = seen[b] /\ mine'[b] = mine[b]
      /\ \A b \in Actor : b # c => pc[b] \notin Linting
      /\ Worker \in Actor /\ Client \subseteq Actor
      /\ Stands /\ Lasts /\ Shown' = Shown /\ LatestFull' = LatestFull
  <2>1. Base /\ c \in Actor /\ c # Worker /\ Worker \in Actor /\ Client \subseteq Actor /\ pc[c] = "check"
    BY Facts DEF IInv, LintIfNeeded
  <2>2. UNCHANGED <<runs, head, settings, races>> /\ pc'[c] = "idle"
    BY <2>1, Facts DEF LintIfNeeded, Return, GoTo, doc
  <2>3. Stands
    BY <2>2, StandsKept
  <2> QED
    BY <2>1, <2>2, <2>3, LintIfNeededBase, Others, OneLints DEF Stands, Linting
<1>2. Busy' => Busy
  BY <1>1 DEF Busy
<1>3. seen[c] = head \/ Changed
  BY <1>1 DEF Base, Holding, Linting
<1>4. Changed => Busy'
  BY <1>1 DEF Changed, Busy
<1>5. seen[c] = head => UpToDate(head)
  OBVIOUS
<1>6. Judged \subseteq Judged'
  BY <1>1, LastsMeans
<1>7. pc'[Worker] = pc[Worker] /\ seen'[Worker] = seen[Worker] /\ mine'[Worker] = mine[Worker] /\ Mine(Worker)' = Mine(Worker)
  BY <1>1 DEF Mine
<1>8. Linted'
  <2> SUFFICES ASSUME "start" \notin races PROVE Linted'
    BY <1>1 DEF Linted
  <2>1. head \in Judged' \/ Busy'
    BY <1>1, <1>3, <1>4, <1>5, <1>6, SkipShowsCurrent
  <2> QED
    BY <1>1, <1>6, <1>7, <2>1 DEF IInv, Linted
<1>9. Current'
  <2> SUFFICES ASSUME races \cap {"start", "relint"} = {} PROVE Current'
    BY <1>1 DEF Current
  <2>1. Ordered
    BY DEF IInv, Current
  <2>2. Ordered'
    BY <1>1, <1>7, <2>1 DEF Ordered, Linting, Writing
  <2>3. /\ JudgesCurrent' = JudgesCurrent
        /\ currentShown => currentShown'
    BY <1>1, <1>7, LastsMeans DEF JudgesCurrent
  <2>4. CASE seen[c] = head
    <3>1. /\ currentShown
          /\ pc[Worker] \in {"load", "judge"} /\ Shown < mine[Worker] => JudgesCurrent
      BY <1>1, <1>5, <2>4, SkipShowsCurrent
    <3> QED
      BY <1>1, <1>7, <2>2, <2>3, <3>1 DEF IInv, Current
  <2>5. CASE Changed
    BY <1>1, <1>4, <1>7, <2>2, <2>3, <2>5 DEF IInv, Current
  <2> QED
    BY <1>3, <2>4, <2>5
<1>10. Reaches'
  <2> SUFFICES ASSUME races \cap {"start", "settings"} = {} PROVE Reaches'
    BY <1>1 DEF Reaches
  <2>1. Source(Shown)' = Source(Shown)
    BY <1>1, LastsMeans
  <2>2. \A a \in Actor : pc'[a] = "save" => pc[a] = "save" /\ Mine(a)' = Mine(a)
    BY <1>1 DEF Mine
  <2>3. WillRelint' = WillRelint
    BY <1>1, <1>7 DEF WillRelint
  <2>4. /\ Source(Shown) = LatestFull \/ WillRelint \/ pc[Worker] \in Writing
        /\ \A a \in Actor : pc[a] = "save" => Mine(a).carried = LatestFull \/ WillRelint
        /\ pc[Worker] \in Queued =>
             /\ Busy => head > Mine(Worker).version
             /\ \A j \in DOMAIN runs : j > mine[Worker] => head > Mine(Worker).version
    BY DEF IInv, Reaches
  <2> QED
    BY <1>1, <1>2, <1>7, <2>1, <2>2, <2>3, <2>4 DEF Reaches
<1> QED
  BY <1>1, <1>8, <1>9, <1>10 DEF IInv

LEMMA LintBeginsStep ==
    ASSUME IInv, NEW c \in Client, LintIfNeeded(c), ~UpToDate(seen[c])
    PROVE  IInv'
<1> DEFINE r == NewRun("lint", seen[c], settings)
<1>1. /\ Base /\ UNCHANGED <<head, settings, seen, races>> /\ BeginLint(c, seen[c])
      /\ c \in Actor /\ c # Worker /\ Worker \in Actor /\ Client \subseteq Actor /\ pc[c] = "check"
      /\ seen[c] \in Nat /\ settings \in Nat
  <2>1. Base /\ c \in Actor /\ c # Worker /\ Worker \in Actor /\ Client \subseteq Actor /\ pc[c] = "check"
    BY Facts DEF IInv, LintIfNeeded
  <2>2. seen[c] \in Nat /\ settings \in Nat
    BY <2>1, Facts
  <2> QED
    BY <2>1, <2>2 DEF LintIfNeeded, doc
<1>2. /\ Adds(r) /\ r \in Record /\ mine'[c] = Len(runs) + 1 /\ pc'[c] = "lint"
      /\ r.kind = "lint" /\ r.status = "begun" /\ r.version = seen[c]
  BY <1>1, Begins, NewRunIsRecord, Facts
<1> HIDE DEF r
<1>3. /\ Base'
      /\ \A b \in Actor : b # c => pc'[b] = pc[b] /\ mine'[b] = mine[b]
      /\ \A b \in Actor : b # c => pc[b] \notin Linting
  BY <1>1, LintIfNeededBase, Others, OneLints DEF Linting
<1>4. /\ DOMAIN runs' = DOMAIN runs \cup {Len(runs) + 1} /\ runs'[Len(runs) + 1] = r
      /\ \A i \in DOMAIN runs : runs'[i] = runs[i]
      /\ Len(runs) \in Nat /\ DOMAIN runs = 1 .. Len(runs)
  BY <1>1, <1>2, RunTypes DEF Adds, Base
<1>5. Stands /\ Lasts /\ Shown' = Shown /\ LatestFull' = LatestFull
  BY <1>1, <1>2, StandsAdded DEF Stands
<1>6. Busy /\ Busy'
  BY <1>1, <1>2 DEF Busy
<1>7. Judged \subseteq Judged'
  BY <1>1, <1>5, LastsMeans
<1>8. /\ pc'[Worker] = pc[Worker] /\ mine'[Worker] = mine[Worker]
      /\ pc[Worker] \in Queued => mine[Worker] \in DOMAIN runs /\ Mine(Worker)' = Mine(Worker)
  BY <1>1, <1>3, <1>4, HasRun DEF Mine
<1>9. Linted'
  <2> SUFFICES ASSUME "start" \notin races PROVE Linted'
    BY <1>1 DEF Linted
  <2>1. \A i \in DOMAIN runs' : runs'[i].kind = "full" => runs'[i].version \in Judged'
    <3> TAKE i \in DOMAIN runs'
    <3> HAVE runs'[i].kind = "full"
    <3>1. i \in DOMAIN runs /\ runs'[i] = runs[i]
      BY <1>2, <1>4
    <3>2. runs[i].version \in Judged
      BY <3>1 DEF IInv, Linted
    <3> QED
      BY <1>7, <3>1, <3>2
  <2>2. pc'[Worker] = "asked" => seen'[Worker] \in Judged'
    BY <1>1, <1>7, <1>8 DEF IInv, Linted
  <2> QED
    BY <1>6, <2>1, <2>2 DEF Linted
<1>10. Current'
  <2> SUFFICES ASSUME races \cap {"start", "relint"} = {} PROVE Current'
    BY <1>1 DEF Current
  <2>1. Ordered /\ pc'[Worker] # "insert"
    BY <1>6, <1>8 DEF IInv, Current, Base, Calm
  <2>2. \A i \in DOMAIN runs : runs[i].version <= seen[c]
    BY <1>1, <2>1 DEF Ordered
  <2>3. \A i, j \in DOMAIN runs' : i < j => runs'[i].version <= runs'[j].version
    BY <1>2, <1>4, <2>1, <2>2 DEF Ordered
  <2>4. \A b \in Client : pc'[b] # "check"
    BY <1>1, <1>2, <1>3 DEF Linting
  <2>5. Ordered'
    BY <1>1, <1>3, <1>8, <2>1, <2>3, <2>4 DEF Ordered, Linting, Writing
  <2>6. pc[Worker] \in {"load", "judge"} => JudgesCurrent' = JudgesCurrent
    BY <1>1, <1>8 DEF JudgesCurrent, Queued
  <2>7. currentShown => currentShown'
    BY <1>1, <1>5, LastsMeans
  <2> QED
    BY <1>1, <1>5, <1>6, <1>8, <2>1, <2>5, <2>6, <2>7 DEF IInv, Current
<1>11. Reaches'
  <2> SUFFICES ASSUME races \cap {"start", "settings"} = {} PROVE Reaches'
    BY <1>1 DEF Reaches
  <2>1. Source(Shown)' = Source(Shown)
    BY <1>1, <1>5, LastsMeans
  <2>2. \A a \in Actor : pc'[a] # "save"
    BY <1>1, <1>2, <1>3 DEF Linting, Writing
  <2>3. WillRelint => WillRelint'
    BY <1>1, <1>8 DEF WillRelint, Queued
  <2>4. /\ Source(Shown) = LatestFull \/ WillRelint \/ pc[Worker] \in Writing
        /\ pc[Worker] \in Queued => head > Mine(Worker).version
    BY <1>6 DEF IInv, Reaches
  <2> QED
    BY <1>1, <1>5, <1>8, <2>1, <2>2, <2>3, <2>4 DEF Reaches
<1> QED
  BY <1>3, <1>9, <1>10, <1>11 DEF IInv

\* A pass that has not saved yet: the doc shows what it showed.
LEMMA PassStep ==
    ASSUME IInv, Base', NEW a \in Actor, pc[a] \in {"lint", "carry"}, NEW r \in Record, Makes(mine[a], r), Moves(a), Keeps(a),
           r.kind = "lint", r.status = "begun", r.version = Mine(a).version,
           UNCHANGED <<head, settings, seen, mine, races>>,
           pc'[a] \in {"carry", "save"}, r.read = settings \/ (pc[a] = "carry" /\ r.read = Mine(a).read),
           pc'[a] = "save" => r.carried = LatestFull
    PROVE  IInv'
<1>1. /\ Base /\ Worker \in Actor /\ Client \subseteq Actor /\ Worker \notin Client
      /\ \A b \in Actor : b # a => pc'[b] = pc[b] /\ pc[b] \notin Linting
      /\ a = Worker \/ a \in Client
  BY Facts, Others, OneLints DEF IInv, Linting, Writing
<1>2. /\ mine[a] \in DOMAIN runs /\ Mine(a).kind = "lint" /\ Mine(a).status = "begun" /\ Owns(a)
  BY <1>1, HasRun DEF Writing, Owns
<1>3. /\ DOMAIN runs' = DOMAIN runs /\ runs'[mine[a]] = r
      /\ \A i \in DOMAIN runs : i # mine[a] => runs'[i] = runs[i]
      /\ \A i \in DOMAIN runs : runs'[i].version = runs[i].version /\ runs'[i].kind = runs[i].kind
  BY <1>2 DEF Makes, Mine
<1>4. Stands /\ Lasts /\ Shown' = Shown /\ LatestFull' = LatestFull
  BY <1>2, StandsMade DEF Stands, Mine
<1>5. Busy' = Busy /\ Changed' = Changed
  BY <1>1 DEF Busy, Changed
<1>6. Judged \subseteq Judged'
  BY <1>1, <1>4, LastsMeans
<1>7. \A b \in Actor : b # a /\ Owns(b) => Mine(b)' = Mine(b)
  BY <1>1, <1>2, OthersWork DEF Mine
<1>8. Linted'
  <2>1. pc'[Worker] = "asked" => pc[Worker] = "asked"
    BY <1>1
  <2> QED
    BY <1>3, <1>5, <1>6, <2>1 DEF IInv, Linted
<1>9. Current'
  <2> SUFFICES ASSUME races \cap {"start", "relint"} = {} PROVE Current'
    BY DEF Current
  <2>1. Ordered
    BY DEF IInv, Current
  <2>2. Ordered'
    <3>1. pc'[Worker] \in {"carry", "save"} => Mine(Worker)'.read = settings \/ Changed
      <4>1. CASE a = Worker
        BY <1>3, <2>1, <4>1 DEF Ordered, Mine
      <4>2. CASE a # Worker
        BY <1>1, <4>2 DEF Linting, Writing
      <4> QED
        BY <4>1, <4>2
    <3>2. pc'[Worker] \in Writing => seen[Worker] = head \/ Changed
      BY <1>1, <2>1 DEF Ordered, Linting, Writing
    <3> QED
      BY <1>1, <1>3, <1>5, <2>1, <3>1, <3>2 DEF Ordered
  <2>3. pc'[Worker] \in {"insert", "load", "judge"} => pc'[Worker] = pc[Worker] /\ JudgesCurrent' = JudgesCurrent
    <3> HAVE pc'[Worker] \in {"insert", "load", "judge"}
    <3>1. a # Worker /\ pc'[Worker] = pc[Worker]
      BY <1>1
    <3>2. Mine(Worker)' = Mine(Worker)
      BY <1>1, <1>7, <3>1 DEF Owns, Queued
    <3> QED
      BY <3>1, <3>2 DEF JudgesCurrent
  <2>4. currentShown => currentShown'
    BY <1>1, <1>4, LastsMeans
  <2> QED
    BY <1>1, <1>4, <1>5, <2>2, <2>3, <2>4 DEF IInv, Current
<1>10. Reaches'
  <2> SUFFICES ASSUME races \cap {"start", "settings"} = {} PROVE Reaches'
    BY DEF Reaches
  <2>1. Source(Shown)' = Source(Shown)
    BY <1>1, <1>4, LastsMeans
  <2>2. pc[Worker] \in Queued \cup {"relint"} => pc'[Worker] = pc[Worker] /\ (pc[Worker] \in Queued => Mine(Worker)' = Mine(Worker))
    BY <1>1, <1>7 DEF Owns, Queued
  <2>3. pc'[Worker] \in Queued => pc[Worker] \in Queued
    BY <1>1 DEF Queued
  <2>4. WillRelint => WillRelint'
    BY <1>1, <2>2 DEF WillRelint, Queued
  <2>5. pc[Worker] \in Writing => pc'[Worker] \in Writing
    BY <1>1 DEF Writing
  <2>6. ASSUME NEW b \in Actor, pc'[b] = "save" PROVE Mine(b)'.carried = LatestFull'
    BY <1>1, <1>3, <1>4, <2>6 DEF Mine, Linting, Writing
  <2>7. /\ Source(Shown) = LatestFull \/ WillRelint \/ pc[Worker] \in Writing
        /\ pc[Worker] \in Queued =>
             /\ Busy => head > Mine(Worker).version
             /\ \A j \in DOMAIN runs : j > mine[Worker] => head > Mine(Worker).version
    BY DEF IInv, Reaches
  <2> QED
    BY <1>3, <1>4, <1>5, <2>1, <2>2, <2>3, <2>4, <2>5, <2>6, <2>7 DEF Reaches
<1> QED
  BY <1>8, <1>9, <1>10 DEF IInv

LEMMA LintLoadsStep ==
    ASSUME IInv, NEW a \in Actor, LintLoads(a)
    PROVE  IInv'
<1> DEFINE r == Settled(Mine(a))
<1>1. /\ pc[a] = "lint" /\ pc'[a] = "carry" /\ UNCHANGED <<head, settings, seen, mine, races>>
      /\ Base' /\ Moves(a) /\ Keeps(a) /\ Makes(mine[a], r) /\ r \in Record
  BY LintLoadsBase, Loads, Facts DEF IInv, LintLoads, GoTo, doc
<1>2. Mine(a) \in Record /\ Mine(a).kind = "lint" /\ Mine(a).status = "begun"
  BY <1>1, HasRun DEF IInv, Writing
<1>3. r.kind = "lint" /\ r.status = "begun" /\ r.version = Mine(a).version /\ r.read = settings
  BY <1>2 DEF Settled, Record
<1> HIDE DEF r
<1> QED
  BY <1>1, <1>3, PassStep

LEMMA CarryStep ==
    ASSUME IInv, NEW a \in Actor, Carry(a)
    PROVE  IInv'
<1> DEFINE r == Carrying(Mine(a))
<1>1. /\ pc[a] = "carry" /\ pc'[a] = "save" /\ UNCHANGED <<head, settings, seen, mine, races>>
      /\ Base' /\ Moves(a) /\ Keeps(a) /\ Makes(mine[a], r) /\ r \in Record
  BY CarryBase, Carries, Facts DEF IInv, Carry, GoTo, doc
<1>2. Mine(a) \in Record /\ Mine(a).kind = "lint" /\ Mine(a).status = "begun"
  BY <1>1, HasRun DEF IInv, Writing
<1>3. r.kind = "lint" /\ r.status = "begun" /\ r.version = Mine(a).version /\ r.read = Mine(a).read /\ r.carried = LatestFull
  BY <1>2 DEF Carrying, Record
<1> HIDE DEF r
<1> QED
  BY <1>1, <1>3, PassStep

LEMMA LintSavesStep ==
    ASSUME IInv, NEW a \in Actor, LintSaves(a)
    PROVE  IInv'
<1> DEFINE r == WithStatus(Mine(a), "complete")
<1>1. /\ Base /\ Base' /\ UNCHANGED <<head, settings, races>>
      /\ pc[a] = "save" /\ pc'[a] = "idle"
      /\ Worker \in Actor /\ Client \subseteq Actor /\ Worker \notin Client
      /\ a = Worker \/ a \in Client
      /\ Makes(mine[a], r) /\ r \in Record /\ Moves(a) /\ Keeps(a)
  BY LintSavesBase, EndsAs, Facts DEF IInv, LintSaves, Return, GoTo, doc, Writing, Statuses
<1>2. /\ \A b \in Actor : b # a => pc'[b] = pc[b] /\ seen'[b] = seen[b] /\ mine'[b] = mine[b] /\ pc[b] \notin Linting
      /\ mine[a] \in DOMAIN runs /\ Mine(a) \in Record /\ Mine(a).kind = "lint" /\ Mine(a).status = "begun" /\ Owns(a)
      /\ Mine(a).version = seen[a]
  BY <1>1, Others, OneLints, HasRun DEF Linting, Writing, Owns
<1>3. /\ r.kind = "lint" /\ r.version = seen[a] /\ r.status = "complete" /\ r.read = Mine(a).read
      /\ r.carried = Mine(a).carried
  BY <1>2 DEF WithStatus, Record
<1> HIDE DEF r
<1>4. /\ DOMAIN runs' = DOMAIN runs /\ runs'[mine[a]] = r
      /\ \A i \in DOMAIN runs : runs'[i].version = runs[i].version /\ runs'[i].kind = runs[i].kind
      /\ Len(runs) \in Nat /\ DOMAIN runs = 1 .. Len(runs)
  BY <1>1, <1>2, <1>3, RunTypes DEF Makes, Mine, Base
<1>5. /\ Lasts /\ mine[a] \in Complete' /\ LatestFull' = LatestFull
      /\ mine[a] # Shown /\ Shown' = IF Shown < mine[a] THEN mine[a] ELSE Shown
  BY <1>1, <1>2, <1>3, VerdictAdded DEF Mine
<1>6. /\ Busy' => Busy
      /\ Changed => Changed' /\ Busy'
      /\ a = Worker => Busy' = Busy
  BY <1>1, <1>2 DEF Busy, Changed
<1>7. Judged \subseteq Judged'
  BY <1>1, <1>5, LastsMeans
<1>8. \A b \in Actor : b # a /\ Owns(b) => Mine(b)' = Mine(b)
  BY <1>1, <1>2, OthersWork DEF Mine
\* With no change at the start of a review, this pass started last.
<1>9. "start" \notin races => Shown' = mine[a] /\ mine[a] = Len(runs)
  <2> HAVE "start" \notin races
  <2>1. mine[a] = Len(runs)
    BY <1>1 DEF Base, Calm, Writing
  <2>2. Shown \in 1 .. Len(runs)
    BY <1>1, ShownIsComplete
  <2>3. mine[a] # Shown
    BY <1>5
  <2>4. Shown < mine[a]
    <3>1. Len(runs) \in Nat
      BY <1>4
    <3>2. \A n \in Nat : \A s \in 1 .. n : s # n => s < n
      OBVIOUS
    <3>3. Shown # Len(runs)
      BY <2>1, <2>3
    <3> QED
      BY <2>1, <2>2, <3>1, <3>2, <3>3
  <2>5. Shown' = mine[a]
    BY <1>5, <2>4
  <2> QED
    BY <2>1, <2>5
<1>10. Linted'
  <2> SUFFICES ASSUME "start" \notin races PROVE Linted'
    BY <1>1 DEF Linted
  <2>1. head \in Judged' \/ Busy'
    <3>1. CASE a = Worker
      BY <1>6, <1>7, <3>1 DEF IInv, Linted
    <3>2. CASE a \in Client
      <4>1. seen[a] = head \/ Changed
        BY <1>1, <3>2 DEF Base, Holding, Linting, Writing
      <4>2. seen[a] = head => head \in Judged'
        BY <1>3, <1>4, <1>5 DEF Judged
      <4> QED
        BY <1>6, <4>1, <4>2
    <3> QED
      BY <1>1, <3>1, <3>2
  <2>2. pc'[Worker] = "asked" => pc[Worker] = "asked" /\ seen'[Worker] = seen[Worker]
    BY <1>1, <1>2
  <2> QED
    BY <1>1, <1>4, <1>7, <2>1, <2>2 DEF IInv, Linted
<1>11. Current'
  <2> SUFFICES ASSUME races \cap {"start", "relint"} = {} PROVE Current'
    BY <1>1 DEF Current
  <2>1. Ordered
    BY DEF IInv, Current
  <2>2. Ordered'
    <3>1. \A c \in Client : pc'[c] # "check"
      BY <1>1, <1>2 DEF Linting
    <3>2. pc'[Worker] \notin Writing
      BY <1>1, <1>2 DEF Linting, Writing
    <3>3. pc'[Worker] \in {"asked", "relint"} => seen'[Worker] = head
      BY <1>1, <1>2, <2>1 DEF Ordered
    <3> QED
      BY <1>1, <1>4, <2>1, <3>1, <3>2, <3>3 DEF Ordered, Writing
  <2>3. currentShown' \/ Busy'
    <3>1. seen[a] = head \/ Changed
      BY <1>1, <2>1 DEF Base, Holding, Ordered, Linting, Writing
    <3>2. Mine(a).read = settings \/ Changed
      BY <1>1, <2>1 DEF Base, Holding, Ordered
    <3>3. Shown' = mine[a]
      BY <1>9
    <3>4. seen[a] = head /\ Mine(a).read = settings => currentShown'
      BY <1>1, <1>3, <1>4, <3>3 DEF currentShown
    <3> QED
      BY <1>6, <3>1, <3>2, <3>4
  <2>4. pc'[Worker] = "insert" => JudgesCurrent'
    <3> HAVE pc'[Worker] = "insert"
    <3>1. a # Worker /\ pc[Worker] = "insert"
      BY <1>1, <1>2
    <3>2. Mine(Worker)' = Mine(Worker)
      BY <1>1, <1>8, <3>1 DEF Owns, Queued
    <3>3. JudgesCurrent
      BY <3>1 DEF IInv, Current
    <3> QED
      BY <1>1, <3>2, <3>3 DEF JudgesCurrent
  <2>5. pc'[Worker] \in {"load", "judge"} => ~(Shown' < mine'[Worker])
    <3> HAVE pc'[Worker] \in {"load", "judge"}
    <3>1. a # Worker /\ mine'[Worker] = mine[Worker] /\ pc[Worker] \in Queued
      BY <1>1, <1>2 DEF Queued
    <3>2. mine[Worker] \in 1 .. Len(runs)
      BY <1>1, <1>4, <3>1, HasRun
    <3> QED
      BY <1>4, <1>9, <3>1, <3>2
  <2> QED
    BY <2>2, <2>3, <2>4, <2>5 DEF Current
<1>12. Reaches'
  <2> SUFFICES ASSUME races \cap {"start", "settings"} = {} PROVE Reaches'
    BY <1>1 DEF Reaches
  <2>1. Source(Shown)' = Mine(a).carried
    BY <1>3, <1>4, <1>9 DEF Source
  <2>2. Mine(a).carried = LatestFull \/ WillRelint
    BY <1>1 DEF IInv, Reaches
  <2>3. \A b \in Actor : pc'[b] # "save"
    BY <1>1, <1>2 DEF Linting, Writing
  <2>4. pc'[Worker] \in Queued => pc[Worker] \in Queued
    BY <1>1, <1>2 DEF Queued
  <2>5. /\ pc[Worker] \in Queued => pc'[Worker] = pc[Worker] /\ mine'[Worker] = mine[Worker] /\ Mine(Worker)' = Mine(Worker)
        /\ pc[Worker] = "relint" => pc'[Worker] = "relint"
    <3>1. pc[Worker] \in Queued \cup {"relint"} => a # Worker
      BY <1>1 DEF Queued
    <3> QED
      BY <1>1, <1>2, <1>8, <3>1 DEF Owns
  <2>6. WillRelint => WillRelint'
    BY <1>1, <2>5 DEF WillRelint, Queued
  <2>7. pc[Worker] \in Queued =>
             /\ Busy => head > Mine(Worker).version
             /\ \A j \in DOMAIN runs : j > mine[Worker] => head > Mine(Worker).version
    BY DEF IInv, Reaches
  <2> QED
    BY <1>1, <1>4, <1>5, <1>6, <2>1, <2>2, <2>3, <2>4, <2>5, <2>6, <2>7 DEF Reaches
<1> QED
  BY <1>1, <1>10, <1>11, <1>12 DEF IInv

-----------------------------------------------------------------------------
(* IInv is inductive: the steps of a review. *)

\* The clients and their runs, at a step of the worker.
LEMMA ClientsWait ==
    ASSUME Base, Moves(Worker), Keeps(Worker), Owns(Worker) \/ \A i \in DOMAIN runs : runs'[i] = runs[i]
    PROVE  /\ \A c \in Client : c \in Actor /\ c # Worker /\ pc'[c] = pc[c] /\ seen'[c] = seen[c] /\ mine'[c] = mine[c]
           /\ \A c \in Client : pc[c] = "save" => Mine(c)' = Mine(c)
           /\ Busy' = Busy /\ Changed' = Changed
           /\ \A a \in Actor : a = Worker \/ a \in Client
<1>1. /\ Worker \in Actor /\ \A c \in Client : c \in Actor /\ c # Worker
      /\ \A a \in Actor : a = Worker \/ a \in Client
  BY Facts
<1>2. \A c \in Client : pc'[c] = pc[c] /\ seen'[c] = seen[c] /\ mine'[c] = mine[c]
  BY <1>1, Others
<1>3. \A c \in Client : pc[c] = "save" => Mine(c)' = Mine(c)
  BY <1>1, <1>2, OthersWork DEF Owns, Writing, Mine
<1> QED
  BY <1>1, <1>2, <1>3 DEF Busy, Changed

LEMMA AskReviewStep ==
    ASSUME IInv, AskReview
    PROVE  IInv'
<1>1. /\ Base /\ Base' /\ UNCHANGED <<head, settings, runs>>
      /\ pc[Worker] = "idle" /\ pc'[Worker] = "asked" /\ seen'[Worker] = head
      /\ races \subseteq races' /\ (Busy => "start" \in races')
      /\ \A c \in Client : pc'[c] = pc[c] /\ seen'[c] = seen[c] /\ mine'[c] = mine[c]
      /\ \A a \in Actor : a = Worker \/ a \in Client
  <2>1. /\ Base /\ Base' /\ UNCHANGED <<head, settings, runs>> /\ Moves(Worker) /\ Keeps(Worker)
        /\ pc[Worker] = "idle" /\ pc'[Worker] = "asked" /\ seen'[Worker] = head
        /\ races \subseteq races' /\ (Busy => "start" \in races')
    BY AskReviewBase DEF IInv
  <2>2. \A i \in DOMAIN runs : runs'[i] = runs[i]
    BY <2>1
  <2>3. /\ \A c \in Client : pc'[c] = pc[c] /\ seen'[c] = seen[c] /\ mine'[c] = mine[c]
        /\ \A a \in Actor : a = Worker \/ a \in Client
    BY <2>1, <2>2, ClientsWait
  <2> QED
    BY <2>1, <2>3
<1>2. Stands /\ Lasts /\ Shown' = Shown /\ LatestFull' = LatestFull
  BY <1>1, StandsKept DEF Stands
<1>3. /\ Judged \subseteq Judged' /\ (currentShown => currentShown') /\ Source(Shown)' = Source(Shown)
  BY <1>1, <1>2, LastsMeans
<1>4. Linted'
  BY <1>1, <1>3 DEF IInv, Linted
<1>5. Current'
  <2> SUFFICES ASSUME races' \cap {"start", "relint"} = {} PROVE Current'
    BY DEF Current
  <2>1. Ordered /\ currentShown
    BY <1>1 DEF IInv, Current
  <2>2. Ordered'
    BY <1>1, <2>1 DEF Ordered, Writing
  <2> QED
    BY <1>1, <1>3, <2>1, <2>2 DEF Current
<1>6. Reaches'
  <2> SUFFICES ASSUME races' \cap {"start", "settings"} = {} PROVE Reaches'
    BY DEF Reaches
  <2>1. ~WillRelint /\ pc[Worker] \notin Writing
    BY <1>1 DEF WillRelint, Writing
  <2>2. /\ Source(Shown) = LatestFull
        /\ \A a \in Actor : pc[a] = "save" => Mine(a).carried = LatestFull
    BY <1>1, <2>1 DEF IInv, Reaches
  <2>3. \A a \in Actor : pc'[a] = "save" => pc[a] = "save" /\ Mine(a)' = Mine(a)
    BY <1>1 DEF Mine
  <2> QED
    BY <1>1, <1>2, <1>3, <2>2, <2>3 DEF Reaches, Queued
<1> QED
  BY <1>1, <1>4, <1>5, <1>6 DEF IInv

LEMMA StartRunStep ==
    ASSUME IInv, StartRun
    PROVE  IInv'
<1> DEFINE r == NewRun("full", seen[Worker], settings)
<1>1. /\ Base /\ UNCHANGED <<head, settings, seen, races>> /\ runs' = Append(runs, r)
      /\ pc[Worker] = "asked" /\ pc'[Worker] = "insert" /\ mine'[Worker] = Len(runs) + 1
      /\ seen[Worker] \in Nat /\ settings \in Nat /\ Worker \in Actor /\ Client \subseteq Actor
  BY Facts DEF IInv, StartRun, GoTo, doc
<1>2. /\ r \in Record /\ r.kind = "full" /\ r.status = "begun" /\ r.version = seen[Worker] /\ r.recorded = settings
  BY <1>1, NewRunIsRecord
<1> HIDE DEF r
<1>3. /\ Base' /\ Adds(r) /\ Moves(Worker) /\ Keeps(Worker)
  BY <1>1, <1>2, StartRunBase, Appended DEF IInv, Base
<1>4. /\ DOMAIN runs' = DOMAIN runs \cup {Len(runs) + 1} /\ runs'[Len(runs) + 1] = r
      /\ \A i \in DOMAIN runs : runs'[i] = runs[i]
      /\ Len(runs) \in Nat /\ DOMAIN runs = 1 .. Len(runs)
  BY <1>1, <1>3, RunTypes DEF Adds, Base
<1>5. Stands /\ Lasts /\ Shown' = Shown /\ LatestFull' = LatestFull
  BY <1>1, <1>2, <1>3, StandsAdded DEF Stands
<1>6. /\ \A c \in Client : c \in Actor /\ pc'[c] = pc[c] /\ seen'[c] = seen[c] /\ mine'[c] = mine[c]
      /\ \A c \in Client : pc[c] = "save" => Mine(c)' = Mine(c)
      /\ Busy' = Busy /\ \A a \in Actor : a = Worker \/ a \in Client
  BY <1>1, <1>3, <1>4, ClientsWait
<1>7. /\ Judged \subseteq Judged' /\ (currentShown => currentShown') /\ Source(Shown)' = Source(Shown)
  BY <1>1, <1>5, LastsMeans
<1>8. "start" \notin races => ~Busy
  BY <1>1 DEF Base, Calm
<1>9. Mine(Worker)' = r
  BY <1>1, <1>4 DEF Mine
<1>10. Linted'
  <2> SUFFICES ASSUME "start" \notin races PROVE Linted'
    BY <1>1 DEF Linted
  <2>1. seen[Worker] \in Judged
    BY <1>1 DEF IInv, Linted
  <2>2. \A i \in DOMAIN runs' : runs'[i].kind = "full" => runs'[i].version \in Judged'
    BY <1>1, <1>2, <1>4, <1>7, <2>1 DEF IInv, Linted
  <2>3. head \in Judged \/ Busy
    BY DEF IInv, Linted
  <2> QED
    BY <1>1, <1>6, <1>7, <2>2, <2>3 DEF Linted
<1>11. Current'
  <2> SUFFICES ASSUME races \cap {"start", "relint"} = {} PROVE Current'
    BY <1>1 DEF Current
  <2>1. Ordered /\ seen[Worker] = head /\ ~Busy /\ currentShown
    BY <1>1, <1>8 DEF IInv, Current, Ordered
  <2>2. \A i \in DOMAIN runs : runs[i].version <= head
    BY <1>1 DEF Base, Rows
  <2>3. \A i, j \in DOMAIN runs' : i < j => runs'[i].version <= runs'[j].version
    BY <1>2, <1>4, <2>1, <2>2 DEF Ordered
  <2>4. \A c \in Client : pc'[c] # "check"
    BY <1>6, <2>1 DEF Busy
  <2>5. Ordered'
    BY <1>1, <2>3, <2>4 DEF Ordered, Writing
  <2>6. JudgesCurrent'
    BY <1>1, <1>2, <1>9, <2>1 DEF JudgesCurrent
  <2> QED
    BY <1>1, <1>7, <1>5, <2>1, <2>5, <2>6 DEF Current
<1>12. Reaches'
  <2> SUFFICES ASSUME races \cap {"start", "settings"} = {} PROVE Reaches'
    BY <1>1 DEF Reaches
  <2>1. ~WillRelint /\ pc[Worker] \notin Writing /\ ~Busy'
    BY <1>1, <1>6, <1>8 DEF WillRelint, Writing
  <2>2. /\ Source(Shown) = LatestFull
        /\ \A a \in Actor : pc[a] = "save" => Mine(a).carried = LatestFull
    BY <1>1, <2>1 DEF IInv, Reaches
  <2>3. \A a \in Actor : pc'[a] # "save"
    BY <1>1, <1>6, <2>1 DEF Busy
  <2>4. \A j \in DOMAIN runs' : ~(j > mine'[Worker])
    BY <1>1, <1>4
  <2> QED
    BY <1>1, <1>5, <1>7, <2>1, <2>2, <2>3, <2>4 DEF Reaches
<1> QED
  BY <1>3, <1>10, <1>11, <1>12 DEF IInv

\* A review that is put in the queue or loads its doc.
LEMMA ReviewStep ==
    ASSUME IInv, Base', Moves(Worker), Keeps(Worker), pc[Worker] \in {"insert", "load"}, NEW r \in Record, Makes(mine[Worker], r),
           r.kind = "full", r.status = "active", r.version = Mine(Worker).version, r.recorded = Mine(Worker).recorded,
           UNCHANGED <<head, settings, seen, mine, races>>,
           \/ pc[Worker] = "insert" /\ pc'[Worker] = "load"
           \/ pc[Worker] = "load" /\ pc'[Worker] = "judge"
    PROVE  IInv'
<1>1. /\ Base /\ Worker \in Actor /\ Client \subseteq Actor
      /\ Owns(Worker) /\ mine[Worker] \in DOMAIN runs /\ Mine(Worker).status \notin {"complete", "failed"}
      /\ Mine(Worker).kind = "full"
  BY Facts, OwnedIsOpen, HasRun DEF IInv, Queued
<1>2. /\ DOMAIN runs' = DOMAIN runs /\ runs'[mine[Worker]] = r
      /\ \A i \in DOMAIN runs : runs'[i].version = runs[i].version /\ runs'[i].kind = runs[i].kind
  BY <1>1 DEF Makes, Mine
<1>3. Stands /\ Lasts /\ Shown' = Shown /\ LatestFull' = LatestFull
  BY <1>1, StandsMade DEF Stands, Mine
<1>4. /\ \A c \in Client : c \in Actor /\ pc'[c] = pc[c] /\ seen'[c] = seen[c] /\ mine'[c] = mine[c]
      /\ \A c \in Client : pc[c] = "save" => Mine(c)' = Mine(c)
      /\ Busy' = Busy /\ \A a \in Actor : a = Worker \/ a \in Client
  BY <1>1, ClientsWait
<1>5. /\ Judged \subseteq Judged' /\ (currentShown => currentShown') /\ Source(Shown)' = Source(Shown)
  BY <1>1, <1>3, LastsMeans
<1>6. /\ Mine(Worker)' = r /\ JudgesCurrent' = JudgesCurrent
  BY <1>2 DEF Mine, JudgesCurrent
<1>7. Linted'
  BY <1>2, <1>4, <1>5 DEF IInv, Linted
<1>8. Current'
  <2> SUFFICES ASSUME races \cap {"start", "relint"} = {} PROVE Current'
    BY DEF Current
  <2>1. Ordered
    BY DEF IInv, Current
  <2>2. Ordered'
    BY <1>2, <1>4, <2>1 DEF Ordered, Writing
  <2>3. CASE pc[Worker] = "insert"
    <3>1. JudgesCurrent /\ ~Busy /\ currentShown
      BY <1>1, <2>3 DEF IInv, Current, Base, Calm
    <3> QED
      BY <1>4, <1>5, <1>6, <2>2, <2>3, <3>1 DEF Current
  <2>4. CASE pc[Worker] = "load"
    BY <1>3, <1>4, <1>5, <1>6, <2>2, <2>4 DEF IInv, Current
  <2> QED
    BY <2>3, <2>4
<1>9. Reaches'
  <2> SUFFICES ASSUME races \cap {"start", "settings"} = {} PROVE Reaches'
    BY DEF Reaches
  <2>1. ~WillRelint /\ pc[Worker] \notin Writing /\ pc[Worker] \in Queued
    BY DEF WillRelint, Writing, Queued
  <2>2. /\ Source(Shown) = LatestFull
        /\ \A a \in Actor : pc[a] = "save" => Mine(a).carried = LatestFull
        /\ Busy => head > Mine(Worker).version
        /\ \A j \in DOMAIN runs : j > mine[Worker] => head > Mine(Worker).version
    BY <2>1 DEF IInv, Reaches
  <2>3. \A a \in Actor : pc'[a] = "save" => pc[a] = "save" /\ Mine(a)' = Mine(a)
    BY <1>4
  <2> QED
    BY <1>2, <1>3, <1>4, <1>5, <1>6, <2>2, <2>3 DEF Reaches
<1> QED
  BY <1>7, <1>8, <1>9 DEF IInv

LEMMA InsertRunStep ==
    ASSUME IInv, InsertRun
    PROVE  IInv'
<1> DEFINE r == WithStatus(Mine(Worker), "active")
<1>1. /\ pc[Worker] = "insert" /\ pc'[Worker] = "load" /\ UNCHANGED <<head, settings, seen, mine, races>>
      /\ Base' /\ Moves(Worker) /\ Keeps(Worker) /\ Makes(mine[Worker], r) /\ r \in Record
  BY InsertRunBase, EndsAs, Facts DEF IInv, InsertRun, GoTo, doc, Becomes, Queued, Statuses
<1>2. Mine(Worker) \in Record /\ Mine(Worker).kind = "full"
  BY <1>1, UnderWay DEF IInv
<1>3. r.kind = "full" /\ r.status = "active" /\ r.version = Mine(Worker).version /\ r.recorded = Mine(Worker).recorded
  BY <1>2 DEF WithStatus, Record
<1> HIDE DEF r
<1> QED
  BY <1>1, <1>3, ReviewStep

LEMMA LoadStep ==
    ASSUME IInv, Load
    PROVE  IInv'
<1> DEFINE r == ReadNow(Mine(Worker))
<1>1. /\ pc[Worker] = "load" /\ pc'[Worker] = "judge" /\ UNCHANGED <<head, settings, seen, mine, races>>
      /\ Base' /\ Moves(Worker) /\ Keeps(Worker) /\ Makes(mine[Worker], r) /\ r \in Record
  BY LoadBase, LoadsAgain, Facts DEF IInv, Load, GoTo, doc
<1>2. Mine(Worker) \in Record /\ Mine(Worker).kind = "full" /\ Mine(Worker).status = "active"
  BY <1>1, UnderWay DEF IInv, Base, Works, QueueWorks, Queued
<1>3. r.kind = "full" /\ r.status = "active" /\ r.version = Mine(Worker).version /\ r.recorded = Mine(Worker).recorded
  BY <1>2 DEF ReadNow, Record
<1> HIDE DEF r
<1> QED
  BY <1>1, <1>3, ReviewStep

LEMMA ReviewSavesStep ==
    ASSUME IInv, ReviewSaves
    PROVE  IInv'
<1> DEFINE r == WithStatus(Mine(Worker), "complete")  k == mine[Worker]
<1>1. /\ Base /\ Base' /\ UNCHANGED <<head, settings, seen, mine, races>>
      /\ pc[Worker] = "judge" /\ pc'[Worker] = "ended" /\ Moves(Worker) /\ Keeps(Worker)
      /\ Makes(k, r) /\ r \in Record /\ Worker \in Actor /\ head \in Nat /\ settings \in Nat
  BY ReviewSavesBase, EndsAs, Facts DEF IInv, ReviewSaves, Becomes, GoTo, doc, Queued, Statuses
<1>2. /\ Owns(Worker) /\ k \in DOMAIN runs /\ Mine(Worker) \in Record /\ Mine(Worker).kind = "full"
      /\ Mine(Worker).status = "active"
      /\ Mine(Worker).recorded \in 1 .. settings /\ Mine(Worker).read \in Mine(Worker).recorded .. settings
      /\ Mine(Worker).version <= head /\ Mine(Worker).version \in Nat
      /\ \A i \in DOMAIN runs : runs[i].kind = "full" => i <= k
  BY <1>1, OwnedIsOpen, UnderWay DEF Base, Works, QueueWorks, Queued, Rows, Mine
<1>3. /\ r.kind = "full" /\ r.version = Mine(Worker).version /\ r.status = "complete"
      /\ r.read = Mine(Worker).read /\ r.recorded = Mine(Worker).recorded
  BY <1>2 DEF WithStatus, Record
<1>4. /\ Len(runs) \in Nat /\ DOMAIN runs = 1 .. Len(runs) /\ k \in Nat /\ FullEnds \in SUBSET (1 .. Len(runs))
      /\ Mine(Worker) = runs[k]
  BY <1>1, <1>2, RunTypes DEF Base, Mine
<1> HIDE DEF r, k
<1>5. /\ DOMAIN runs' = DOMAIN runs /\ runs'[k] = r
      /\ \A i \in DOMAIN runs : runs'[i].version = runs[i].version /\ runs'[i].kind = runs[i].kind
  BY <1>1, <1>2, <1>3, <1>4 DEF Makes
<1>6. /\ Lasts /\ k # Shown
      /\ Shown' = IF Shown < k THEN k ELSE Shown
      /\ LatestFull' = IF LatestFull < k THEN k ELSE LatestFull
  BY <1>1, <1>2, <1>3, <1>4, VerdictAdded
<1>7. LatestFull' = k
  <2>1. LatestFull \in 0 .. Len(runs) /\ (LatestFull = 0 \/ LatestFull \in FullEnds)
    BY <1>4, LatestOf, Asked
  <2>2. LatestFull < k
    <3>1. CASE LatestFull = 0
      BY <1>2, <1>4, <3>1
    <3>2. CASE LatestFull \in FullEnds
      <4>1. LatestFull \in DOMAIN runs /\ LatestFull <= k /\ LatestFull # k
        BY <1>2, <1>4, <3>2 DEF FullEnds
      <4> QED
        BY <1>4, <2>1, <4>1
    <3> QED
      BY <2>1, <3>1, <3>2
  <2> QED
    BY <1>6, <2>2
<1>8. /\ \A c \in Client : c \in Actor /\ pc'[c] = pc[c] /\ seen'[c] = seen[c] /\ mine'[c] = mine[c]
      /\ \A c \in Client : pc[c] = "save" => Mine(c)' = Mine(c)
      /\ Busy' = Busy /\ \A a \in Actor : a = Worker \/ a \in Client
  BY <1>1, <1>2, ClientsWait
<1>9. Judged \subseteq Judged' /\ Shown \in DOMAIN runs /\ Shown \in Nat
  BY <1>1, <1>6, LastsMeans, ShownIsComplete
<1>10. Mine(Worker)' = r /\ mine'[Worker] = k
  BY <1>1, <1>5 DEF Mine, k
<1>11. Linted'
  BY <1>1, <1>5, <1>8, <1>9 DEF IInv, Linted
<1>12. Current'
  <2> SUFFICES ASSUME races \cap {"start", "relint"} = {} PROVE Current'
    BY <1>1 DEF Current
  <2>1. Ordered
    BY DEF IInv, Current
  <2>2. Ordered'
    BY <1>1, <1>5, <1>8, <2>1 DEF Ordered, Writing
  <2>3. CASE Shown < k
    <3>1. Shown' = k
      BY <1>6, <2>3
    <3>2. JudgesCurrent \/ Busy
      BY <1>1, <2>3 DEF IInv, Current, k
    <3>3. JudgesCurrent => r.version = head /\ r.read = settings
      <4> HAVE JudgesCurrent
      <4>1. Mine(Worker).version = head /\ Mine(Worker).recorded = settings
        BY DEF JudgesCurrent
      <4>2. Mine(Worker).read = settings
        BY <1>1, <1>2, <4>1
      <4> QED
        BY <1>3, <4>1, <4>2
    <3>4. JudgesCurrent => currentShown'
      BY <1>1, <1>5, <3>1, <3>3 DEF currentShown
    <3> QED
      BY <1>1, <1>8, <2>2, <3>2, <3>4 DEF Current
  <2>4. CASE ~(Shown < k)
    <3>1. Shown' = Shown
      BY <1>6, <2>4
    <3>2. currentShown => currentShown'
      BY <1>1, <1>6, <3>1, LastsMeans
    <3> QED
      BY <1>1, <1>8, <2>2, <3>2 DEF IInv, Current
  <2> QED
    BY <2>3, <2>4
<1>13. Reaches'
  <2> SUFFICES ASSUME races \cap {"start", "settings"} = {} PROVE Reaches'
    BY <1>1 DEF Reaches
  <2>1. /\ Busy => head > Mine(Worker).version
        /\ \A j \in DOMAIN runs : j > k => head > Mine(Worker).version
    BY <1>1 DEF IInv, Reaches, Queued, k
  <2>2. head > Mine(Worker).version => WillRelint'
    BY <1>1, <1>2, <1>3, <1>10 DEF WillRelint
  <2>3. Source(Shown)' = LatestFull' \/ WillRelint'
    <3>1. CASE Shown < k
      BY <1>3, <1>5, <1>6, <1>7, <3>1 DEF Source
    <3>2. CASE ~(Shown < k)
      <4>1. Shown > k
        BY <1>4, <1>6, <1>9, <3>2
      <4> QED
        BY <1>9, <2>1, <2>2, <4>1
    <3> QED
      BY <3>1, <3>2
  <2>4. \A a \in Actor : pc'[a] = "save" => WillRelint'
    BY <1>1, <1>8, <2>1, <2>2 DEF Busy
  <2> QED
    BY <1>1, <1>3, <1>5, <1>8, <1>10, <2>1, <2>3, <2>4 DEF Reaches
<1> QED
  BY <1>1, <1>11, <1>12, <1>13 DEF IInv

LEMMA ReviewFailsStep ==
    ASSUME IInv, ReviewFails
    PROVE  IInv'
<1> DEFINE r == WithStatus(Mine(Worker), "failed")
<1>1. /\ Base /\ Base' /\ UNCHANGED <<head, settings, races>>
      /\ pc[Worker] \in {"load", "judge"} /\ pc'[Worker] = "idle" /\ Moves(Worker) /\ Keeps(Worker)
      /\ Makes(mine[Worker], r) /\ r \in Record /\ Worker \in Actor
  BY ReviewFailsBase, EndsAs, Facts DEF IInv, ReviewFails, Becomes, Return, GoTo, doc, Queued, Statuses
<1>2. /\ Owns(Worker) /\ mine[Worker] \in DOMAIN runs /\ Mine(Worker) \in Record /\ Mine(Worker).kind = "full"
      /\ Mine(Worker).status \notin {"complete", "failed"}
  BY <1>1, OwnedIsOpen, UnderWay
<1>3. r.kind = "full" /\ r.version = Mine(Worker).version /\ r.status = "failed"
  BY <1>2 DEF WithStatus, Record
<1> HIDE DEF r
<1>4. /\ DOMAIN runs' = DOMAIN runs
      /\ \A i \in DOMAIN runs : runs'[i].version = runs[i].version /\ runs'[i].kind = runs[i].kind
  BY <1>1, <1>2, <1>3 DEF Makes, Mine
<1>5. Stands /\ Lasts /\ Shown' = Shown /\ LatestFull' = LatestFull
  BY <1>1, <1>2, <1>3, StandsMade DEF Stands, Mine
<1>6. /\ \A c \in Client : c \in Actor /\ pc'[c] = pc[c] /\ seen'[c] = seen[c] /\ mine'[c] = mine[c]
      /\ \A c \in Client : pc[c] = "save" => Mine(c)' = Mine(c)
      /\ Busy' = Busy /\ \A a \in Actor : a = Worker \/ a \in Client
  BY <1>1, <1>2, ClientsWait
<1>7. /\ Judged \subseteq Judged' /\ (currentShown => currentShown') /\ Source(Shown)' = Source(Shown)
  BY <1>1, <1>5, LastsMeans
<1>8. Linted'
  BY <1>1, <1>4, <1>6, <1>7 DEF IInv, Linted
<1>9. Current'
  <2> SUFFICES ASSUME races \cap {"start", "relint"} = {} PROVE Current'
    BY <1>1 DEF Current
  <2>1. Ordered
    BY DEF IInv, Current
  <2>2. Ordered'
    BY <1>1, <1>4, <1>6, <2>1 DEF Ordered, Writing
  <2> QED
    BY <1>1, <1>6, <1>7, <2>2 DEF IInv, Current
<1>10. Reaches'
  <2> SUFFICES ASSUME races \cap {"start", "settings"} = {} PROVE Reaches'
    BY <1>1 DEF Reaches
  <2>1. ~WillRelint /\ pc[Worker] \notin Writing
    BY <1>1 DEF WillRelint, Writing
  <2>2. /\ Source(Shown) = LatestFull
        /\ \A a \in Actor : pc[a] = "save" => Mine(a).carried = LatestFull
    BY <2>1 DEF IInv, Reaches
  <2>3. \A a \in Actor : pc'[a] = "save" => pc[a] = "save" /\ Mine(a)' = Mine(a)
    BY <1>1, <1>6
  <2> QED
    BY <1>1, <1>5, <1>7, <2>2, <2>3 DEF Reaches, Queued
<1> QED
  BY <1>1, <1>8, <1>9, <1>10 DEF IInv

LEMMA ReadHeadStep ==
    ASSUME IInv, ReadHead
    PROVE  IInv'
<1>1. /\ Base /\ Base' /\ UNCHANGED <<head, settings, runs, races>> /\ Moves(Worker) /\ Keeps(Worker)
      /\ pc[Worker] = "ended" /\ Worker \in Actor
      /\ \/ pc'[Worker] = "idle" /\ head = Mine(Worker).version
         \/ pc'[Worker] = "relint" /\ seen'[Worker] = head
  BY ReadHeadBase, Facts DEF IInv
<1>2. \A i \in DOMAIN runs : runs'[i] = runs[i]
  BY <1>1
<1>3. /\ \A c \in Client : c \in Actor /\ pc'[c] = pc[c] /\ seen'[c] = seen[c] /\ mine'[c] = mine[c]
      /\ \A c \in Client : pc[c] = "save" => Mine(c)' = Mine(c)
      /\ Busy' = Busy /\ \A a \in Actor : a = Worker \/ a \in Client
  BY <1>1, <1>2, ClientsWait
<1>4. Stands /\ Lasts /\ Shown' = Shown /\ LatestFull' = LatestFull
  BY <1>1, StandsKept DEF Stands
<1>5. /\ Judged \subseteq Judged' /\ (currentShown => currentShown') /\ Source(Shown)' = Source(Shown)
  BY <1>1, <1>4, LastsMeans
<1>6. Linted'
  BY <1>1, <1>3, <1>5 DEF IInv, Linted
<1>7. Current'
  <2> SUFFICES ASSUME races \cap {"start", "relint"} = {} PROVE Current'
    BY <1>1 DEF Current
  <2>1. Ordered
    BY DEF IInv, Current
  <2>2. Ordered'
    BY <1>1, <1>3, <2>1 DEF Ordered, Writing
  <2> QED
    BY <1>1, <1>3, <1>5, <2>2 DEF IInv, Current
<1>8. Reaches'
  <2> SUFFICES ASSUME races \cap {"start", "settings"} = {} PROVE Reaches'
    BY <1>1 DEF Reaches
  <2>1. /\ Source(Shown) = LatestFull \/ WillRelint
        /\ \A a \in Actor : pc[a] = "save" => Mine(a).carried = LatestFull \/ WillRelint
    BY <1>1 DEF IInv, Reaches, Writing
  <2>2. \A a \in Actor : pc'[a] = "save" => pc[a] = "save" /\ Mine(a)' = Mine(a)
    BY <1>1, <1>3
  <2>3. WillRelint => WillRelint'
    BY <1>1 DEF WillRelint
  <2> QED
    BY <1>1, <1>4, <1>5, <2>1, <2>2, <2>3 DEF Reaches, Queued
<1> QED
  BY <1>1, <1>6, <1>7, <1>8 DEF IInv

LEMMA RelintStep ==
    ASSUME IInv, Relint
    PROVE  IInv'
<1> DEFINE r == NewRun("lint", seen[Worker], settings)
<1>1. /\ Base /\ Base' /\ UNCHANGED <<head, settings, seen, races>> /\ Moves(Worker) /\ Keeps(Worker)
      /\ pc[Worker] = "relint" /\ mu = NoOne /\ BeginLint(Worker, seen[Worker])
      /\ Worker \in Actor /\ seen[Worker] \in Nat /\ settings \in Nat
      /\ \A b \in Actor : pc[b] \notin Linting
  BY RelintBase, Facts, NobodyLints DEF IInv, Relint, doc
<1>2. /\ Adds(r) /\ r \in Record /\ pc'[Worker] = "lint"
      /\ r.kind = "lint" /\ r.status = "begun" /\ r.version = seen[Worker]
  BY <1>1, Begins, NewRunIsRecord, Facts
<1> HIDE DEF r
<1>3. /\ DOMAIN runs' = DOMAIN runs \cup {Len(runs) + 1} /\ runs'[Len(runs) + 1] = r
      /\ \A i \in DOMAIN runs : runs'[i] = runs[i]
      /\ Len(runs) \in Nat /\ DOMAIN runs = 1 .. Len(runs)
  BY <1>1, <1>2, RunTypes DEF Adds, Base
<1>4. /\ \A c \in Client : c \in Actor /\ pc'[c] = pc[c] /\ seen'[c] = seen[c] /\ mine'[c] = mine[c]
      /\ Busy' = Busy /\ \A a \in Actor : a = Worker \/ a \in Client
  BY <1>1, <1>3, ClientsWait
<1>5. Stands /\ Lasts /\ Shown' = Shown /\ LatestFull' = LatestFull
  BY <1>1, <1>2, StandsAdded DEF Stands
<1>6. /\ Judged \subseteq Judged' /\ (currentShown => currentShown')
  BY <1>1, <1>5, LastsMeans
<1>7. Linted'
  <2>1. "start" \notin races => \A i \in DOMAIN runs' : runs'[i].kind = "full" => runs'[i].version \in Judged'
    BY <1>2, <1>3, <1>6 DEF IInv, Linted
  <2> QED
    BY <1>1, <1>2, <1>4, <1>6, <2>1 DEF IInv, Linted
<1>8. Current'
  <2> SUFFICES ASSUME races \cap {"start", "relint"} = {} PROVE Current'
    BY <1>1 DEF Current
  <2>1. Ordered /\ seen[Worker] = head
    BY <1>1 DEF IInv, Current, Ordered
  <2>2. \A i \in DOMAIN runs : runs[i].version <= head
    BY <1>1 DEF Base, Rows
  <2>3. \A i, j \in DOMAIN runs' : i < j => runs'[i].version <= runs'[j].version
    BY <1>2, <1>3, <2>1, <2>2 DEF Ordered
  <2>4. \A c \in Client : pc'[c] # "check"
    BY <1>1, <1>4 DEF Linting
  <2>5. Ordered'
    BY <1>1, <1>2, <2>1, <2>3, <2>4 DEF Ordered
  <2> QED
    BY <1>1, <1>2, <1>4, <1>6, <2>5 DEF IInv, Current
<1>9. Reaches'
  <2>1. \A a \in Actor : pc'[a] # "save"
    BY <1>1, <1>2, <1>4 DEF Linting, Writing
  <2> QED
    BY <1>2, <2>1 DEF Reaches, Writing, Queued
<1> QED
  BY <1>1, <1>7, <1>8, <1>9 DEF IInv

-----------------------------------------------------------------------------

LEMMA InitInvariant == Init => IInv
<1> SUFFICES ASSUME Init PROVE IInv
  OBVIOUS
<1> DEFINE r == [NewRun("lint", 1, 1) EXCEPT !.status = "complete"]
<1>1. /\ NewRun("lint", 1, 1) \in Record /\ NewRun("lint", 1, 1).kind = "lint" /\ NewRun("lint", 1, 1).version = 1
      /\ NewRun("lint", 1, 1).recorded = 1 /\ NewRun("lint", 1, 1).read = 1 /\ NewRun("lint", 1, 1).carried = 0
  BY NewRunIsRecord
<1>2. /\ r \in Record /\ r.kind = "lint" /\ r.version = 1 /\ r.recorded = 1 /\ r.read = 1 /\ r.carried = 0
      /\ r.status = "complete"
  BY <1>1 DEF Record, Statuses
<1>3. runs = <<r>>
  BY DEF Init
<1> HIDE DEF r
<1>4. runs \in Seq(Record) /\ Len(runs) = 1 /\ DOMAIN runs = {1} /\ runs[1] = r
  <2>1. runs \in Seq(Record) /\ Len(runs) = 1 /\ runs[1] = r
    BY <1>2, <1>3
  <2> QED
    BY <2>1, LenProperties
<1>5. /\ head = 1 /\ settings = 1 /\ mu = NoOne /\ races = {}
      /\ \A a \in Actor : pc[a] = "idle" /\ seen[a] = 0 /\ mine[a] = 0
      /\ pc \in [Actor -> Steps] /\ seen \in [Actor -> 0 .. head] /\ mine \in [Actor -> Nat]
      /\ Worker \in Actor /\ Client \subseteq Actor /\ NoOne \notin Actor
  BY ActorAssumption DEF Init, Steps, Actor
<1>6. Types
  BY <1>4, <1>5, BoundsAssumption DEF Types, Linting, Writing
<1>7. Complete = {1} /\ FullEnds = {}
  BY <1>2, <1>4 DEF Complete, FullEnds
<1>8. Rows
  BY <1>2, <1>4, <1>5, <1>7 DEF Rows
<1>9. Works
  BY <1>4, <1>5 DEF Works, WorksOf, QueueWorks, Writing, Linting, Queued
<1>10. Holding /\ Calm
  BY <1>5 DEF Holding, Calm, Linting, Writing
<1>11. Base
  BY <1>6, <1>8, <1>9, <1>10 DEF Base
<1>12. Shown = 1 /\ LatestFull = 0
  <2>1. Shown = 1
    BY <1>7, <1>11, ShownIsComplete
  <2>2. LatestFull = 0
    BY <1>7, Asked DEF Latest
  <2> QED
    BY <2>1, <2>2
<1>13. Linted
  BY <1>2, <1>4, <1>5, <1>7 DEF Linted, Judged
<1>14. Current
  <2>1. currentShown
    BY <1>2, <1>4, <1>5, <1>12 DEF currentShown
  <2>2. Ordered
    BY <1>4, <1>5 DEF Ordered, Writing
  <2> QED
    BY <1>5, <2>1, <2>2 DEF Current
<1>15. Reaches
  BY <1>2, <1>4, <1>5, <1>12 DEF Reaches, Source, Queued
<1> QED
  BY <1>11, <1>13, <1>14, <1>15 DEF IInv

LEMMA KeptInvariant == IInv /\ UNCHANGED vars => IInv'
<1> SUFFICES ASSUME IInv, UNCHANGED vars PROVE IInv'
  OBVIOUS
<1>1. UNCHANGED <<head, settings, runs, mu, pc, seen, mine, races>>
  BY DEF vars, doc, actors
<1>2. Base'
  BY <1>1 DEF IInv, Base, Types, Rows, Works, WorksOf, QueueWorks, Holding, Calm, Busy, Changed, Mine, Complete
<1>3. Linted'
  BY <1>1 DEF IInv, Linted, Judged, Complete, Busy
<1>4. Shown' = Shown /\ LatestFull' = LatestFull
  BY <1>1, StandsKept DEF Stands
<1>5. Current'
  BY <1>1, <1>4 DEF IInv, Current, Ordered, JudgesCurrent, currentShown, FailedAfter, Busy, Changed, Mine
<1>6. Reaches'
  BY <1>1, <1>4 DEF IInv, Reaches, Source, WillRelint, Busy, Mine
<1> QED
  BY <1>2, <1>3, <1>5, <1>6 DEF IInv

LEMMA StepInvariant == IInv /\ [Next]_vars => IInv'
<1> SUFFICES ASSUME IInv, [Next]_vars PROVE IInv'
  OBVIOUS
<1>1. CASE \E c \in Client : Edit(c) \/ Decide(c) \/ PassBegins(c) \/ LintIfNeeded(c)
  BY <1>1, EditStep, DecideStep, PassBeginsStep, SkipStep, LintBeginsStep
<1>2. CASE \E a \in Actor : LintLoads(a) \/ Carry(a) \/ LintSaves(a)
  BY <1>2, LintLoadsStep, CarryStep, LintSavesStep
<1>3. CASE AskReview \/ StartRun \/ InsertRun \/ Load
  BY <1>3, AskReviewStep, StartRunStep, InsertRunStep, LoadStep
<1>4. CASE ReviewSaves \/ ReviewFails \/ ReadHead \/ Relint
  BY <1>4, ReviewSavesStep, ReviewFailsStep, ReadHeadStep, RelintStep
<1>5. CASE Quiet \/ UNCHANGED vars
  BY <1>5, KeptInvariant DEF Quiet
<1> QED
  BY <1>1, <1>2, <1>3, <1>4, <1>5 DEF Next

LEMMA Invariant == Spec => []IInv
BY InitInvariant, StepInvariant, PTL DEF Spec

\* Every run and actor is well typed, and the mutex is held exactly by the
\* actor that lints (TypeOK).
THEOREM TypeCorrect == Spec => []TypeOK
<1>1. IInv => TypeOK
  <2> SUFFICES ASSUME IInv PROVE TypeOK
    OBVIOUS
  <2>1. Base /\ Types /\ Rows /\ settings \in Nat
    BY Facts DEF IInv, Base
  <2>2. \A i \in DOMAIN runs :
          /\ runs[i].kind \in {"full", "lint"} /\ runs[i].status \in Statuses
          /\ runs[i].version \in 1 .. head /\ runs[i].recorded \in 1 .. settings
          /\ runs[i].read \in 1 .. settings /\ runs[i].carried \in 0 .. Len(runs)
    <3> TAKE i \in DOMAIN runs
    <3>1. runs[i] \in Record
      BY <2>1, RunTypes
    <3>2. runs[i].recorded \in 1 .. settings /\ runs[i].read \in runs[i].recorded .. settings
      BY <2>1 DEF Rows
    <3>3. runs[i].read \in 1 .. settings
      BY <2>1, <3>2
    <3> QED
      BY <2>1, <3>1, <3>2, <3>3 DEF Rows, Record
  <2>3. mine \in [Actor -> 0 .. Len(runs)]
    <3>1. \A a \in Actor : mine[a] \in 0 .. Len(runs)
      BY <2>1 DEF Base, Works, WorksOf
    <3> QED
      BY <2>1, <3>1 DEF Types
  <2> QED
    BY <2>1, <2>2, <2>3 DEF Types, TypeOK, Linting, Writing
<1> QED
  BY <1>1, Invariant, PTL

LEMMA RestIsQuiet ==
    ASSUME IInv, AtRest
    PROVE  ~Busy /\ pc[Worker] = "idle"
BY Facts DEF IInv, AtRest, Busy

\* At rest the doc shows a verdict on its current version under its current
\* settings, or a failed review of this version makes it stale.
THEOREM ShowsCurrent == Spec => []ShownIsCurrent
<1>1. IInv => ShownIsCurrent
  BY RestIsQuiet DEF IInv, Current, ShownIsCurrent
<1> QED
  BY <1>1, Invariant, PTL

\* At rest the verdict that is shown holds the findings of the last full review.
THEOREM ReachesVerdict == Spec => []ReviewReachesVerdict
<1>1. IInv => ReviewReachesVerdict
  BY RestIsQuiet DEF IInv, Reaches, ReviewReachesVerdict, WillRelint, Writing
<1> QED
  BY <1>1, Invariant, PTL

\* At rest the current version has a verdict.
THEOREM LintsEveryVersion == Spec => []EveryVersionLinted
<1>1. IInv => EveryVersionLinted
  BY RestIsQuiet DEF IInv, Linted, Judged, Complete, EveryVersionLinted
<1> QED
  BY <1>1, Invariant, PTL
=============================================================================
