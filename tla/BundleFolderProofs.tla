-------------------------- MODULE BundleFolderProofs --------------------------
(***************************************************************************)
(* Proofs about BundleFolder for any clients, docs, writes and troubles.   *)
(*                                                                         *)
(* The actor that has the mutex is the only one that changes what is       *)
(* stored, so what it compared stays as it was (Asked, Synced).  Whatever  *)
(* the folder holds that the store does not, somebody will find: a process *)
(* that starts, an event of the watch, or the second sync of a change      *)
(* (PickedUp).                                                             *)
(***************************************************************************)
EXTENDS BundleFolder, SequenceTheorems, TLAPS

Version(d) == [files : [FilesOf(d) -> Content], wrote : FilesOf(d) \cup {NoOne}]

Change == [doc : Doc \cup {NoOne}, file : File \cup {NoOne}, content : Content, base : Nat]

Stored ==
    /\ DOMAIN versions = Doc
    /\ \A d \in Doc : versions[d] \in Seq(Version(d)) /\ HeadOf(d) >= 1

\* Where the process is, who can be under way, and what the watch knows.
Owners ==
    /\ local \in BOOLEAN
    /\ op \in [Client -> Change]
    /\ writes \in 0 .. MaxWrites
    /\ mu \in Actor \cup {NoOne}
    /\ watching => local /\ process = "up"
    /\ event => watching
    /\ process = "down" => \A a \in Actor : pc[a] = "idle"
    /\ process = "starting" => local /\ pc[Watcher] \in {"scan", "record"} /\ \A c \in Client : pc[c] = "idle"
    /\ process = "up" /\ pc[Watcher] # "idle" => watching
    /\ pc[Watcher] \in {"idle", "scan", "record"}
    /\ ~local => \A a \in Actor : pc[a] \in {"idle", "asked", "check", "commit"}

\* The change of a client: of a file of its doc, over a version of it; checked, over
\* the head.
Asked ==
    \A c \in Client : pc[c] # "idle" =>
        LET o == op[c]
        IN  /\ o.doc \in Doc
            /\ o.file \in FilesOf(o.doc)
            /\ o.base \in 1 .. HeadOf(o.doc)
            /\ pc[c] \in {"persist", "commit"} => o.base = HeadOf(o.doc) /\ o.doc \notin archived

\* The store holds doc d as the files fs are.
Holds(fs, d) ==
    IF fs[d] = NoFile THEN d \in archived
    ELSE d \notin archived /\ HeadFiles(d) = Part(fs, d)

\* What a sync has recorded.
Synced ==
    \A a \in Actor :
        /\ InSync(a) => \A d \in Doc :
              /\ d \in left[a] => scan[a][d] # NoFile
              /\ d \notin left[a] /\ scan[a][d] # NoFile => Holds(scan[a], d)
        /\ local /\ pc[a] \in {"check", "persist"} => \A d \in Doc : Holds(scan[a], d)

\* The folder is as the scan of a change found it.
Unseen ==
    local /\ "change" \notin unheard =>
        \A c \in Client : pc[c] \in {"record", "check", "persist"} => disk = scan[c]

Heard == unheard \subseteq {"change"}

PickedUp ==
    local /\ Heard =>
        /\ ~event => \A a \in Actor : InSync(a) => disk = scan[a]
        /\ \/ process = "down"
           \/ event
           \/ pc[Watcher] # "idle"
           \/ \E c \in Client : pc[c] \in {"commit", "scan again", "record again"}
           \/ \A d \in Doc : Holds(disk, d)

IInv ==
    /\ TypeOK /\ Stored /\ Owners /\ Asked /\ Synced /\ Unseen /\ PickedUp
    /\ ChangeIsOneFile /\ AssetsAgree /\ ScannedIsNotOverwritten

-----------------------------------------------------------------------------
(* Versions. *)

LEMMA FilesFacts ==
    /\ \A d \in Doc : FilesOf(d) \subseteq File /\ Asset \in FilesOf(d) /\ d \in FilesOf(d) /\ d # Asset
    /\ \A fs \in Files : \A d \in Doc : Part(fs, d) \in [FilesOf(d) -> Content] /\ fs[d] \in Content
    /\ NoFiles \in Files /\ NoFile \in Content /\ NoFile \notin Nat
    /\ \A n \in 0 .. MaxWrites : n \in Content
BY AssetAssumption, NoFileAssumption DEF FilesOf, File, Files, Part, Content, NoFiles

LEMMA HeadFacts ==
    ASSUME Stored, NEW d \in Doc
    PROVE  /\ HeadOf(d) \in Nat /\ HeadOf(d) >= 1 /\ versions[d] # << >>
           /\ HeadFiles(d) \in [FilesOf(d) -> Content]
           /\ \A n \in 1 .. HeadOf(d) : versions[d][n] \in Version(d)
           /\ DOMAIN versions[d] = 1 .. HeadOf(d)
<1>1. versions[d] \in Seq(Version(d)) /\ HeadOf(d) >= 1 /\ HeadOf(d) = Len(versions[d])
  BY DEF Stored, HeadOf
<1>2. /\ HeadOf(d) \in Nat /\ DOMAIN versions[d] = 1 .. HeadOf(d)
      /\ \A n \in 1 .. HeadOf(d) : versions[d][n] \in Version(d)
  BY <1>1, ElementOfSeq, LenProperties
<1>3. versions[d] # << >>
  BY <1>1
<1>4. versions[d][HeadOf(d)] \in Version(d)
  BY <1>1, <1>2
<1> QED
  BY <1>1, <1>2, <1>3, <1>4 DEF HeadFiles, Version

\* A record of the files fs: they are the head's, and no version before it changes.
LEMMA RecordedOf ==
    ASSUME Stored, NEW d \in Doc, NEW fs \in [FilesOf(d) -> Content], NEW w \in FilesOf(d) \cup {NoOne},
           NEW s, s = Recorded(d, fs, w)
    PROVE  /\ s \in Seq(Version(d))
           /\ Len(s) \in Nat /\ Len(s) >= HeadOf(d) /\ Len(s) >= 1
           /\ s[Len(s)].files = fs
           /\ \A n \in 1 .. HeadOf(d) : s[n] = versions[d][n]
           /\ \/ s = versions[d] /\ HeadFiles(d) = fs
              \/ Len(s) = HeadOf(d) + 1 /\ s[HeadOf(d) + 1].wrote = w
           /\ DOMAIN s = 1 .. Len(s)
<1>0. versions[d] \in Seq(Version(d)) /\ HeadOf(d) = Len(versions[d])
  BY DEF Stored, HeadOf
<1>1. CASE HeadFiles(d) = fs
  BY <1>0, <1>1, HeadFacts DEF Recorded, HeadFiles
<1>2. CASE HeadFiles(d) # fs
  <2> DEFINE v == [files |-> fs, wrote |-> w]
  <2>1. v \in Version(d) /\ v.files = fs /\ v.wrote = w
    BY DEF Version
  <2>2. s = Append(versions[d], v)
    BY <1>2 DEF Recorded
  <2> HIDE DEF v
  <2>3. /\ s \in Seq(Version(d)) /\ Len(s) = Len(versions[d]) + 1
        /\ s[Len(versions[d]) + 1] = v
        /\ \A n \in 1 .. Len(versions[d]) : s[n] = versions[d][n]
    BY <1>0, <2>1, <2>2, AppendProperties
  <2>4. DOMAIN s = 1 .. Len(s)
    BY <2>3, LenProperties
  <2> QED
    BY <1>0, <2>1, <2>3, <2>4, HeadFacts
<1> QED
  BY <1>1, <1>2

-----------------------------------------------------------------------------
(* Who steps. *)

Acts(a) ==
    \/ Scan(a) \/ (\E d \in Doc : RecordDoc(a, d)) \/ Archive(a) \/ SyncFails(a)
    \/ a = Watcher /\ (WatchFires \/ Start)
    \/ a \in Client /\ (Ask(a) \/ Begin(a) \/ Check(a) \/ Persist(a) \/ Commit(a) \/ CommitFails(a))

LEMMA StepKinds ==
    Next => \/ \E f \in File : EditDisk(f)
            \/ \E a \in Actor : Acts(a)
            \/ Stop \/ Watch \/ UNCHANGED vars
BY DEF Next, Acts, Actor, Rest

\* The parts of the state that one actor has.
ActorTypes ==
    /\ pc \in [Actor -> Steps]
    /\ scan \in [Actor -> Files]
    /\ left \in [Actor -> SUBSET Doc]
    /\ op \in [Client -> Change]

LEMMA Returned ==
    ASSUME ActorTypes, NEW a \in Actor, Return(a)
    PROVE  /\ mu' = NoOne /\ pc'[a] = "idle" /\ left'[a] = {}
           /\ \A b \in Actor \ {a} : pc'[b] = pc[b] /\ scan'[b] = scan[b] /\ left'[b] = left[b]
           /\ \A c \in Client \ {a} : op'[c] = op[c]
           /\ ActorTypes'
<1>1. NoOp \in Change
  <2>1. 0 \in 0 .. MaxWrites
    BY BoundsAssumption
  <2> QED
    BY <2>1, FilesFacts DEF NoOp, Change
<1> HIDE DEF NoOp
<1> QED
  BY <1>1, FilesFacts DEF ActorTypes, Return, GoTo, Forget, Steps, Actor

\* A step of an actor leaves the others where they were.
LEMMA OthersStay ==
    ASSUME ActorTypes, disk \in Files, Stored, writes \in 0 .. MaxWrites, NEW a \in Actor, Acts(a)
    PROVE  /\ \A b \in Actor \ {a} : pc'[b] = pc[b] /\ scan'[b] = scan[b] /\ left'[b] = left[b]
           /\ \A c \in Client \ {a} : op'[c] = op[c]
           /\ ActorTypes'
<1>1. CASE Return(a)
  BY <1>1, Returned
<1>2. ASSUME NEW step \in Steps, GoTo(a, step)
      PROVE  pc' \in [Actor -> Steps] /\ \A b \in Actor \ {a} : pc'[b] = pc[b]
  BY <1>2 DEF GoTo, ActorTypes
<1>s. {"idle", "asked", "scan", "record", "check", "persist", "commit", "scan again", "record again"} = Steps
  BY DEF Steps
<1>3. CASE UNCHANGED <<op, scan, left>> /\ \E step \in Steps : GoTo(a, step)
  BY <1>2, <1>3 DEF ActorTypes
<1>4. CASE Scan(a)
  <2>1. \E step \in Steps : GoTo(a, step)
    BY <1>4, <1>s DEF Scan
  <2> QED
    BY <1>2, <1>4, <2>1 DEF Scan, ActorTypes
<1>5. ASSUME NEW d \in Doc, RecordDoc(a, d)
      PROVE  /\ UNCHANGED <<pc, op, scan>>
             /\ left' \in [Actor -> SUBSET Doc] /\ \A b \in Actor \ {a} : left'[b] = left[b]
  BY <1>5 DEF RecordDoc, ActorTypes
<1>6. CASE Archive(a) \/ SyncFails(a)
  BY <1>1, <1>3, <1>6, <1>s DEF Archive, SyncFails
<1>7. CASE a = Watcher /\ (WatchFires \/ Start)
  <2>1. CASE UNCHANGED <<pc, op, scan, left>>
    BY <2>1 DEF ActorTypes
  <2> QED
    BY <1>3, <1>7, <1>s, <2>1 DEF WatchFires, Start
<1>8. ASSUME a \in Client, Ask(a)
      PROVE  /\ UNCHANGED <<scan, left>> /\ (\E step \in Steps : GoTo(a, step))
             /\ op' \in [Client -> Change] /\ \A c \in Client \ {a} : op'[c] = op[c]
  <2>1. \E step \in Steps : GoTo(a, step)
    BY <1>8, <1>s DEF Ask
  <2>2. PICK d \in Doc \ archived, f \in File, x \in {writes + 1, NoFile} :
            op' = [op EXCEPT ![a] = [doc |-> d, file |-> f, content |-> x, base |-> HeadOf(d)]]
    BY <1>8, FilesFacts DEF Ask
  <2>3. x \in Content /\ HeadOf(d) \in Nat
    BY <1>8, HeadFacts, BoundsAssumption, FilesFacts DEF Ask
  <2>4. [doc |-> d, file |-> f, content |-> x, base |-> HeadOf(d)] \in Change
    BY <2>3 DEF Change
  <2> QED
    BY <1>8, <2>1, <2>2, <2>4 DEF Ask, ActorTypes
<1>9. CASE a \in Client /\ (Begin(a) \/ Check(a) \/ Persist(a) \/ Commit(a) \/ CommitFails(a))
  BY <1>1, <1>3, <1>9, <1>s DEF Begin, Check, Persist, Commit, CommitFails
<1> QED
  BY <1>2, <1>4, <1>5, <1>6, <1>7, <1>8, <1>9 DEF Acts, ActorTypes

-----------------------------------------------------------------------------
(* What is stored. *)

\* What a commit makes of doc d.
LEMMA AppliedFiles ==
    ASSUME Stored, Asked, op \in [Client -> Change], NEW c \in Client, pc[c] = "commit",
           NEW d \in ChangedDocs(op[c])
    PROVE  /\ d \in Doc /\ op[c].doc \in Doc /\ op[c].file \in FilesOf(d) /\ op[c].content \in Content
           /\ Applied(op[c], d) = [HeadFiles(d) EXCEPT ![op[c].file] = op[c].content]
           /\ Applied(op[c], d) \in [FilesOf(d) -> Content]
<1>1. /\ op[c].doc \in Doc /\ op[c].file \in FilesOf(op[c].doc) /\ op[c].content \in Content
      /\ op[c].base = HeadOf(op[c].doc)
  BY DEF Asked, Change
<1>2. d \in Doc /\ op[c].file \in FilesOf(d)
  BY <1>1, FilesFacts DEF ChangedDocs
<1>3. Applied(op[c], d) = [HeadFiles(d) EXCEPT ![op[c].file] = op[c].content]
  BY <1>1 DEF Applied, HeadFiles
<1>4. HeadFiles(d) \in [FilesOf(d) -> Content]
  BY <1>2, HeadFacts
<1> QED
  BY <1>1, <1>2, <1>3, <1>4

LEMMA Unstored ==
    ASSUME Next
    PROVE  \/ UNCHANGED versions
           \/ \E a \in Actor, d \in Doc : RecordDoc(a, d)
           \/ \E c \in Client : Commit(c)
<1>1. ASSUME NEW a \in Actor, Acts(a)
      PROVE  UNCHANGED versions \/ (\E d \in Doc : RecordDoc(a, d)) \/ (a \in Client /\ Commit(a))
  BY <1>1 DEF Acts, Scan, Archive, SyncFails, WatchFires, Start, Ask, Begin, Check, Persist, CommitFails, store
<1>2. CASE \/ \E f \in File : EditDisk(f)
           \/ Stop \/ Watch \/ UNCHANGED vars
  BY <1>2 DEF EditDisk, Stop, Watch, vars, store
<1> QED
  BY <1>1, <1>2, StepKinds

\* A doc gets one version at a time, and none that it has changes.
Grows(d) ==
    /\ versions'[d] \in Seq(Version(d))
    /\ HeadOf(d)' \in Nat /\ HeadOf(d)' >= HeadOf(d) /\ HeadOf(d)' >= 1
    /\ \A n \in 1 .. HeadOf(d) : versions'[d][n] = versions[d][n]
    /\ DOMAIN versions'[d] = 1 .. HeadOf(d)'

LEMMA RecordGrows ==
    ASSUME Stored, ActorTypes, NEW a \in Actor, NEW d \in Doc, RecordDoc(a, d)
    PROVE  /\ DOMAIN versions' = Doc
           /\ \A e \in Doc : Grows(e) /\ (e # d => versions'[e] = versions[e])
           /\ HeadFiles(d)' = Part(scan[a], d)
           /\ \/ versions'[d] = versions[d] /\ HeadFiles(d) = Part(scan[a], d)
              \/ HeadOf(d)' = HeadOf(d) + 1 /\ versions'[d][HeadOf(d) + 1].wrote = NoOne
<1> DEFINE s == Recorded(d, Part(scan[a], d), NoOne)
<1>1. Part(scan[a], d) \in [FilesOf(d) -> Content]
  BY FilesFacts DEF ActorTypes
<1>2. versions' = [versions EXCEPT ![d] = s]
  BY DEF RecordDoc
<1>3. /\ s \in Seq(Version(d))
      /\ Len(s) \in Nat /\ Len(s) >= HeadOf(d) /\ Len(s) >= 1
      /\ s[Len(s)].files = Part(scan[a], d)
      /\ \A n \in 1 .. HeadOf(d) : s[n] = versions[d][n]
      /\ \/ s = versions[d] /\ HeadFiles(d) = Part(scan[a], d)
         \/ Len(s) = HeadOf(d) + 1 /\ s[HeadOf(d) + 1].wrote = NoOne
      /\ DOMAIN s = 1 .. Len(s)
  <2> HIDE DEF s
  <2> QED
    BY <1>1, RecordedOf DEF s
<1> HIDE DEF s
<1>4. DOMAIN versions' = Doc /\ versions'[d] = s /\ \A e \in Doc : e # d => versions'[e] = versions[e]
  BY <1>2 DEF Stored
<1>5. HeadOf(d)' = Len(s) /\ HeadFiles(d)' = s[Len(s)].files
  BY <1>4 DEF HeadOf, HeadFiles
<1>6. ASSUME NEW e \in Doc PROVE Grows(e)
  <2>1. CASE e = d
    BY <1>3, <1>4, <1>5, <2>1 DEF Grows
  <2>2. CASE e # d
    <3>1. versions'[e] = versions[e] /\ HeadOf(e)' = HeadOf(e)
      BY <1>4, <2>2 DEF HeadOf
    <3> QED
      BY <3>1, HeadFacts DEF Grows, Stored
  <2> QED
    BY <2>1, <2>2
<1> QED
  BY <1>3, <1>4, <1>5, <1>6

LEMMA CommitGrows ==
    ASSUME Stored, Asked, op \in [Client -> Change], NEW c \in Client, Commit(c)
    PROVE  /\ DOMAIN versions' = Doc
           /\ \A d \in Doc : Grows(d)
           /\ \A d \in Doc \ ChangedDocs(op[c]) : versions'[d] = versions[d]
           /\ \A d \in ChangedDocs(op[c]) :
                 /\ HeadFiles(d)' = [HeadFiles(d) EXCEPT ![op[c].file] = op[c].content]
                 /\ \/ versions'[d] = versions[d]
                    \/ HeadOf(d)' = HeadOf(d) + 1 /\ versions'[d][HeadOf(d) + 1].wrote = op[c].file
<1>0. pc[c] = "commit"
  BY DEF Commit
<1>1. /\ DOMAIN versions' = Doc
      /\ \A d \in Doc : versions'[d] = IF d \in ChangedDocs(op[c])
                                         THEN Recorded(d, Applied(op[c], d), op[c].file)
                                         ELSE versions[d]
  BY DEF Commit
<1>2. ASSUME NEW d \in ChangedDocs(op[c])
      PROVE  /\ d \in Doc /\ Grows(d)
             /\ HeadFiles(d)' = [HeadFiles(d) EXCEPT ![op[c].file] = op[c].content]
             /\ \/ versions'[d] = versions[d]
                \/ HeadOf(d)' = HeadOf(d) + 1 /\ versions'[d][HeadOf(d) + 1].wrote = op[c].file
  <2> DEFINE s == Recorded(d, Applied(op[c], d), op[c].file)
  <2>1. /\ d \in Doc /\ op[c].file \in FilesOf(d)
        /\ Applied(op[c], d) = [HeadFiles(d) EXCEPT ![op[c].file] = op[c].content]
        /\ Applied(op[c], d) \in [FilesOf(d) -> Content]
    BY <1>0, AppliedFiles
  <2>2. versions'[d] = s
    BY <1>1, <2>1
  <2>2a. op[c].file \in FilesOf(d) \cup {NoOne}
    BY <2>1
  <2>3. /\ s \in Seq(Version(d))
        /\ Len(s) \in Nat /\ Len(s) >= HeadOf(d) /\ Len(s) >= 1
        /\ s[Len(s)].files = Applied(op[c], d)
        /\ \A n \in 1 .. HeadOf(d) : s[n] = versions[d][n]
        /\ \/ s = versions[d]
           \/ Len(s) = HeadOf(d) + 1 /\ s[HeadOf(d) + 1].wrote = op[c].file
        /\ DOMAIN s = 1 .. Len(s)
    <3> DEFINE fs == Applied(op[c], d)
    <3> DEFINE w == op[c].file
    <3>1. fs \in [FilesOf(d) -> Content] /\ w \in FilesOf(d) \cup {NoOne} /\ d \in Doc
      BY <2>1, <2>2a
    <3>2. s = Recorded(d, fs, w)
      OBVIOUS
    <3> HIDE DEF s, fs, w
    <3>3. /\ s \in Seq(Version(d))
          /\ Len(s) \in Nat /\ Len(s) >= HeadOf(d) /\ Len(s) >= 1
          /\ s[Len(s)].files = fs
          /\ \A n \in 1 .. HeadOf(d) : s[n] = versions[d][n]
          /\ \/ s = versions[d]
             \/ Len(s) = HeadOf(d) + 1 /\ s[HeadOf(d) + 1].wrote = w
          /\ DOMAIN s = 1 .. Len(s)
      BY <3>1, <3>2, RecordedOf
    <3> QED
      BY <3>3 DEF fs, w
  <2> HIDE DEF s
  <2>4. HeadOf(d)' = Len(s) /\ HeadFiles(d)' = s[Len(s)].files
    BY <2>2 DEF HeadOf, HeadFiles
  <2> QED
    BY <2>1, <2>2, <2>3, <2>4 DEF Grows
<1>3. ASSUME NEW d \in Doc \ ChangedDocs(op[c]) PROVE versions'[d] = versions[d] /\ Grows(d)
  <2>1. versions'[d] = versions[d] /\ HeadOf(d)' = HeadOf(d)
    BY <1>1 DEF HeadOf
  <2> QED
    BY <2>1, HeadFacts DEF Grows, Stored
<1> QED
  BY <1>1, <1>2, <1>3

LEMMA StoredGrows ==
    ASSUME Stored, Asked, ActorTypes, Next
    PROVE  DOMAIN versions' = Doc /\ \A d \in Doc : Grows(d)
<1>1. ASSUME UNCHANGED versions PROVE DOMAIN versions' = Doc /\ \A d \in Doc : Grows(d)
  <2>1. \A d \in Doc : HeadOf(d)' = HeadOf(d)
    BY <1>1 DEF HeadOf
  <2> QED
    BY <1>1, <2>1, HeadFacts DEF Grows, Stored
<1> QED
  BY <1>1, Unstored, RecordGrows, CommitGrows DEF ActorTypes

LEMMA StoredStep == Stored /\ Asked /\ ActorTypes /\ Next => Stored'
BY StoredGrows DEF Stored, Grows

\* A change is checked against the head, so its version is the head with one file changed.
LEMMA OneFileStep == Stored /\ Asked /\ ActorTypes /\ ChangeIsOneFile /\ Next => ChangeIsOneFile'
<1> SUFFICES ASSUME Stored, Asked, ActorTypes, ChangeIsOneFile, Next,
                    NEW d \in Doc, NEW n \in DOMAIN versions'[d],
                    versions'[d][n].wrote # NoOne, n > 1,
                    NEW f \in FilesOf(d) \ {versions'[d][n].wrote}
             PROVE  versions'[d][n].files[f] = versions'[d][n - 1].files[f]
  BY DEF ChangeIsOneFile
<1>1. Grows(d) /\ HeadOf(d) \in Nat /\ HeadOf(d) >= 1 /\ DOMAIN versions[d] = 1 .. HeadOf(d)
  BY StoredGrows, HeadFacts
<1>2. n \in 1 .. HeadOf(d)' /\ n \in Nat
  BY <1>1 DEF Grows
<1>3. CASE n <= HeadOf(d)
  <2>1. n \in DOMAIN versions[d] /\ versions'[d][n] = versions[d][n] /\ versions'[d][n - 1] = versions[d][n - 1]
    BY <1>1, <1>2, <1>3 DEF Grows
  <2> QED
    BY <2>1 DEF ChangeIsOneFile
<1>4. CASE n > HeadOf(d)
  <2>1. versions'[d] # versions[d]
    BY <1>1, <1>2, <1>4 DEF HeadOf
  <2>2. ~\E a \in Actor, e \in Doc : RecordDoc(a, e)
    <3> SUFFICES ASSUME NEW a \in Actor, NEW e \in Doc, RecordDoc(a, e) PROVE FALSE
      OBVIOUS
    <3>1. d = e /\ HeadOf(d)' = HeadOf(d) + 1 /\ versions'[d][HeadOf(d) + 1].wrote = NoOne
      BY <2>1, RecordGrows
    <3> QED
      BY <1>1, <1>2, <1>4, <3>1
  <2>3. PICK c \in Client : Commit(c)
    BY <2>1, <2>2, Unstored
  <2>4. /\ d \in ChangedDocs(op[c]) /\ HeadOf(d)' = HeadOf(d) + 1
        /\ versions'[d][HeadOf(d) + 1].wrote = op[c].file
        /\ HeadFiles(d)' = [HeadFiles(d) EXCEPT ![op[c].file] = op[c].content]
    BY <2>1, <2>3, CommitGrows DEF ActorTypes
  <2>4a. n = HeadOf(d) + 1 /\ n = HeadOf(d)'
    BY <1>1, <1>2, <1>4, <2>4
  <2>4b. versions'[d][HeadOf(d)] = versions[d][HeadOf(d)]
    BY <1>1 DEF Grows
  <2>4c. versions'[d][n].files = HeadFiles(d)'
    BY <2>4a DEF HeadFiles
  <2>5. /\ versions'[d][n].files = HeadFiles(d)'
        /\ versions'[d][n - 1].files = HeadFiles(d)
    <3>1. n - 1 = HeadOf(d)
      BY <1>1, <2>4a
    <3> QED
      BY <2>4b, <2>4c, <3>1 DEF HeadFiles
  <2>6. HeadFiles(d) \in [FilesOf(d) -> Content]
    BY HeadFacts
  <2> QED
    BY <2>4, <2>4a, <2>5, <2>6
<1> QED
  BY <1>1, <1>2, <1>3, <1>4

\* In hosted mode every doc has the asset of the last commit that changed it.
LEMMA AssetsStep ==
    Stored /\ Asked /\ ActorTypes /\ Owners /\ AssetsAgree /\ Next => AssetsAgree'
<1> SUFFICES ASSUME Stored, Asked, ActorTypes, Owners, AssetsAgree, Next, ~local',
                    NEW d \in Doc, NEW e \in Doc
             PROVE  HeadFiles(d)'[Asset] = HeadFiles(e)'[Asset]
  BY DEF AssetsAgree
<1>1. ~local
  <2>1. ASSUME NEW a \in Actor, Acts(a) PROVE local' = local
    BY <2>1 DEF Acts, Scan, RecordDoc, Archive, SyncFails, WatchFires, Start, Ask, Begin, Check, Persist,
       Commit, CommitFails
  <2>2. CASE \/ \E f \in File : EditDisk(f)
             \/ Stop \/ Watch \/ UNCHANGED vars
    BY <2>2 DEF EditDisk, Stop, Watch, vars
  <2> QED
    BY <2>1, <2>2, StepKinds
<1>2. \A x, y \in Doc : HeadFiles(x)[Asset] = HeadFiles(y)[Asset]
  BY <1>1 DEF AssetsAgree
<1>3. CASE UNCHANGED versions
  <2>1. \A x \in Doc : HeadFiles(x)' = HeadFiles(x)
    BY <1>3 DEF HeadFiles, HeadOf
  <2> QED
    BY <1>2, <2>1
<1>4. ASSUME NEW c \in Client, Commit(c) PROVE HeadFiles(d)'[Asset] = HeadFiles(e)'[Asset]
  <2> DEFINE o == op[c]
  <2>1. \A x \in Doc \ ChangedDocs(o) : HeadFiles(x)' = HeadFiles(x)
    BY <1>4, CommitGrows DEF ActorTypes, HeadFiles, HeadOf
  <2>2. \A x \in ChangedDocs(o) : HeadFiles(x)' = [HeadFiles(x) EXCEPT ![o.file] = o.content]
    BY <1>4, CommitGrows DEF ActorTypes
  <2>3. \A x \in Doc : HeadFiles(x) \in [FilesOf(x) -> Content] /\ Asset \in FilesOf(x)
    BY HeadFacts, FilesFacts
  <2>4. CASE o.file = Asset
    <3>1. ChangedDocs(o) = Doc
      BY <1>1, <2>4 DEF ChangedDocs
    <3> HIDE DEF o
    <3> QED
      BY <2>2, <2>3, <2>4, <3>1
  <2>5. CASE o.file # Asset
    <3> HIDE DEF o
    <3>1. ASSUME NEW x \in Doc PROVE HeadFiles(x)'[Asset] = HeadFiles(x)[Asset]
      <4>1. CASE x \in ChangedDocs(o)
        BY <2>2, <2>3, <2>5, <4>1
      <4> QED
        BY <2>1, <4>1
    <3> QED
      BY <1>2, <3>1
  <2> QED
    BY <2>4, <2>5
<1>5. ~\E a \in Actor, x \in Doc : RecordDoc(a, x)
  BY <1>1 DEF RecordDoc, InSync, Owners
<1> QED
  BY <1>3, <1>4, <1>5, Unstored

-----------------------------------------------------------------------------
(* The mutex, the process and its watch. *)

LEMMA LocalStays == Next => local' = local
<1>1. ASSUME NEW a \in Actor, Acts(a) PROVE local' = local
  BY <1>1 DEF Acts, Scan, RecordDoc, Archive, SyncFails, WatchFires, Start, Ask, Begin, Check, Persist,
     Commit, CommitFails
<1>2. CASE \/ \E f \in File : EditDisk(f)
           \/ Stop \/ Watch \/ UNCHANGED vars
  BY <1>2 DEF EditDisk, Stop, Watch, vars
<1> QED
  BY <1>1, <1>2, StepKinds

\* What an actor does to the mutex.
Moves(a) ==
    \/ mu = a /\ mu' = a /\ pc'[a] \notin {"idle", "asked"}
    \/ mu = a /\ Return(a)
    \/ mu = NoOne /\ mu' = a /\ pc'[a] \notin {"idle", "asked"}
    \/ mu' = mu /\ pc[a] \in {"idle", "asked"} /\ pc'[a] \in {"idle", "asked"}

LEMMA MutexMoves ==
    ASSUME TypeOK, Owners, NEW a \in Actor, Acts(a)
    PROVE  Moves(a)
<1>0. /\ pc \in [Actor -> Steps]
      /\ \A b \in Actor : mu = b <=> pc[b] \notin {"idle", "asked"}
      /\ mu \in Actor \cup {NoOne} /\ NoOne \notin Actor
  BY ActorAssumption DEF TypeOK, Owners, Actor
<1>1. CASE Scan(a)
  BY <1>0, <1>1 DEF Scan, GoTo, Moves
<1>2. CASE \E d \in Doc : RecordDoc(a, d)
  BY <1>0, <1>2 DEF RecordDoc, InSync, Moves
<1>3. CASE Archive(a)
  <2>1. mu = a
    BY <1>0, <1>3 DEF Archive, InSync
  <2> QED
    BY <1>0, <1>3, <2>1 DEF Archive, GoTo, Moves
<1>4. CASE SyncFails(a)
  BY <1>0, <1>4 DEF SyncFails, InSync, Moves
<1>5. CASE a = Watcher /\ WatchFires
  BY <1>0, <1>5 DEF WatchFires, GoTo, Moves
<1>6. CASE a = Watcher /\ Start
  <2>1. mu = NoOne /\ pc[a] = "idle"
    BY <1>0, <1>6 DEF Start, Owners
  <2> QED
    BY <1>0, <1>6, <2>1 DEF Start, GoTo, Moves
<1>7. CASE a \in Client /\ Ask(a)
  BY <1>0, <1>7 DEF Ask, GoTo, Moves
<1>8. CASE a \in Client /\ Begin(a)
  BY <1>0, <1>8 DEF Begin, GoTo, Moves
<1>9. CASE a \in Client /\ (Check(a) \/ Persist(a) \/ Commit(a) \/ CommitFails(a))
  <2>1. mu = a
    BY <1>0, <1>9 DEF Check, Persist, Commit, CommitFails
  <2>2. CASE Check(a)
    BY <1>0, <2>1, <2>2 DEF Check, GoTo, Moves
  <2>3. CASE Persist(a)
    BY <1>0, <2>1, <2>3 DEF Persist, GoTo, Moves
  <2>4. CASE Commit(a) \/ CommitFails(a)
    BY <1>0, <2>1, <2>4 DEF Commit, CommitFails, GoTo, Moves
  <2> QED
    BY <1>9, <2>2, <2>3, <2>4
<1> QED
  BY <1>1, <1>2, <1>3, <1>4, <1>5, <1>6, <1>7, <1>8, <1>9 DEF Acts

\* Two actors are not under way at one time.
LEMMA OneHolder ==
    ASSUME TypeOK, NEW a \in Actor, pc[a] \notin {"idle", "asked"}
    PROVE  mu = a /\ \A b \in Actor \ {a} : pc[b] \in {"idle", "asked"}
BY DEF TypeOK

\* A client does nothing unless the process is up, and leaves the process and its watch.
LEMMA ClientLeaves ==
    ASSUME TypeOK, Owners, ActorTypes, NEW c \in Client, Acts(c)
    PROVE  /\ process = "up" /\ process' = "up" /\ watching' = watching
           /\ event' \in {event, watching}
           /\ pc[c] = "idle" => Ask(c)
<1>0. c \in Actor /\ c # Watcher
  BY ActorAssumption DEF Actor
<1>1. pc[c] = "idle" => Ask(c)
  BY <1>0 DEF Acts, Scan, RecordDoc, Archive, SyncFails, InSync, Begin, Check, Persist, Commit, CommitFails
<1>2. process = "up"
  BY <1>0, <1>1 DEF Ask, TypeOK, Owners
<1>3. process' = "up" /\ watching' = watching /\ event' \in {event, watching}
  <2>1. CASE Scan(c) \/ (\E d \in Doc : RecordDoc(c, d)) \/ Archive(c) \/ SyncFails(c)
    BY <1>0, <1>2, <2>1 DEF Scan, RecordDoc, Archive, SyncFails, owner
  <2>2. CASE Ask(c) \/ Begin(c) \/ Check(c) \/ Persist(c) \/ Commit(c) \/ CommitFails(c)
    BY <1>2, <2>2 DEF Ask, Begin, Check, Persist, Commit, CommitFails, Signal, owner
  <2> QED
    BY <1>0, <2>1, <2>2 DEF Acts
<1> QED
  BY <1>1, <1>2, <1>3

\* What the watch and the sync of the start do.
LEMMA WatcherDoes ==
    ASSUME TypeOK, Owners, ActorTypes, Acts(Watcher)
    PROVE  /\ watching' = watching
           /\ \/ process = "down" /\ process' = "starting" /\ pc'[Watcher] = "scan" /\ local /\ event' = event
              \/ process = "down" /\ process' = "up" /\ pc'[Watcher] = "idle" /\ event' = event
              \/ process' = process /\ pc'[Watcher] = "scan" /\ event /\ event' = FALSE
              \/ process' = process /\ pc[Watcher] # "idle" /\ pc'[Watcher] = "record" /\ event' = event
              \/ process' = "up" /\ pc[Watcher] # "idle" /\ pc'[Watcher] = "idle" /\ event' = event
              \/ /\ process' = IF process = "starting" THEN "down" ELSE process
                 /\ pc[Watcher] # "idle" /\ pc'[Watcher] = "idle" /\ event' = event
<1>0. Watcher \in Actor /\ Watcher \notin Client /\ pc[Watcher] \in {"idle", "scan", "record"}
  BY ActorAssumption DEF Actor, Owners
<1>1. CASE Scan(Watcher)
  BY <1>0, <1>1 DEF Scan, GoTo, owner, ActorTypes
<1>2. CASE \E d \in Doc : RecordDoc(Watcher, d)
  BY <1>0, <1>2 DEF RecordDoc, InSync, owner
<1>3. CASE Archive(Watcher)
  BY <1>0, <1>3, Returned DEF Archive, InSync
<1>4. CASE SyncFails(Watcher)
  BY <1>0, <1>4, Returned DEF SyncFails, InSync
<1>5. CASE WatchFires
  BY <1>0, <1>5 DEF WatchFires, GoTo, ActorTypes
<1>6. CASE Start
  <2>1. pc[Watcher] = "idle"
    BY <1>0, <1>6 DEF Start, Owners
  <2> QED
    BY <1>0, <1>6, <2>1 DEF Start, GoTo, ActorTypes
<1> QED
  BY <1>0, <1>1, <1>2, <1>3, <1>4, <1>5, <1>6 DEF Acts

\* A step of an actor leaves everything of its type.
LEMMA DataTypes ==
    ASSUME TypeOK, Stored, Owners, Asked, ActorTypes, NEW a \in Actor, Acts(a)
    PROVE  /\ disk' \in Files /\ archived' \subseteq Doc /\ unheard' \subseteq Moments
           /\ event' \in BOOLEAN /\ writes' \in 0 .. MaxWrites
<1>0. /\ disk \in Files /\ archived \subseteq Doc /\ unheard \subseteq Moments
      /\ watching \in BOOLEAN /\ event \in BOOLEAN /\ writes \in 0 .. MaxWrites
  BY DEF TypeOK, Owners
<1>1. CASE Scan(a)
  BY <1>0, <1>1 DEF Scan, store, owner, history, counters
<1>2. CASE \E d \in Doc : RecordDoc(a, d)
  BY <1>0, <1>2 DEF RecordDoc, store, owner, history, counters
<1>3. CASE Archive(a)
  BY <1>0, <1>3 DEF Archive, history, counters
<1>4. CASE SyncFails(a)
  BY <1>0, <1>4 DEF SyncFails, FailureGoes, store
<1>5. CASE WatchFires \/ Start
  BY <1>0, <1>5 DEF WatchFires, Start, store, history, counters
<1>6. CASE Ask(a)
  <2>1. writes' = writes + 1 /\ writes < MaxWrites
    BY <1>6 DEF Ask
  <2>2. writes' \in 0 .. MaxWrites
    BY <1>0, <2>1, BoundsAssumption
  <2> QED
    BY <1>0, <1>6, <2>2 DEF Ask, store, owner, history
<1>7. CASE Begin(a) \/ Check(a)
  BY <1>0, <1>7 DEF Begin, Check, store, owner, history, counters
<1>8. CASE a \in Client /\ Persist(a)
  <2>1. pc[a] = "persist" /\ op[a].content \in Content
    BY <1>8 DEF Persist, ActorTypes, Change
  <2>2. op[a].file \in File
    BY <1>8, <2>1, FilesFacts DEF Asked
  <2>3. disk' \in Files
    BY <1>0, <1>8, <2>1, <2>2 DEF Persist, Files
  <2> QED
    BY <1>0, <1>8, <2>3 DEF Persist, Signal, store, counters
<1>9. CASE a \in Client /\ Commit(a)
  BY <1>0, <1>9 DEF Commit, owner, history, counters
<1>10. CASE CommitFails(a)
  BY <1>0, <1>10 DEF CommitFails, FailureGoes, store, owner
<1> QED
  BY <1>1, <1>2, <1>3, <1>4, <1>5, <1>6, <1>7, <1>8, <1>9, <1>10 DEF Acts

LEMMA OwnersStep ==
    TypeOK /\ Stored /\ Owners /\ Asked /\ Next => TypeOK' /\ Owners'
<1> SUFFICES ASSUME TypeOK, Stored, Owners, Asked, Next PROVE TypeOK' /\ Owners'
  OBVIOUS
<1>0. ActorTypes /\ disk \in Files /\ writes \in 0 .. MaxWrites
  BY DEF TypeOK, Owners, ActorTypes
<1>v. \A d \in Doc : \A n \in DOMAIN versions'[d] :
         /\ versions'[d][n].files \in [FilesOf(d) -> Content]
         /\ versions'[d][n].wrote \in FilesOf(d) \cup {NoOne}
  <2> SUFFICES ASSUME NEW d \in Doc, NEW n \in DOMAIN versions'[d] PROVE versions'[d][n] \in Version(d)
    BY DEF Version
  <2>1. versions'[d] \in Seq(Version(d)) /\ DOMAIN versions'[d] = 1 .. HeadOf(d)' /\ HeadOf(d)' = Len(versions'[d])
    BY <1>0, StoredGrows DEF Grows, HeadOf
  <2> QED
    BY <2>1, ElementOfSeq
<1>l. local' = local /\ local \in BOOLEAN
  BY LocalStays DEF Owners
<1>m. NoOne \notin Actor /\ Watcher \in Actor /\ Watcher \notin Client /\ \A c \in Client : c \in Actor
  BY ActorAssumption DEF Actor
<1>1. ASSUME NEW a \in Actor, Acts(a) PROVE TypeOK' /\ Owners'
  <2>1. /\ \A b \in Actor \ {a} : pc'[b] = pc[b] /\ scan'[b] = scan[b] /\ left'[b] = left[b]
        /\ ActorTypes'
    BY <1>0, <1>1, OthersStay
  <2>2. /\ disk' \in Files /\ archived' \subseteq Doc /\ unheard' \subseteq Moments
        /\ event' \in BOOLEAN /\ writes' \in 0 .. MaxWrites
    BY <1>0, <1>1, DataTypes
  <2>3. Moves(a)
    BY <1>0, <1>1, MutexMoves
  <2>4. mu' \in Actor \cup {NoOne} /\ \A b \in Actor : mu' = b <=> pc'[b] \notin {"idle", "asked"}
    <3>1. \A b \in Actor : mu = b <=> pc[b] \notin {"idle", "asked"}
      BY DEF TypeOK
    <3>2. mu \in Actor \cup {NoOne}
      BY DEF Owners
    <3>3. Return(a) => mu' = NoOne /\ pc'[a] = "idle"
      BY <1>0, Returned
    <3> QED
      BY <1>m, <2>1, <2>3, <3>1, <3>2, <3>3 DEF Moves
  <2>5. process' \in {"down", "starting", "up"} /\ watching' = watching
        /\ (watching' => local /\ process' = "up")
        /\ (event' => watching')
        /\ (process' = "down" => \A b \in Actor : pc'[b] = "idle")
        /\ (process' = "starting" => local /\ pc'[Watcher] \in {"scan", "record"} /\ \A c \in Client : pc'[c] = "idle")
        /\ (process' = "up" /\ pc'[Watcher] # "idle" => watching')
        /\ pc'[Watcher] \in {"idle", "scan", "record"}
    <3>0. /\ process \in {"down", "starting", "up"}
          /\ watching => local /\ process = "up"
          /\ event => watching
          /\ process = "down" => \A b \in Actor : pc[b] = "idle"
          /\ process = "starting" => local /\ pc[Watcher] \in {"scan", "record"} /\ \A c \in Client : pc[c] = "idle"
          /\ process = "up" /\ pc[Watcher] # "idle" => watching
          /\ pc[Watcher] \in {"idle", "scan", "record"}
      BY DEF TypeOK, Owners
    <3>1. CASE a \in Client
      <4>1. process = "up" /\ process' = "up" /\ watching' = watching /\ event' \in {event, watching}
        BY <1>0, <1>1, <3>1, ClientLeaves
      <4>2. pc'[Watcher] = pc[Watcher]
        BY <1>m, <2>1, <3>1
      <4> QED
        BY <3>0, <4>1, <4>2
    <3>2. CASE a = Watcher
      <4>1. \A c \in Client : pc'[c] = pc[c]
        BY <1>m, <2>1, <3>2
      <4>2. \A b \in Actor : b = Watcher \/ b \in Client
        BY DEF Actor
      <4>3. /\ watching' = watching
            /\ \/ process = "down" /\ process' = "starting" /\ pc'[Watcher] = "scan" /\ local /\ event' = event
               \/ process = "down" /\ process' = "up" /\ pc'[Watcher] = "idle" /\ event' = event
               \/ process' = process /\ pc'[Watcher] = "scan" /\ event /\ event' = FALSE
               \/ process' = process /\ pc[Watcher] # "idle" /\ pc'[Watcher] = "record" /\ event' = event
               \/ process' = "up" /\ pc[Watcher] # "idle" /\ pc'[Watcher] = "idle" /\ event' = event
               \/ /\ process' = IF process = "starting" THEN "down" ELSE process
                  /\ pc[Watcher] # "idle" /\ pc'[Watcher] = "idle" /\ event' = event
        BY <1>0, <1>1, <3>2, WatcherDoes
      <4>4. /\ process' \in {"down", "starting", "up"} /\ pc'[Watcher] \in {"idle", "scan", "record"}
            /\ watching' => local /\ process' = "up"
            /\ event' => watching'
        BY <1>m, <3>0, <4>3
      <4>5. process' = "down" => \A b \in Actor : pc'[b] = "idle"
        <5> SUFFICES ASSUME process' = "down" PROVE \A b \in Actor : pc'[b] = "idle"
          OBVIOUS
        <5>1. pc'[Watcher] = "idle" /\ process = "starting"
          BY <1>m, <3>0, <4>3
        <5> QED
          BY <3>0, <4>1, <4>2, <5>1
      <4>6. process' = "starting" => local /\ pc'[Watcher] \in {"scan", "record"} /\ \A c \in Client : pc'[c] = "idle"
        <5> SUFFICES ASSUME process' = "starting"
                     PROVE  local /\ pc'[Watcher] \in {"scan", "record"} /\ \A c \in Client : pc'[c] = "idle"
          OBVIOUS
        <5>1. local /\ pc'[Watcher] \in {"scan", "record"} /\ process \in {"down", "starting"}
          BY <1>m, <3>0, <4>3
        <5> QED
          BY <1>m, <3>0, <4>1, <5>1
      <4>7. process' = "up" /\ pc'[Watcher] # "idle" => watching'
        BY <1>m, <3>0, <4>3
      <4> QED
        BY <4>3, <4>4, <4>5, <4>6, <4>7
    <3> QED
      BY <3>1, <3>2 DEF Actor
  <2>6. ~local => \A b \in Actor : pc'[b] \in {"idle", "asked", "check", "commit"}
    <3> SUFFICES ASSUME ~local PROVE pc'[a] \in {"idle", "asked", "check", "commit"}
      BY <2>1 DEF Owners
    <3>1. pc[a] \in {"idle", "asked", "check", "commit"} /\ ~event
      BY DEF Owners
    <3>2. CASE Return(a)
      BY <1>0, <3>2, Returned
    <3>3. CASE a = Watcher
      BY <1>0, <1>1, <3>1, <3>3, WatcherDoes DEF Owners
    <3>4. CASE a \in Client
      <4>1. CASE Ask(a) \/ Begin(a) \/ Check(a)
        BY <1>0, <3>2, <4>1 DEF Ask, Begin, Check, GoTo, ActorTypes
      <4>2. CASE Commit(a) \/ CommitFails(a)
        BY <3>2, <4>2 DEF Commit, CommitFails
      <4>3. ~Persist(a)
        BY <3>1 DEF Persist
      <4>4. ~(Scan(a) \/ (\E d \in Doc : RecordDoc(a, d)) \/ Archive(a) \/ SyncFails(a))
        BY <3>1 DEF Scan, RecordDoc, Archive, SyncFails, InSync
      <4> QED
        BY <1>1, <1>m, <3>4, <4>1, <4>2, <4>3, <4>4 DEF Acts
    <3> QED
      BY <3>3, <3>4 DEF Actor
  <2>7. watching' \in BOOLEAN
    BY <2>5 DEF TypeOK
  <2>8. TypeOK'
    BY <1>v, <2>1, <2>2, <2>4, <2>5, <2>7 DEF TypeOK, ActorTypes
  <2>9. Owners'
    BY <1>l, <2>1, <2>2, <2>4, <2>5, <2>6 DEF Owners, ActorTypes
  <2> QED
    BY <2>8, <2>9
<1>2. ASSUME NEW f \in File, EditDisk(f) PROVE TypeOK' /\ Owners'
  <2>1. writes' \in 0 .. MaxWrites
    BY <1>0, <1>2, BoundsAssumption DEF EditDisk
  <2>2. disk' \in Files
    <3>1. PICK x \in {writes + 1, 0, NoFile} : disk' = [disk EXCEPT ![f] = x]
      BY <1>2 DEF EditDisk
    <3>2. writes + 1 \in 0 .. MaxWrites /\ 0 \in 0 .. MaxWrites
      BY <1>0, <1>2, BoundsAssumption DEF EditDisk
    <3>3. x \in Content
      BY <3>2, FilesFacts
    <3> QED
      BY <1>0, <3>1, <3>3 DEF Files
  <2>3. unheard' \subseteq Moments /\ event' = watching
    BY <1>2 DEF EditDisk, EditGoes, Signal, TypeOK
  <2>4. UNCHANGED <<local, archived, process, watching, mu, pc, op, scan, left>>
    BY <1>2 DEF EditDisk, store, actors
  <2>5. TypeOK'
    BY <1>v, <2>2, <2>3, <2>4 DEF TypeOK
  <2>6. Owners'
    BY <2>1, <2>3, <2>4 DEF Owners, TypeOK
  <2> QED
    BY <2>5, <2>6
<1>3. CASE Stop
  <2>1. NoOp \in Change
    <3>1. 0 \in 0 .. MaxWrites
      BY BoundsAssumption
    <3> QED
      BY <3>1, FilesFacts DEF NoOp, Change
  <2>2. /\ process' = "down" /\ watching' = FALSE /\ event' = FALSE /\ mu' = NoOne
        /\ pc' = [a \in Actor |-> "idle"] /\ op' \in [Client -> Change]
        /\ scan' \in [Actor -> Files] /\ left' \in [Actor -> SUBSET Doc]
        /\ UNCHANGED <<local, disk, archived, unheard, writes>>
    <3> HIDE DEF NoOp
    <3> QED
      BY <1>3, <2>1, FilesFacts DEF Stop, store, history
  <2>3. TypeOK'
    BY <1>m, <1>v, <2>2 DEF TypeOK, Steps
  <2>4. Owners'
    BY <1>m, <2>2 DEF Owners
  <2> QED
    BY <2>3, <2>4
<1>4. CASE Watch
  <2>1. watching' = TRUE /\ local /\ process = "up" /\ pc[Watcher] \in {"idle", "scan", "record"}
        /\ UNCHANGED <<local, disk, archived, process, event, mu, pc, op, scan, left, unheard, writes>>
    BY <1>4 DEF Watch, store, actors, history, counters, Owners
  <2>2. TypeOK'
    BY <1>v, <2>1 DEF TypeOK
  <2>3. Owners'
    BY <2>1 DEF Owners, TypeOK
  <2> QED
    BY <2>2, <2>3
<1>5. CASE UNCHANGED vars
  <2>1. UNCHANGED <<local, disk, archived, process, watching, event, mu, pc, op, scan, left, unheard, writes>>
    BY <1>5 DEF vars, store, owner, actors, history, counters
  <2>2. TypeOK'
    BY <1>v, <2>1 DEF TypeOK
  <2>3. Owners'
    BY <2>1 DEF Owners
  <2> QED
    BY <2>2, <2>3
<1> QED
  BY <1>1, <1>2, <1>3, <1>4, <1>5, StepKinds

-----------------------------------------------------------------------------
(* The mutex keeps what was compared. *)

LEMMA IdleStores ==
    ASSUME NEW a \in Actor, Acts(a), pc[a] \in {"idle", "asked"}
    PROVE  UNCHANGED <<versions, archived, disk>>
<1>1. ~(Scan(a) \/ (\E d \in Doc : RecordDoc(a, d)) \/ Archive(a) \/ SyncFails(a)
        \/ Check(a) \/ Persist(a) \/ Commit(a) \/ CommitFails(a))
  BY DEF Scan, RecordDoc, Archive, SyncFails, InSync, Check, Persist, Commit, CommitFails
<1>2. WatchFires \/ Start \/ Ask(a) \/ Begin(a)
  BY <1>1 DEF Acts
<1> QED
  BY <1>2 DEF WatchFires, Start, Ask, Begin, store

\* The store and the folder are left, except by a step of who has the mutex and by an edit.
LEMMA ElsewhereKept ==
    ASSUME TypeOK, NEW b \in Actor, pc[b] \notin {"idle", "asked"}, Next, ~Acts(b)
    PROVE  /\ UNCHANGED <<versions, archived>>
           /\ UNCHANGED disk \/ \E f \in File : EditDisk(f)
<1>1. ASSUME NEW a \in Actor, Acts(a) PROVE UNCHANGED <<versions, archived, disk>>
  BY <1>1, OneHolder, IdleStores
<1>2. CASE Stop \/ Watch \/ UNCHANGED vars
  BY <1>2 DEF Stop, Watch, vars, store
<1>3. CASE \E f \in File : EditDisk(f)
  BY <1>3 DEF EditDisk, store
<1> QED
  BY <1>1, <1>2, <1>3, StepKinds

NewHead(d) == Len(versions'[d])

LEMMA AskedStep ==
    TypeOK /\ Stored /\ Owners /\ Asked /\ Next => Asked'
<1> SUFFICES ASSUME TypeOK, Stored, Owners, Asked, Next, NEW c \in Client, pc'[c] # "idle"
             PROVE  /\ op'[c].doc \in Doc
                    /\ op'[c].file \in FilesOf(op'[c].doc)
                    /\ op'[c].base \in 1 .. NewHead(op'[c].doc)
                    /\ pc'[c] \in {"persist", "commit"} =>
                         op'[c].base = NewHead(op'[c].doc) /\ op'[c].doc \notin archived'
  BY DEF Asked, HeadOf, NewHead, FilesOf
<1>0. ActorTypes /\ disk \in Files /\ writes \in 0 .. MaxWrites /\ c \in Actor
  BY DEF TypeOK, Owners, ActorTypes, Actor
<1>g. \A d \in Doc : HeadOf(d) \in Nat /\ NewHead(d) \in Nat /\ NewHead(d) >= HeadOf(d) /\ HeadOf(d) >= 1
  BY <1>0, StoredGrows, HeadFacts DEF Grows, HeadOf, NewHead
<1>k. ASSUME UNCHANGED versions PROVE \A d \in Doc : NewHead(d) = HeadOf(d)
  BY <1>k DEF HeadOf, NewHead
<1>1. ASSUME pc'[c] = pc[c], op'[c] = op[c],
             pc[c] \in {"persist", "commit"} => UNCHANGED <<versions, archived>>
      PROVE  /\ op'[c].doc \in Doc
             /\ op'[c].file \in FilesOf(op'[c].doc)
             /\ op'[c].base \in 1 .. NewHead(op'[c].doc)
             /\ pc'[c] \in {"persist", "commit"} =>
                  op'[c].base = NewHead(op'[c].doc) /\ op'[c].doc \notin archived'
  <2>1. op[c].doc \in Doc /\ op[c].file \in FilesOf(op[c].doc) /\ op[c].base \in 1 .. HeadOf(op[c].doc)
    BY <1>1 DEF Asked
  <2>2. op[c].base \in 1 .. NewHead(op[c].doc)
    BY <1>g, <2>1
  <2>3. pc[c] \in {"persist", "commit"} => op[c].base = NewHead(op[c].doc) /\ op[c].doc \notin archived'
    BY <1>1, <1>k, <2>1 DEF Asked
  <2> QED
    BY <1>1, <2>1, <2>2, <2>3
<1>2. CASE ~Acts(c) /\ ~Stop
  <2>1. pc'[c] = pc[c] /\ op'[c] = op[c]
    <3>1. ASSUME NEW a \in Actor, Acts(a) PROVE pc'[c] = pc[c] /\ op'[c] = op[c]
      BY <1>0, <1>2, <3>1, OthersStay
    <3>2. CASE (\E f \in File : EditDisk(f)) \/ Watch \/ UNCHANGED vars
      BY <3>2 DEF EditDisk, Watch, vars, actors
    <3> QED
      BY <1>2, <3>1, <3>2, StepKinds
  <2>2. pc[c] \in {"persist", "commit"} => UNCHANGED <<versions, archived>>
    BY <1>0, <1>2, ElsewhereKept
  <2> QED
    BY <1>1, <2>1, <2>2
<1>3. CASE Stop
  BY <1>0, <1>3 DEF Stop
<1>4. CASE Acts(c)
  <2>1. Watcher # c /\ c \in Client
    BY ActorAssumption
  <2>2. ~Return(c)
    BY <1>0, Returned
  <2>3. CASE Ask(c)
    <3>1. PICK d \in Doc \ archived, f \in File, x \in {writes + 1, NoFile} :
            /\ f \in FilesOf(d)
            /\ op' = [op EXCEPT ![c] = [doc |-> d, file |-> f, content |-> x, base |-> HeadOf(d)]]
      BY <2>3, FilesFacts DEF Ask
    <3>2. op'[c].doc = d /\ op'[c].file = f /\ op'[c].base = HeadOf(d)
      BY <1>0, <3>1 DEF ActorTypes
    <3>3. pc'[c] = "asked"
      BY <1>0, <2>3 DEF Ask, GoTo, ActorTypes
    <3>4. HeadOf(d) \in 1 .. NewHead(d)
      BY <1>g
    <3> QED
      BY <3>1, <3>2, <3>3, <3>4
  <2>4. CASE ~Ask(c)
    <3>1. pc[c] # "idle" /\ op'[c] = op[c]
      <4>1. pc[c] # "idle"
        BY <1>0, <1>4, <2>4, ClientLeaves
      <4>2. CASE Scan(c) \/ (\E d \in Doc : RecordDoc(c, d)) \/ Archive(c) \/ SyncFails(c)
        BY <2>2, <4>2 DEF Scan, RecordDoc, Archive, SyncFails
      <4>3. CASE Begin(c) \/ Check(c) \/ Persist(c) \/ Commit(c) \/ CommitFails(c)
        BY <2>2, <4>3 DEF Begin, Check, Persist, Commit, CommitFails
      <4> QED
        BY <1>4, <2>1, <2>4, <4>1, <4>2, <4>3 DEF Acts
    <3>2. op[c].doc \in Doc /\ op[c].file \in FilesOf(op[c].doc) /\ op[c].base \in 1 .. HeadOf(op[c].doc)
      BY <3>1 DEF Asked
    <3>3. op[c].base \in 1 .. NewHead(op[c].doc)
      BY <1>g, <3>2
    <3>4. ASSUME pc'[c] \in {"persist", "commit"}
          PROVE  op[c].base = NewHead(op[c].doc) /\ op[c].doc \notin archived'
      <4>1. CASE Check(c)
        <5>1. op[c].doc \notin archived /\ op[c].base = HeadOf(op[c].doc) /\ UNCHANGED <<versions, archived>>
          BY <2>2, <4>1 DEF Check, store
        <5> QED
          BY <1>k, <3>2, <5>1
      <4>2. CASE Persist(c)
        <5>1. pc[c] = "persist" /\ UNCHANGED <<versions, archived>>
          BY <4>2 DEF Persist, store
        <5>2. op[c].base = HeadOf(op[c].doc) /\ op[c].doc \notin archived
          BY <5>1 DEF Asked
        <5> QED
          BY <1>k, <3>2, <5>1, <5>2
      <4>3. ~(Scan(c) \/ (\E d \in Doc : RecordDoc(c, d)) \/ Archive(c))
        BY <1>0, <2>1, <2>2, <3>4 DEF Scan, RecordDoc, Archive, InSync, GoTo, ActorTypes
      <4>4. ~(SyncFails(c) \/ CommitFails(c) \/ Begin(c) \/ Commit(c))
        BY <1>0, <2>2, <3>4 DEF SyncFails, Begin, Commit, CommitFails, GoTo, ActorTypes
      <4> QED
        BY <1>4, <2>1, <2>4, <4>1, <4>2, <4>3, <4>4 DEF Acts
    <3> QED
      BY <3>1, <3>2, <3>3, <3>4
  <2> QED
    BY <2>3, <2>4
<1> QED
  BY <1>2, <1>3, <1>4

-----------------------------------------------------------------------------
(* What a sync records is what it scanned. *)

\* The store holds doc d as the files fs are, after the step.
HoldsThen(fs, d) ==
    IF fs[d] = NoFile THEN d \in archived'
    ELSE d \notin archived' /\ versions'[d][NewHead(d)].files = Part(fs, d)

SyncedThen(a) ==
    /\ pc'[a] \in {"record", "record again"} => \A d \in Doc :
          /\ d \in left'[a] => scan'[a][d] # NoFile
          /\ d \notin left'[a] /\ scan'[a][d] # NoFile => HoldsThen(scan'[a], d)
    /\ local' /\ pc'[a] \in {"check", "persist"} => \A d \in Doc : HoldsThen(scan'[a], d)

LEMMA SyncedSelf ==
    ASSUME TypeOK, Stored, Owners, Synced, NEW a \in Actor, Acts(a)
    PROVE  SyncedThen(a)
<1>0. ActorTypes /\ local' = local
  <2>1. Next
    BY ActorAssumption DEF Acts, Next, Actor
  <2> QED
    BY <2>1, LocalStays DEF TypeOK, Owners, ActorTypes
<1>h. ASSUME NEW d \in Doc, versions'[d] = versions[d], d \in archived' <=> d \in archived
      PROVE  HoldsThen(scan[a], d) <=> Holds(scan[a], d)
  BY <1>h DEF HoldsThen, Holds, HeadFiles, HeadOf, NewHead
<1>i. CASE pc'[a] \notin {"record", "record again", "check", "persist"}
  BY <1>i DEF SyncedThen
<1>r. CASE Return(a)
  BY <1>0, <1>i, <1>r, Returned
<1>1. CASE Scan(a)
  <2>1. pc'[a] \in {"record", "record again"}
    BY <1>0, <1>1 DEF Scan, GoTo, ActorTypes
  <2>2. scan'[a] = disk /\ left'[a] = {d \in Doc : disk[d] # NoFile}
    BY <1>0, <1>1 DEF Scan, ActorTypes
  <2> QED
    BY <2>1, <2>2 DEF SyncedThen
<1>2. ASSUME NEW d \in Doc, RecordDoc(a, d) PROVE SyncedThen(a)
  <2>1. /\ pc' = pc /\ scan' = scan /\ left'[a] = left[a] \ {d} /\ archived' = archived \ {d}
        /\ InSync(a) /\ d \in left[a]
    BY <1>0, <1>2 DEF RecordDoc, ActorTypes
  <2>2. HeadFiles(d)' = Part(scan[a], d) /\ \A e \in Doc : e # d => versions'[e] = versions[e]
    BY <1>0, <1>2, RecordGrows
  <2>3. scan[a][d] # NoFile
    BY <2>1 DEF Synced
  <2>4. HoldsThen(scan[a], d)
    BY <2>1, <2>2, <2>3 DEF HoldsThen, HeadFiles, HeadOf, NewHead
  <2>5. ASSUME NEW e \in Doc, e # d, e \notin left[a], scan[a][e] # NoFile PROVE HoldsThen(scan[a], e)
    <3>1. Holds(scan[a], e)
      BY <2>1, <2>5 DEF Synced
    <3>2. versions'[e] = versions[e] /\ (e \in archived' <=> e \in archived)
      BY <2>1, <2>2, <2>5
    <3> QED
      BY <1>h, <3>1, <3>2
  <2>6. \A e \in Doc : e \in left[a] => scan[a][e] # NoFile
    BY <2>1 DEF Synced
  <2>7. pc[a] \notin {"check", "persist"}
    BY <2>1 DEF InSync
  <2> QED
    BY <2>1, <2>4, <2>5, <2>6, <2>7 DEF SyncedThen
<1>3. CASE Archive(a)
  <2>1. CASE pc'[a] = "check" /\ scan' = scan
    <3>1. /\ InSync(a) /\ left[a] = {} /\ versions' = versions
          /\ archived' = archived \cup {d \in Doc : scan[a][d] = NoFile}
      BY <1>3 DEF Archive
    <3>2. ASSUME NEW d \in Doc PROVE HoldsThen(scan[a], d)
      <4>1. CASE scan[a][d] = NoFile
        BY <3>1, <4>1 DEF HoldsThen
      <4>2. CASE scan[a][d] # NoFile
        <5>1. Holds(scan[a], d)
          BY <3>1, <4>2 DEF Synced
        <5>2. versions'[d] = versions[d] /\ (d \in archived' <=> d \in archived)
          BY <3>1, <4>2
        <5> QED
          BY <1>h, <5>1, <5>2
      <4> QED
        BY <4>1, <4>2
    <3> QED
      BY <2>1, <3>2 DEF SyncedThen
  <2> QED
    BY <1>0, <1>3, <1>r, <2>1 DEF Archive, GoTo, ActorTypes
<1>4. CASE SyncFails(a)
  BY <1>4, <1>r DEF SyncFails
<1>5. CASE a = Watcher /\ (WatchFires \/ Start)
  BY <1>0, <1>5, <1>i DEF WatchFires, Start, GoTo, Owners, ActorTypes
<1>6. CASE Ask(a) \/ Begin(a)
  <2>1. pc'[a] \in {"asked", "scan", "check"} /\ (pc'[a] = "check" => ~local)
    BY <1>0, <1>6 DEF Ask, Begin, GoTo, ActorTypes
  <2> QED
    BY <1>0, <2>1 DEF SyncedThen
<1>7. CASE Check(a)
  <2>1. CASE ~Return(a)
    <3>1. pc[a] = "check" /\ pc'[a] \in {"persist", "commit"} /\ scan' = scan /\ UNCHANGED <<versions, archived>>
      BY <1>0, <1>7, <2>1 DEF Check, GoTo, ActorTypes, store
    <3>2. local => \A d \in Doc : Holds(scan[a], d)
      BY <3>1 DEF Synced
    <3>3. local => \A d \in Doc : HoldsThen(scan[a], d)
      BY <1>h, <3>1, <3>2
    <3> QED
      BY <1>0, <3>1, <3>3 DEF SyncedThen
  <2> QED
    BY <1>r, <2>1
<1>8. CASE Persist(a) \/ Commit(a) \/ CommitFails(a)
  BY <1>0, <1>8, <1>i, <1>r DEF Persist, Commit, CommitFails, GoTo, ActorTypes
<1> QED
  BY <1>1, <1>2, <1>3, <1>4, <1>5, <1>6, <1>7, <1>8 DEF Acts

LEMMA SyncedStep ==
    TypeOK /\ Stored /\ Owners /\ Synced /\ Next => Synced'
<1> SUFFICES ASSUME TypeOK, Stored, Owners, Synced, Next, NEW b \in Actor PROVE SyncedThen(b)
  BY DEF Synced, SyncedThen, HoldsThen, Holds, InSync, HeadFiles, HeadOf, NewHead, Part, FilesOf
<1>0. ActorTypes /\ disk \in Files /\ writes \in 0 .. MaxWrites /\ local' = local
  BY LocalStays DEF TypeOK, Owners, ActorTypes
<1>1. CASE Acts(b)
  BY <1>1, SyncedSelf
<1>2. CASE Stop
  BY <1>2 DEF Stop, SyncedThen
<1>3. CASE ~Acts(b) /\ ~Stop
  <2>1. pc'[b] = pc[b] /\ scan'[b] = scan[b] /\ left'[b] = left[b]
    <3>1. ASSUME NEW a \in Actor, Acts(a) PROVE pc'[b] = pc[b] /\ scan'[b] = scan[b] /\ left'[b] = left[b]
      BY <1>0, <1>3, <3>1, OthersStay
    <3>2. CASE (\E f \in File : EditDisk(f)) \/ Watch \/ UNCHANGED vars
      BY <3>2 DEF EditDisk, Watch, vars, actors
    <3> QED
      BY <1>3, <3>1, <3>2, StepKinds
  <2>2. CASE pc[b] \in {"idle", "asked"}
    BY <2>1, <2>2 DEF SyncedThen
  <2>3. CASE pc[b] \notin {"idle", "asked"}
    <3>1. UNCHANGED <<versions, archived>>
      BY <1>3, <2>3, ElsewhereKept
    <3>2. \A d \in Doc : HoldsThen(scan[b], d) <=> Holds(scan[b], d)
      BY <3>1 DEF HoldsThen, Holds, HeadFiles, HeadOf, NewHead
    <3> QED
      BY <1>0, <2>1, <3>2 DEF Synced, SyncedThen, InSync
  <2> QED
    BY <2>2, <2>3
<1> QED
  BY <1>1, <1>2, <1>3

\* A moment that was there stays in the history.
LEMMA UnheardGrows == Next => unheard \subseteq unheard'
<1>1. ASSUME NEW a \in Actor, Acts(a) PROVE unheard \subseteq unheard'
  BY <1>1 DEF Acts, Scan, RecordDoc, Archive, SyncFails, WatchFires, Start, Ask, Begin, Check, Persist,
     Commit, CommitFails, FailureGoes, history
<1>2. CASE \/ \E f \in File : EditDisk(f)
           \/ Stop \/ Watch \/ UNCHANGED vars
  BY <1>2 DEF EditDisk, EditGoes, Stop, Watch, vars, history
<1> QED
  BY <1>1, <1>2, StepKinds

LEMMA UnseenStep ==
    TypeOK /\ Stored /\ Owners /\ Unseen /\ Next => Unseen'
<1> SUFFICES ASSUME TypeOK, Stored, Owners, Unseen, Next, local', "change" \notin unheard',
                    NEW c \in Client, pc'[c] \in {"record", "check", "persist"}
             PROVE  disk' = scan'[c]
  BY DEF Unseen
<1>0. /\ ActorTypes /\ disk \in Files /\ writes \in 0 .. MaxWrites /\ local' = local
      /\ "change" \notin unheard /\ c \in Actor
  BY LocalStays, UnheardGrows DEF TypeOK, Owners, ActorTypes, Actor
<1>1. CASE Acts(c)
  <2>1. CASE Scan(c)
    BY <1>0, <2>1 DEF Scan, ActorTypes
  <2>2. CASE pc[c] \in {"record", "check", "persist"} /\ UNCHANGED <<disk, scan>>
    BY <1>0, <2>2 DEF Unseen
  <2>r. ~Return(c)
    BY <1>0, Returned
  <2>3. CASE (\E d \in Doc : RecordDoc(c, d)) \/ Archive(c) \/ Check(c)
    <3>1. UNCHANGED <<disk, scan>>
      BY <2>3, <2>r DEF RecordDoc, Archive, Check
    <3>2. pc[c] \in {"record", "check", "persist"}
      BY <1>0, <2>3, <2>r DEF RecordDoc, Archive, Check, InSync
    <3> QED
      BY <2>2, <3>1, <3>2
  <2>4. ~Begin(c)
    BY <1>0 DEF Begin, GoTo, ActorTypes
  <2>5. ~(SyncFails(c) \/ Ask(c) \/ Persist(c) \/ Commit(c) \/ CommitFails(c))
    BY <1>0, <2>r DEF SyncFails, Ask, Persist, Commit, CommitFails, GoTo, ActorTypes
  <2> QED
    BY <1>1, <2>1, <2>3, <2>4, <2>5, ActorAssumption DEF Acts
<1>2. CASE Stop
  BY <1>0, <1>2 DEF Stop
<1>3. ASSUME NEW f \in File, EditDisk(f) PROVE FALSE
  BY <1>0, <1>3 DEF EditDisk, EditGoes, actors, Moments
<1>4. CASE ~Acts(c) /\ ~Stop
  <2>1. pc'[c] = pc[c] /\ scan'[c] = scan[c]
    <3>1. ASSUME NEW a \in Actor, Acts(a) PROVE pc'[c] = pc[c] /\ scan'[c] = scan[c]
      BY <1>0, <1>4, <3>1, OthersStay
    <3>2. CASE Watch \/ UNCHANGED vars
      BY <3>2 DEF Watch, vars, actors
    <3> QED
      BY <1>3, <1>4, <3>1, <3>2, StepKinds
  <2>2. UNCHANGED disk
    BY <1>0, <1>3, <1>4, <2>1, ElsewhereKept
  <2> QED
    BY <1>0, <2>1, <2>2 DEF Unseen
<1> QED
  BY <1>1, <1>2, <1>4

\* What a change writes over is in the head, because the sync before it put it there.
LEMMA OverwroteStep ==
    TypeOK /\ Owners /\ Asked /\ Synced /\ Unseen /\ ScannedIsNotOverwritten /\ Next => ScannedIsNotOverwritten'
<1> SUFFICES ASSUME TypeOK, Owners, Asked, Synced, Unseen, ScannedIsNotOverwritten, Next,
                    overwrote', "change" \notin unheard
             PROVE  FALSE
  BY UnheardGrows DEF ScannedIsNotOverwritten
<1>0. ~overwrote
  BY DEF ScannedIsNotOverwritten
<1>1. ASSUME NEW c \in Client, Persist(c) PROVE FALSE
  <2>1. pc[c] = "persist" /\ c \in Actor
    BY <1>1 DEF Persist, Actor
  <2>2. local
    BY <2>1 DEF Owners
  <2>3. disk = scan[c] /\ \A d \in Doc : Holds(scan[c], d)
    BY <2>1, <2>2 DEF Unseen, Synced
  <2>4. op[c].doc \in Doc /\ op[c].file \in FilesOf(op[c].doc) /\ op[c].doc \notin archived
    BY <2>1 DEF Asked
  <2>5. HeadFiles(op[c].doc) = Part(disk, op[c].doc)
    BY <2>3, <2>4 DEF Holds
  <2>6. HeadFiles(op[c].doc)[op[c].file] = disk[op[c].file]
    BY <2>4, <2>5 DEF Part
  <2> QED
    BY <1>0, <1>1, <2>6 DEF Persist
<1>2. ASSUME NEW a \in Actor, Acts(a) PROVE FALSE
  BY <1>0, <1>1, <1>2 DEF Acts, Scan, RecordDoc, Archive, SyncFails, WatchFires, Start, Ask, Begin, Check,
     Commit, CommitFails, history
<1>3. CASE \/ \E f \in File : EditDisk(f)
           \/ Stop \/ Watch \/ UNCHANGED vars
  BY <1>0, <1>3 DEF EditDisk, Stop, Watch, vars, history
<1> QED
  BY <1>2, <1>3, StepKinds

-----------------------------------------------------------------------------
(* Somebody finds what the folder holds and the store does not. *)

\* Somebody is under way who will scan the folder, or will be.
Sought ==
    \/ process = "down"
    \/ event
    \/ pc[Watcher] # "idle"
    \/ \E c \in Client : pc[c] \in {"commit", "scan again", "record again"}

\* An edit that nobody hears is one that a scan will find.
LEMMA EditHeard ==
    ASSUME TypeOK, Owners, NEW f \in File, EditDisk(f), unheard' \subseteq {"change"}, ~event'
    PROVE  process = "down" \/ pc[Watcher] = "scan"
<1> SUFFICES ASSUME process # "down", pc[Watcher] # "scan" PROVE FALSE
  OBVIOUS
<1>1. ~watching
  BY DEF EditDisk, Signal
<1>2. "start" \in Moments /\ "start" # "change"
  BY DEF Moments
<1>3. "start" \in unheard'
  BY <1>1, <1>2 DEF EditDisk, EditGoes
<1> QED
  BY <1>2, <1>3

\* A transaction that fails unheard leaves an event, or ends a process that starts.
LEMMA FailureHeard ==
    ASSUME TypeOK, Owners, NEW a \in Actor, FailureGoes(a), unheard' \subseteq {"change"}
    PROVE  IF a \in Client THEN event ELSE process # "up"
<1>1. a \in Client <=> a # Watcher
  BY ActorAssumption DEF Actor
<1>2. "start" \in Moments /\ "start" \notin {"change"} /\ "sync" \in Moments /\ "sync" \notin {"change"}
  BY DEF Moments
<1>3. CASE a \in Client
  <2> SUFFICES ASSUME ~event PROVE "start" \in unheard'
    BY <1>2, <1>3
  <2> QED
    BY <1>2, <1>3 DEF FailureGoes
<1>4. CASE a \notin Client
  <2> SUFFICES ASSUME process = "up" PROVE "sync" \in unheard'
    BY <1>2, <1>4
  <2> QED
    BY <1>1, <1>2, <1>4 DEF FailureGoes
<1> QED
  BY <1>3, <1>4

LEMMA ScanFresh ==
    ASSUME TypeOK, Stored, Owners, PickedUp, Next, local, Heard, unheard' \subseteq {"change"}, ~event',
           NEW a \in Actor, pc'[a] \in {"record", "record again"}
    PROVE  disk' = scan'[a]
<1>0. /\ ActorTypes /\ disk \in Files /\ writes \in 0 .. MaxWrites
      /\ NoOne \notin Actor
  BY ActorAssumption DEF TypeOK, Owners, ActorTypes, Actor
<1>1. ASSUME ~event, InSync(a), UNCHANGED disk, scan'[a] = scan[a] PROVE disk' = scan'[a]
  BY <1>1 DEF PickedUp
<1>r. ~Return(a)
  BY <1>0, Returned
<1>2. CASE Acts(a)
  <2>1. CASE Scan(a)
    BY <1>0, <2>1 DEF Scan, ActorTypes
  <2>2. CASE \E d \in Doc : RecordDoc(a, d)
    <3>1. UNCHANGED <<disk, scan, event>> /\ InSync(a)
      BY <2>2 DEF RecordDoc, owner
    <3> QED
      BY <1>1, <3>1
  <2>3. ~Archive(a)
    BY <1>0, <1>r DEF Archive, GoTo, ActorTypes
  <2>4. ~SyncFails(a)
    BY <1>r DEF SyncFails
  <2>5. a = Watcher => ~WatchFires /\ ~Start
    BY <1>0 DEF WatchFires, Start, GoTo, ActorTypes, Owners
  <2>6. a \in Client => ~(Ask(a) \/ Begin(a) \/ Check(a) \/ Persist(a) \/ Commit(a) \/ CommitFails(a))
    BY <1>0, <1>r DEF Ask, Begin, Check, Persist, Commit, CommitFails, GoTo, ActorTypes
  <2> QED
    BY <1>2, <2>1, <2>2, <2>3, <2>4, <2>5, <2>6 DEF Acts
<1>3. CASE Stop
  BY <1>3 DEF Stop
<1>4. CASE ~Acts(a) /\ ~Stop
  <2>1. pc'[a] = pc[a] /\ scan'[a] = scan[a]
    <3>1. ASSUME NEW b \in Actor, Acts(b) PROVE pc'[a] = pc[a] /\ scan'[a] = scan[a]
      BY <1>0, <1>4, <3>1, OthersStay
    <3>2. CASE (\E f \in File : EditDisk(f)) \/ Watch \/ UNCHANGED vars
      BY <3>2 DEF EditDisk, Watch, vars, actors
    <3> QED
      BY <1>4, <3>1, <3>2, StepKinds
  <2>2. InSync(a) /\ mu = a
    BY <2>1 DEF InSync, TypeOK
  <2>3. ~\E f \in File : EditDisk(f)
    <3> SUFFICES ASSUME NEW f \in File, EditDisk(f) PROVE FALSE
      OBVIOUS
    <3>1. process = "down" \/ pc[Watcher] = "scan"
      BY EditHeard
    <3>2. Watcher \in Actor
      BY DEF Actor
    <3> QED
      BY <2>2, <3>1, <3>2 DEF InSync, TypeOK, Owners
  <2>4. UNCHANGED disk
    BY <1>4, <2>2, <2>3, ElsewhereKept DEF InSync
  <2>5. ~event
    <3>1. ASSUME NEW b \in Actor, Acts(b) PROVE event' = event
      <4>1. b # a /\ pc[b] \in {"idle", "asked"}
        BY <1>4, <2>2, <3>1, OneHolder DEF InSync
      <4>2. b \in Client => ~Persist(b)
        BY <4>1 DEF Persist
      <4>3. ~WatchFires
        BY <1>0, <2>2 DEF WatchFires
      <4> QED
        BY <3>1, <4>2, <4>3 DEF Acts, Scan, RecordDoc, Archive, SyncFails, Start, Ask, Begin, Check,
           Commit, CommitFails, owner
    <3>2. CASE Watch \/ UNCHANGED vars
      BY <3>2 DEF Watch, vars, owner
    <3> QED
      BY <1>4, <2>3, <3>1, <3>2, StepKinds
  <2> QED
    BY <1>1, <2>1, <2>2, <2>4, <2>5
<1> QED
  BY <1>2, <1>3, <1>4

\* A sync ends with everything recorded that it scanned.
LEMMA ArchiveRecords ==
    ASSUME TypeOK, Stored, Synced, NEW a \in Actor, Archive(a), NEW d \in Doc
    PROVE  HoldsThen(scan[a], d)
<1>1. /\ InSync(a) /\ left[a] = {} /\ versions' = versions
      /\ archived' = archived \cup {e \in Doc : scan[a][e] = NoFile}
  BY DEF Archive
<1>2. CASE scan[a][d] = NoFile
  BY <1>1, <1>2 DEF HoldsThen
<1>3. CASE scan[a][d] # NoFile
  <2>1. Holds(scan[a], d)
    BY <1>1, <1>3 DEF Synced
  <2>2. versions'[d] = versions[d] /\ (d \in archived' <=> d \in archived)
    BY <1>1, <1>3
  <2> QED
    BY <2>1, <2>2 DEF HoldsThen, Holds, HeadFiles, HeadOf, NewHead
<1> QED
  BY <1>2, <1>3

\* A record of files that the head holds changes nothing.
LEMMA RecordRecords ==
    ASSUME TypeOK, Stored, Synced, NEW a \in Actor, NEW d \in Doc, RecordDoc(a, d),
           \A e \in Doc : Holds(scan[a], e)
    PROVE  UNCHANGED archived /\ \A e \in Doc : versions'[e] = versions[e]
<1>1. /\ InSync(a) /\ d \in left[a] /\ archived' = archived \ {d}
      /\ versions' = [versions EXCEPT ![d] = Recorded(d, Part(scan[a], d), NoOne)]
  BY DEF RecordDoc
<1>2. scan[a][d] # NoFile
  BY <1>1 DEF Synced
<1>3. d \notin archived /\ HeadFiles(d) = Part(scan[a], d)
  BY <1>2 DEF Holds
<1>4. Recorded(d, Part(scan[a], d), NoOne) = versions[d]
  BY <1>3, HeadFacts DEF Recorded
<1> QED
  BY <1>1, <1>3, <1>4 DEF Stored

LEMMA FolderRecorded ==
    ASSUME TypeOK, Stored, Owners, Synced, PickedUp, Next, local, Heard, unheard' \subseteq {"change"},
           process' # "down", ~event', pc'[Watcher] = "idle",
           \A c \in Client : pc'[c] \notin {"commit", "scan again", "record again"},
           NEW d \in Doc
    PROVE  HoldsThen(disk', d)
<1>0. /\ ActorTypes /\ disk \in Files /\ writes \in 0 .. MaxWrites
      /\ Watcher \in Actor /\ Watcher \notin Client /\ \A c \in Client : c \in Actor
  BY ActorAssumption DEF TypeOK, Owners, ActorTypes, Actor
<1>h. ASSUME ~Sought, UNCHANGED <<archived, disk>>, versions'[d] = versions[d] PROVE HoldsThen(disk', d)
  <2>1. Holds(disk, d)
    BY <1>h DEF PickedUp, Sought
  <2> QED
    BY <1>h, <2>1 DEF HoldsThen, Holds, HeadFiles, HeadOf, NewHead
<1>1. ASSUME NEW f \in File, EditDisk(f) PROVE FALSE
  <2>1. process' = process /\ pc' = pc
    BY <1>1 DEF EditDisk, actors
  <2> QED
    BY <1>1, <2>1, EditHeard
<1>2. CASE Watch \/ UNCHANGED vars
  <2>1. UNCHANGED <<versions, archived, disk, process, event, pc>>
    BY <1>2 DEF Watch, vars, store, owner, actors
  <2> QED
    BY <1>h, <2>1 DEF Sought
<1>3. ~Stop
  BY DEF Stop
\* A client that is before its commit, while nobody seeks.
<1>4. ASSUME NEW c \in Client, Acts(c), pc[c] \notin {"commit", "scan again", "record again"}, event' = event
      PROVE  ~Sought
  <2>1. process = "up"
    BY <1>0, <1>4, ClientLeaves
  <2>2. \A b \in Actor \ {c} : pc'[b] = pc[b]
    BY <1>0, <1>4, OthersStay
  <2> QED
    BY <1>0, <1>4, <2>1, <2>2 DEF Sought
<1>5. ASSUME NEW c \in Client, Acts(c) PROVE HoldsThen(disk', d)
  <2>1. CASE Scan(c)
    <3>1. pc[c] = "scan" /\ UNCHANGED <<versions, archived, disk, event>>
      BY <1>0, <2>1 DEF Scan, GoTo, ActorTypes, store, owner
    <3> QED
      BY <1>4, <1>5, <1>h, <3>1
  <2>2. ASSUME NEW e \in Doc, RecordDoc(c, e) PROVE HoldsThen(disk', d)
    <3>1. InSync(c) /\ pc[c] = pc'[c] /\ UNCHANGED <<disk, event>>
      BY <2>2 DEF RecordDoc, owner
    <3>2. ~Sought
      BY <1>4, <1>5, <3>1
    <3>3. disk = scan[c] /\ \A x \in Doc : Holds(disk, x)
      BY <1>0, <3>1, <3>2 DEF PickedUp, Sought
    <3>4. UNCHANGED archived /\ versions'[d] = versions[d]
      BY <1>0, <2>2, <3>3, RecordRecords
    <3> QED
      BY <1>h, <3>1, <3>2, <3>4
  <2>3. CASE Archive(c)
    <3>1. InSync(c) /\ UNCHANGED <<disk, event>>
      BY <2>3 DEF Archive
    <3>2. disk' = scan[c]
      BY <1>0, <3>1 DEF PickedUp
    <3> QED
      BY <1>0, <2>3, <3>2, ArchiveRecords
  <2>4. ~SyncFails(c)
    <3> SUFFICES ASSUME SyncFails(c) PROVE FALSE
      OBVIOUS
    <3>1. FailureGoes(c) /\ event' = event
      BY DEF SyncFails
    <3> QED
      BY <1>0, <3>1, FailureHeard
  <2>5. CASE Ask(c) \/ Begin(c) \/ Check(c)
    <3>1. /\ UNCHANGED <<versions, archived, disk, event>>
          /\ pc[c] \notin {"commit", "scan again", "record again"}
      BY <2>5 DEF Ask, Begin, Check, store, owner
    <3> QED
      BY <1>4, <1>5, <1>h, <3>1
  <2>6. CASE Persist(c)
    <3>1. /\ UNCHANGED <<versions, archived, disk, event>>
          /\ pc[c] \notin {"commit", "scan again", "record again"}
      BY <1>0, <2>6 DEF Persist, GoTo, ActorTypes, store
    <3> QED
      BY <1>4, <1>5, <1>h, <3>1
  <2>7. ~Commit(c)
    BY <1>0 DEF Commit, GoTo, ActorTypes
  <2>8. ~CommitFails(c)
    <3> SUFFICES ASSUME CommitFails(c) PROVE FALSE
      OBVIOUS
    <3>1. FailureGoes(c) /\ event' = event
      BY DEF CommitFails, owner
    <3> QED
      BY <1>0, <3>1, FailureHeard
  <2> QED
    BY <1>0, <1>5, <2>1, <2>2, <2>3, <2>4, <2>5, <2>6, <2>7, <2>8 DEF Acts
<1>6. CASE Acts(Watcher)
  <2>1. CASE Archive(Watcher)
    <3>1. InSync(Watcher) /\ UNCHANGED <<disk, event>>
      BY <2>1 DEF Archive
    <3>2. disk' = scan[Watcher]
      BY <1>0, <3>1 DEF PickedUp
    <3> QED
      BY <1>0, <2>1, <3>2, ArchiveRecords
  <2>2. ~SyncFails(Watcher)
    <3> SUFFICES ASSUME SyncFails(Watcher) PROVE FALSE
      OBVIOUS
    <3>1. process # "up"
      BY <1>0, FailureHeard DEF SyncFails
    <3>2. process = "starting"
      BY <1>0, <3>1 DEF SyncFails, InSync, TypeOK, Owners
    <3> QED
      BY <3>2 DEF SyncFails
  <2>3. ~(Scan(Watcher) \/ (\E e \in Doc : RecordDoc(Watcher, e)) \/ WatchFires \/ Start)
    BY <1>0 DEF Scan, RecordDoc, InSync, WatchFires, Start, GoTo, ActorTypes
  <2> QED
    BY <1>0, <1>6, <2>1, <2>2, <2>3 DEF Acts
<1> QED
  BY <1>1, <1>2, <1>3, <1>5, <1>6, StepKinds DEF Actor

LEMMA PickedUpStep ==
    TypeOK /\ Stored /\ Owners /\ Synced /\ PickedUp /\ Next => PickedUp'
<1> SUFFICES ASSUME TypeOK, Stored, Owners, Synced, PickedUp, Next, local', unheard' \subseteq {"change"}
             PROVE  /\ ~event' => \A a \in Actor : pc'[a] \in {"record", "record again"} => disk' = scan'[a]
                    /\ \/ process' = "down"
                       \/ event'
                       \/ pc'[Watcher] # "idle"
                       \/ \E c \in Client : pc'[c] \in {"commit", "scan again", "record again"}
                       \/ \A d \in Doc : HoldsThen(disk', d)
  BY DEF PickedUp, Heard, InSync, Holds, HoldsThen, HeadFiles, HeadOf, NewHead, Part, FilesOf
<1>1. local /\ Heard
  BY LocalStays, UnheardGrows DEF Heard
<1> QED
  BY <1>1, ScanFresh, FolderRecorded

-----------------------------------------------------------------------------
(* The invariant. *)

LEMMA OneElement ==
    ASSUME NEW T, NEW x \in T, NEW s, s = <<x>>
    PROVE  s \in Seq(T) /\ Len(s) = 1 /\ s[1] = x /\ DOMAIN s = 1 .. 1
OBVIOUS

LEMMA InitIInv == Init => IInv
<1> SUFFICES ASSUME Init PROVE IInv
  OBVIOUS
<1> DEFINE zero == [f \in File |-> 0]
<1>0. /\ Watcher \in Actor /\ Watcher \notin Client /\ NoOne \notin Actor /\ \A c \in Client : c \in Actor
      /\ zero \in Files /\ 0 \in 0 .. MaxWrites
  <2>1. 0 \in 0 .. MaxWrites
    BY BoundsAssumption
  <2> QED
    BY <2>1, ActorAssumption, FilesFacts DEF Actor, Files
<1>1. ASSUME NEW d \in Doc
      PROVE  /\ Part(zero, d) \in [FilesOf(d) -> Content]
             /\ versions[d] = <<[files |-> Part(zero, d), wrote |-> NoOne]>>
             /\ [files |-> Part(zero, d), wrote |-> NoOne] \in Version(d)
  <2>1. Part(zero, d) \in [FilesOf(d) -> Content]
    BY <1>0, FilesFacts
  <2>2. versions[d] = <<[files |-> Part(zero, d), wrote |-> NoOne]>>
    BY DEF Init
  <2> HIDE DEF zero
  <2> QED
    BY <2>1, <2>2 DEF Version
<1>2. ASSUME NEW d \in Doc
      PROVE  /\ versions[d] \in Seq(Version(d)) /\ HeadOf(d) = 1 /\ DOMAIN versions[d] = 1 .. 1
             /\ HeadFiles(d) = Part(zero, d) /\ versions[d][1] = [files |-> Part(zero, d), wrote |-> NoOne]
  <2> DEFINE v == [files |-> Part(zero, d), wrote |-> NoOne]
  <2>1. v \in Version(d) /\ versions[d] = <<v>> /\ v.files = Part(zero, d)
    BY <1>1
  <2>2. versions[d] \in Seq(Version(d)) /\ Len(versions[d]) = 1 /\ versions[d][1] = v /\ DOMAIN versions[d] = 1 .. 1
    <3> HIDE DEF v
    <3> QED
      BY <2>1, OneElement
  <2> QED
    BY <2>1, <2>2 DEF HeadOf, HeadFiles
<1>3. /\ local \in BOOLEAN /\ disk = zero /\ archived = {} /\ process = "up" /\ watching = local /\ event = FALSE
      /\ mu = NoOne /\ pc = [a \in Actor |-> "idle"] /\ op = [c \in Client |-> NoOp]
      /\ scan = [a \in Actor |-> NoFiles] /\ left = [a \in Actor |-> {}]
      /\ overwrote = FALSE /\ unheard = {} /\ writes = 0
  BY ModesAssumption DEF Init
<1>4. Stored
  BY <1>2 DEF Init, Stored
<1>5. TypeOK
  <2>1. \A d \in Doc : \A n \in DOMAIN versions[d] :
         /\ versions[d][n].files \in [FilesOf(d) -> Content]
         /\ versions[d][n].wrote \in FilesOf(d) \cup {NoOne}
    <3> SUFFICES ASSUME NEW d \in Doc, NEW n \in DOMAIN versions[d] PROVE versions[d][n] \in Version(d)
      BY DEF Version
    <3>0. n \in 1 .. 1
      BY <1>2
    <3>1. n = 1
      BY <3>0
    <3> HIDE DEF zero
    <3> QED
      BY <1>1, <1>2, <3>1
  <2>2. \A a \in Actor : mu = a <=> pc[a] \notin {"idle", "asked"}
    BY <1>0, <1>3
  <2>3. pc \in [Actor -> Steps] /\ scan \in [Actor -> Files] /\ left \in [Actor -> SUBSET Doc]
    BY <1>3, FilesFacts DEF Steps
  <2> HIDE DEF zero
  <2> QED
    BY <1>0, <1>3, <2>1, <2>2, <2>3 DEF TypeOK
<1>6. Owners
  <2>1. NoOp \in Change
    BY <1>0, FilesFacts DEF NoOp, Change
  <2>2. op \in [Client -> Change]
    <3> HIDE DEF NoOp
    <3> QED
      BY <1>3, <2>1
  <2> QED
    BY <1>0, <1>3, <2>2 DEF Owners
<1>7. Asked /\ Synced /\ Unseen
  BY <1>0, <1>3 DEF Asked, Synced, Unseen, InSync
<1>8. \A d \in Doc : Holds(disk, d)
  <2> SUFFICES ASSUME NEW d \in Doc PROVE Holds(disk, d)
    OBVIOUS
  <2>1. disk[d] # NoFile
    BY <1>3, FilesFacts, NoFileAssumption DEF File
  <2> HIDE DEF zero
  <2> QED
    BY <1>2, <1>3, <2>1 DEF Holds
<1>9. PickedUp
  BY <1>3, <1>8 DEF PickedUp, InSync
<1>10. ChangeIsOneFile
  <2> SUFFICES ASSUME NEW d \in Doc, NEW n \in DOMAIN versions[d], n > 1 PROVE FALSE
    BY DEF ChangeIsOneFile
  <2>1. n \in 1 .. 1
    BY <1>2
  <2> QED
    BY <2>1
<1>11. AssetsAgree
  <2> SUFFICES ASSUME NEW d \in Doc, NEW e \in Doc PROVE HeadFiles(d)[Asset] = HeadFiles(e)[Asset]
    BY DEF AssetsAgree
  <2>1. HeadFiles(d)[Asset] = 0 /\ HeadFiles(e)[Asset] = 0
    BY <1>2, FilesFacts DEF Part
  <2> QED
    BY <2>1
<1>12. ScannedIsNotOverwritten
  BY <1>3 DEF ScannedIsNotOverwritten
<1> QED
  BY <1>4, <1>5, <1>6, <1>7, <1>9, <1>10, <1>11, <1>12 DEF IInv

LEMMA NextIInv == IInv /\ [Next]_vars => IInv'
<1>1. IInv /\ Next => IInv'
  <2> SUFFICES ASSUME IInv, Next PROVE IInv'
    OBVIOUS
  <2>1. ActorTypes
    BY DEF IInv, TypeOK, Owners, ActorTypes
  <2> QED
    BY <2>1, StoredStep, OneFileStep, AssetsStep, OwnersStep, AskedStep, SyncedStep, UnseenStep,
       OverwroteStep, PickedUpStep DEF IInv
<1>2. IInv /\ UNCHANGED vars => IInv'
  <2> SUFFICES ASSUME IInv, UNCHANGED vars PROVE IInv'
    OBVIOUS
  <2>1. UNCHANGED <<local, disk, versions, archived, process, watching, event, mu, pc, op, scan, left,
                    overwrote, unheard, writes>>
    BY DEF vars, store, owner, actors, history, counters
  <2>2. TypeOK' /\ Stored' /\ Owners'
    BY <2>1 DEF IInv, TypeOK, Stored, Owners, HeadOf
  <2>3. Asked' /\ Synced' /\ Unseen'
    BY <2>1 DEF IInv, Asked, Synced, Unseen, InSync, Holds, HeadFiles, HeadOf
  <2>4. PickedUp'
    BY <2>1 DEF IInv, PickedUp, Heard, InSync, Holds, HeadFiles, HeadOf
  <2>5. ChangeIsOneFile' /\ AssetsAgree' /\ ScannedIsNotOverwritten'
    BY <2>1 DEF IInv, ChangeIsOneFile, AssetsAgree, ScannedIsNotOverwritten, HeadFiles, HeadOf
  <2> QED
    BY <2>2, <2>3, <2>4, <2>5 DEF IInv
<1> QED
  BY <1>1, <1>2

LEMMA Invariant == Spec => []IInv
BY InitIInv, NextIInv, PTL DEF Spec

\* Every variable keeps its type, and one actor at a time is in Service.mu.
THEOREM TypeCorrect == Spec => []TypeOK
<1>1. IInv => TypeOK
  BY DEF IInv
<1> QED
  BY <1>1, Invariant, PTL

\* A save changes the file it wrote and takes back nothing of any other version (change).
THEOREM ChangesAreOneFile == Spec => []ChangeIsOneFile
<1>1. IInv => ChangeIsOneFile
  BY DEF IInv
<1> QED
  BY <1>1, Invariant, PTL

\* A save overwrites an edit that no version holds only when the edit came between the
\* scan of the save and its write (change, Persist).
THEOREM NoUnseenOverwrite == Spec => []ScannedIsNotOverwritten
<1>1. IInv => ScannedIsNotOverwritten
  BY DEF IInv
<1> QED
  BY <1>1, Invariant, PTL

\* In hosted mode the docs of a bundle keep one asset (changeVersions).
THEOREM HostedAssetsAgree == Spec => []AssetsAgree
<1>1. IInv => AssetsAgree
  BY DEF IInv
<1> QED
  BY <1>1, Invariant, PTL

\* When everybody is done, the store holds the folder, unless it changed before the watch
\* or a sync of the watch failed (Sync, watch).
THEOREM FolderIsRecorded == Spec => []RecordedAtRest
<1>1. IInv => RecordedAtRest
  <2> SUFFICES ASSUME IInv, Quiet, local, Heard, NEW d \in Doc PROVE Holds(disk, d)
    BY DEF RecordedAtRest, Heard, Holds
  <2>1. Watcher \in Actor /\ \A c \in Client : c \in Actor
    BY DEF Actor
  <2>2. process # "down" /\ ~event /\ \A a \in Actor : pc[a] = "idle"
    BY DEF Quiet
  <2>3. \A c \in Client : pc[c] \notin {"commit", "scan again", "record again"}
    BY <2>1, <2>2
  <2> QED
    BY <2>1, <2>2, <2>3 DEF IInv, PickedUp
<1> QED
  BY <1>1, Invariant, PTL
=============================================================================
