----------------------------- MODULE BundleFolder -----------------------------
(***************************************************************************)
(* The versions of the spec docs of one bundle (internal/features/bundle,  *)
(* internal/features/version): a folder with a main file for each doc and  *)
(* an asset that all of them hold.                                         *)
(*                                                                         *)
(* In local mode the folder is on disk, and people edit it with their own  *)
(* tools.  Sync scans it and records a version of each doc whose files     *)
(* changed; the owner of the folder syncs when it starts and after each    *)
(* event of its watch.  Change, a save in the app, syncs first, writes the *)
(* file, records the version, and syncs again.  In hosted mode there is no *)
(* disk, and a change of the asset makes a version of each doc in one      *)
(* transaction.                                                            *)
(*                                                                         *)
(* Every write has a content of its own, and people can restore the first  *)
(* one.  Titles, types, refs, renames and nested folders are left out.     *)
(* What follows a change (lint, waivers, approvals) is in CurrentVerdict,  *)
(* WaiverSidecar and Approval.                                             *)
(***************************************************************************)
EXTENDS Naturals, Sequences

CONSTANTS
    Client,     \* the requests that the process handles at one time
    Watcher,    \* the watch of the folder, and the sync at the start
    NoOne,
    Doc,        \* the spec docs; the main file of a doc bears its name
    Asset,      \* the file that every doc holds
    NoFile,     \* the content of a file that is not there
    Modes,      \* the modes of the process: whether it is local, or hosted
    MaxWrites,  \* bound on the writes, of people and of the app
    MaxTroubles \* bound on the stops of the process and the transactions that fail

ASSUME ActorAssumption == Watcher \notin Client /\ NoOne \notin Client \cup {Watcher}
ASSUME AssetAssumption == Asset \notin Doc
ASSUME NoFileAssumption == NoFile \notin Nat
ASSUME ModesAssumption == Modes \subseteq BOOLEAN
ASSUME BoundsAssumption == MaxWrites \in Nat /\ MaxTroubles \in Nat

VARIABLES
    local,      \* the mode, which does not change
    disk,       \* the content of each file of the folder
    versions,   \* the versions of each doc; the last one is the head
    archived,   \* the docs whose main file is gone
    process,    \* the process: down, starting, up
    watching,   \* whether the watch runs
    event,      \* whether the watch has an event to answer
    mu,         \* who holds Service.mu
    pc,         \* where each actor is
    op,         \* the change that each client asks for
    scan,       \* the files that each actor's last scan found
    left,       \* the docs of the scan that are still to be recorded
    overwrote,  \* history: a change overwrote an edit that no version holds
    unheard,    \* history: the moments at which the folder changed unheard
    writes,     \* how many writes there were
    troubles    \* how many stops and failed transactions

store == <<versions, archived>>
owner == <<process, watching, event>>
actors == <<mu, pc, op, scan, left>>
history == <<overwrote, unheard>>
counters == <<writes, troubles>>
vars == <<local, disk, store, owner, actors, history, counters>>

Actor == Client \cup {Watcher}

File == Doc \cup {Asset}

Content == 0 .. MaxWrites \cup {NoFile}

Files == [File -> Content]

Steps == {"idle", "asked", "scan", "record", "check", "persist", "commit", "scan again",
          "record again"}

FilesOf(d) == {d, Asset}

\* The files of doc d among the files of the folder.
Part(fs, d) == [f \in FilesOf(d) |-> fs[f]]

HeadOf(d) == Len(versions[d])

HeadFiles(d) == versions[d][HeadOf(d)].files

NoOp == [doc |-> NoOne, file |-> NoOne, content |-> 0, base |-> 0]

NoFiles == [f \in File |-> NoFile]

Init ==
    /\ local \in Modes
    /\ disk = [f \in File |-> 0]
    /\ versions = [d \in Doc |-> <<[files |-> Part([f \in File |-> 0], d), wrote |-> NoOne]>>]
    /\ archived = {}
    /\ process = "up"
    /\ watching = local
    /\ event = FALSE
    /\ mu = NoOne
    /\ pc = [a \in Actor |-> "idle"]
    /\ op = [c \in Client |-> NoOp]
    /\ scan = [a \in Actor |-> NoFiles]
    /\ left = [a \in Actor |-> {}]
    /\ overwrote = FALSE
    /\ unheard = {}
    /\ writes = 0
    /\ troubles = 0

GoTo(a, step) == pc' = [pc EXCEPT ![a] = step]

Forget(a) ==
    /\ scan' = [scan EXCEPT ![a] = NoFiles]
    /\ left' = [left EXCEPT ![a] = {}]

\* The call ends, and with it what the actor had in memory.
Return(a) ==
    /\ mu' = NoOne
    /\ GoTo(a, "idle")
    /\ op' = [c \in Client |-> IF c = a THEN NoOp ELSE op[c]]
    /\ Forget(a)

-----------------------------------------------------------------------------
(* People edit the folder with other tools. *)

\* The folder changes, and the watch, when it runs, gets an event.
Signal == event' = watching

Moments == {"start", "change", "sync"}

\* A person writes after the scan of a process that starts and before its watch
\* runs ("start"); after the scan of a change and before its write ("change").
EditGoes ==
    unheard' = unheard \cup {moment \in Moments :
        CASE moment = "start" -> process # "down" /\ ~watching /\ pc[Watcher] # "scan"
          [] moment = "change" -> \E c \in Client : pc[c] \in {"record", "check", "persist"}
          [] moment = "sync" -> FALSE}

\* A transaction of the watch's sync fails ("sync"), or one of a change does and
\* no event waits for what the change wrote, which was before the watch ("start").
FailureGoes(a) ==
    unheard' = unheard \cup {moment \in Moments :
        CASE moment = "sync" -> a = Watcher /\ process = "up"
          [] moment = "start" -> a \in Client /\ ~event
          [] moment = "change" -> FALSE}

\* A file is written, removed, or restored as it was at first.
EditDisk(f) ==
    /\ local
    /\ writes < MaxWrites
    /\ writes' = writes + 1
    /\ \E x \in {writes + 1, 0, NoFile} \ {disk[f]} : disk' = [disk EXCEPT ![f] = x]
    /\ Signal
    /\ EditGoes
    /\ UNCHANGED <<local, store, process, watching, actors, overwrote, troubles>>

-----------------------------------------------------------------------------
(* syncLocked: scan, one transaction for each doc, then the archive. *)

\* version.Record: a version when the files differ from the head's.
Recorded(d, fs, wrote) ==
    IF versions[d] # << >> /\ HeadFiles(d) = fs
      THEN versions[d]
      ELSE Append(versions[d], [files |-> fs, wrote |-> wrote])

Scan(a) ==
    /\ \/ pc[a] = "scan" /\ GoTo(a, "record")
       \/ pc[a] = "scan again" /\ GoTo(a, "record again")
    /\ scan' = [scan EXCEPT ![a] = disk]
    /\ left' = [left EXCEPT ![a] = {d \in Doc : disk[d] # NoFile}]
    /\ UNCHANGED <<local, disk, store, owner, mu, op, history, counters>>

InSync(a) == pc[a] \in {"record", "record again"}

\* Mutant: a doc that comes back keeps its archived mark when its files are
\* as they were.
RecordDocStillArchived(a, d) ==
    /\ InSync(a)
    /\ d \in left[a]
    /\ versions' = [versions EXCEPT ![d] = Recorded(d, Part(scan[a], d), NoOne)]
    /\ archived' = IF versions'[d] = versions[d] THEN archived ELSE archived \ {d}
    /\ left' = [left EXCEPT ![a] = @ \ {d}]
    /\ UNCHANGED <<local, disk, owner, mu, pc, op, scan, history, counters>>

RecordDoc(a, d) ==
    /\ InSync(a)
    /\ d \in left[a]
    /\ versions' = [versions EXCEPT ![d] = Recorded(d, Part(scan[a], d), NoOne)]
    /\ archived' = archived \ {d}
    /\ left' = [left EXCEPT ![a] = @ \ {d}]
    /\ UNCHANGED <<local, disk, owner, mu, pc, op, scan, history, counters>>

\* The docs that the scan did not find are archived, and the sync ends.
Archive(a) ==
    /\ InSync(a)
    /\ left[a] = {}
    /\ archived' = archived \cup {d \in Doc : scan[a][d] = NoFile}
    /\ \/ /\ a \in Client /\ pc[a] = "record"
          /\ GoTo(a, "check")
          /\ UNCHANGED <<mu, op, scan, left>>
       \/ /\ a = Watcher \/ pc[a] = "record again"
          /\ Return(a)
    /\ process' = IF a = Watcher THEN "up" ELSE process
    /\ UNCHANGED <<local, disk, versions, watching, event, history, counters>>

\* A transaction of the sync fails: the call returns an error.  A process that
\* starts ends with it.
SyncFails(a) ==
    /\ InSync(a)
    /\ troubles < MaxTroubles
    /\ troubles' = troubles + 1
    /\ Return(a)
    /\ process' = IF process = "starting" THEN "down" ELSE process
    /\ FailureGoes(a)
    /\ UNCHANGED <<local, disk, store, watching, event, overwrote, writes>>

\* The watch answers its events with one Sync, once the folder is quiet.
WatchFires ==
    /\ event
    /\ pc[Watcher] = "idle"
    /\ mu = NoOne
    /\ event' = FALSE
    /\ mu' = Watcher
    /\ GoTo(Watcher, "scan")
    /\ UNCHANGED <<local, disk, store, process, watching, op, scan, left, history, counters>>

-----------------------------------------------------------------------------
(* Change. *)

\* A client has the head of a doc open, and saves a file over it or deletes
\* the asset.  The main file of another doc is refused (siblings).
Ask(c) ==
    /\ process = "up"
    /\ pc[c] = "idle"
    /\ writes < MaxWrites
    /\ writes' = writes + 1
    /\ \E d \in Doc \ archived : \E f \in FilesOf(d) : \E x \in {writes + 1, NoFile} :
         /\ x = NoFile => f = Asset
         /\ op' = [op EXCEPT ![c] = [doc |-> d, file |-> f, content |-> x, base |-> HeadOf(d)]]
    /\ GoTo(c, "asked")
    /\ UNCHANGED <<local, disk, store, owner, mu, scan, left, history, troubles>>

\* Mutant: Change does not sync first.
BeginNoSync(c) ==
    /\ pc[c] = "asked"
    /\ mu = NoOne
    /\ mu' = c
    /\ GoTo(c, "check")
    /\ UNCHANGED <<local, disk, store, owner, op, scan, left, history, counters>>

\* Change takes the mutex; a local doc is synced first.
Begin(c) ==
    /\ pc[c] = "asked"
    /\ mu = NoOne
    /\ mu' = c
    /\ GoTo(c, IF local THEN "scan" ELSE "check")
    /\ UNCHANGED <<local, disk, store, owner, op, scan, left, history, counters>>

\* Apply: a file that is not there cannot be deleted.
Applies(o) == o.content = NoFile => versions[o.doc][o.base].files[o.file] # NoFile

\* Mutant: the base is not compared with the head.
CheckAnyBase(c) ==
    /\ pc[c] = "check"
    /\ IF op[c].doc \notin archived /\ Applies(op[c])
         THEN GoTo(c, IF local THEN "persist" ELSE "commit") /\ UNCHANGED <<mu, op, scan, left>>
         ELSE Return(c)
    /\ UNCHANGED <<local, disk, store, owner, history, counters>>

\* The doc is there, its head is the base of the change, and the change applies.
Check(c) ==
    /\ pc[c] = "check"
    /\ IF op[c].doc \notin archived /\ op[c].base = HeadOf(op[c].doc) /\ Applies(op[c])
         THEN GoTo(c, IF local THEN "persist" ELSE "commit") /\ UNCHANGED <<mu, op, scan, left>>
         ELSE Return(c)
    /\ UNCHANGED <<local, disk, store, owner, history, counters>>

\* Persist writes the file to disk, or removes it; a file that is gone cannot
\* be removed.
Persist(c) ==
    /\ pc[c] = "persist"
    /\ IF op[c].content = NoFile /\ disk[op[c].file] = NoFile
         THEN Return(c) /\ UNCHANGED <<disk, event, overwrote>>
         ELSE /\ disk' = [disk EXCEPT ![op[c].file] = op[c].content]
              /\ Signal
              /\ overwrote' = (overwrote \/ disk[op[c].file] # HeadFiles(op[c].doc)[op[c].file])
              /\ GoTo(c, "commit")
              /\ UNCHANGED <<mu, op, scan, left>>
    /\ UNCHANGED <<local, store, process, watching, unheard, counters>>

\* The files of doc d after change o.
Applied(o, d) == [versions[d][IF d = o.doc THEN o.base ELSE HeadOf(d)].files
                    EXCEPT ![o.file] = o.content]

\* Mutant: an asset is changed in its own doc only.
ChangedDocsAlone(o) == {o.doc}

\* The docs whose version the transaction makes: in hosted mode an asset is
\* changed in every doc of the bundle.
ChangedDocs(o) == IF ~local /\ o.file = Asset THEN Doc ELSE {o.doc}

\* One transaction.  A local doc is synced once more, for the other docs of
\* the folder.
Commit(c) ==
    /\ pc[c] = "commit"
    /\ versions' = [d \in Doc |-> IF d \in ChangedDocs(op[c])
                                    THEN Recorded(d, Applied(op[c], d), op[c].file)
                                    ELSE versions[d]]
    /\ archived' = archived \ {op[c].doc}
    /\ IF local
         THEN GoTo(c, "scan again") /\ UNCHANGED <<mu, op, scan, left>>
         ELSE Return(c)
    /\ UNCHANGED <<local, disk, owner, history, counters>>

CommitFails(c) ==
    /\ pc[c] = "commit"
    /\ troubles < MaxTroubles
    /\ troubles' = troubles + 1
    /\ Return(c)
    /\ FailureGoes(c)
    /\ UNCHANGED <<local, disk, store, owner, overwrote, writes>>

-----------------------------------------------------------------------------
(* The process stops and starts. *)

Stop ==
    /\ process # "down"
    /\ troubles < MaxTroubles
    /\ troubles' = troubles + 1
    /\ process' = "down"
    /\ watching' = FALSE
    /\ event' = FALSE
    /\ mu' = NoOne
    /\ pc' = [a \in Actor |-> "idle"]
    /\ op' = [c \in Client |-> NoOp]
    /\ scan' = [a \in Actor |-> NoFiles]
    /\ left' = [a \in Actor |-> {}]
    /\ UNCHANGED <<local, disk, store, history, writes>>

\* app.New syncs the folder before anything else.
Start ==
    /\ process = "down"
    /\ IF local
         THEN process' = "starting" /\ mu' = Watcher /\ GoTo(Watcher, "scan")
         ELSE process' = "up" /\ UNCHANGED <<mu, pc>>
    /\ UNCHANGED <<local, disk, store, watching, event, op, scan, left, history, counters>>

\* Then the owner watches the folder.
Watch ==
    /\ local
    /\ process = "up"
    /\ ~watching
    /\ watching' = TRUE
    /\ UNCHANGED <<local, disk, store, process, event, actors, history, counters>>

Quiet ==
    /\ process = "up"
    /\ watching = local
    /\ ~event
    /\ \A a \in Actor : pc[a] = "idle"

\* Nobody asks for anything.
Rest == Quiet /\ UNCHANGED vars

Next ==
    \/ \E f \in File : EditDisk(f)
    \/ \E a \in Actor :
         \/ Scan(a)
         \/ \E d \in Doc : RecordDoc(a, d)
         \/ Archive(a)
         \/ SyncFails(a)
    \/ WatchFires
    \/ \E c \in Client :
         \/ Ask(c)
         \/ Begin(c)
         \/ Check(c)
         \/ Persist(c)
         \/ Commit(c)
         \/ CommitFails(c)
    \/ Stop
    \/ Start
    \/ Watch
    \/ Rest

Spec == Init /\ [][Next]_vars

-----------------------------------------------------------------------------
(* Properties. *)

\* Every variable has its type, and the mutex is held exactly by the actor
\* that syncs or changes.
TypeOK ==
    /\ disk \in Files
    /\ \A d \in Doc : \A n \in DOMAIN versions[d] :
         /\ versions[d][n].files \in [FilesOf(d) -> Content]
         /\ versions[d][n].wrote \in FilesOf(d) \cup {NoOne}
    /\ archived \subseteq Doc
    /\ process \in {"down", "starting", "up"}
    /\ watching \in BOOLEAN /\ event \in BOOLEAN
    /\ unheard \subseteq Moments
    /\ pc \in [Actor -> Steps]
    /\ \A a \in Actor : mu = a <=> pc[a] \notin {"idle", "asked"}
    /\ scan \in [Actor -> Files]
    /\ left \in [Actor -> SUBSET Doc]

\* A version that a change made differs from the one before it in the file
\* that the change wrote and in no other: a save over an older base fails with
\* ErrConflict, so it never takes back what another save or an edit did.
ChangeIsOneFile ==
    \A d \in Doc : \A n \in DOMAIN versions[d] :
        LET v == versions[d][n]
        IN  v.wrote # NoOne /\ n > 1 =>
              \A f \in FilesOf(d) \ {v.wrote} : v.files[f] = versions[d][n - 1].files[f]

\* When nothing is under way, the head of each doc is what the folder holds,
\* and a doc is archived when its main file is gone: external changes create
\* versions (REQ-005), also those made while the process was down, and also
\* when it stopped between a write to the disk and its version.  This needs
\* that the folder did not change between the first scan of a process and its
\* watch, and that no sync of the watch failed.
RecordedAtRest ==
    Quiet /\ local /\ unheard \subseteq {"change"} => \A d \in Doc :
        IF disk[d] = NoFile THEN d \in archived
        ELSE d \notin archived /\ HeadFiles(d) = Part(disk, d)

\* "Pick up edits made on disk first, so a change never overwrites one it did
\* not see" (change): a save never overwrites an edit that no version holds, as
\* long as nobody writes between the scan of a change and its write.
ScannedIsNotOverwritten == overwrote => "change" \in unheard

\* In hosted mode an asset belongs to every spec doc of the bundle: a change to
\* it makes a version of each, or of none.
AssetsAgree ==
    ~local => \A d, e \in Doc : HeadFiles(d)[Asset] = HeadFiles(e)[Asset]
=============================================================================
