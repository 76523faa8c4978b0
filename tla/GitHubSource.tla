----------------------------- MODULE GitHubSource -----------------------------
(***************************************************************************)
(* A spec doc that comes from GitHub (internal/features/bundle/github.go   *)
(* and github_api.go): the sync of a source records what the branch holds, *)
(* a change in Speccy makes a draft, Publish opens a pull request with the *)
(* draft, and DiscardDraft drops it.                                       *)
(*                                                                         *)
(* The doc's row keeps its current version and a reference: the version    *)
(* that matches GitHub (published), the commit of that version, and        *)
(* whether GitHub moved on while there is a draft (ahead).  Only what      *)
(* writes a version holds the service's mutex.  A sync reads GitHub before *)
(* it takes the mutex and stores its commit on the source after it;        *)
(* Publish and DiscardDraft write back the reference that they read, and   *)
(* the removal of a source takes no mutex.  Handlers run between any two   *)
(* of these steps.                                                         *)
(*                                                                         *)
(* One doc, in the folder of every source; the folder of a source lies in  *)
(* those of the higher ones.  A commit or a version is its files, and a    *)
(* commit may have no spec doc at all (NoDoc).  Carried files, adopted     *)
(* types and the repo's configuration decide nothing here.                 *)
(***************************************************************************)
EXTENDS Integers, Sequences, FiniteSets

CONSTANTS
    Handler,        \* WatchGitHub and the API's handlers
    Depth,          \* a source is the depth of its folder: 1 .. Depth
    File, Text,
    NoDoc,
    FirstTree,      \* what the repo holds at first
    MaxCommits, MaxVersions, MaxRequests,
    MaxTroubles     \* handlers that fail part way

Tree == [File -> Text]

ASSUME DepthAssumption == Depth \in Nat \ {0}
ASSUME TreeAssumption == NoDoc \notin Tree /\ FirstTree \in Tree
ASSUME BoundsAssumption == {MaxCommits, MaxVersions, MaxRequests, MaxTroubles} \subseteq Nat /\ MaxCommits # 0

VARIABLES
    repo,       \* GitHub: the commits of the branch
    pulls,      \* GitHub: the open pull requests of Speccy
    source,     \* the rows of the sources
    versions,   \* the versions of the doc; a version is its number
    doc,        \* the doc's row; current = 0 while there is none
    handler,    \* where each handler is, and what it has read
    requests, troubles,
    races,      \* history: what was applied or written back too late
    newest      \* history: the newest commit that was applied

vars == <<repo, pulls, source, versions, doc, handler, requests, troubles, races, newest>>

Source == 1 .. Depth
Commit == 1 .. MaxCommits

NoRef == [source |-> 0, published |-> 0, commit |-> 0, ahead |-> FALSE]
NoRow == [current |-> 0, ref |-> NoRef, archived |-> FALSE]
Idle == [step |-> "idle", source |-> 0, force |-> FALSE, head |-> 0, failed |-> FALSE,
         commit |-> 0, taken |-> FALSE, row |-> NoRow]

Ref == [source : 0 .. Depth, published : 0 .. MaxVersions, commit : 0 .. MaxCommits, ahead : BOOLEAN]
Row == [current : 0 .. MaxVersions, ref : Ref, archived : BOOLEAN]

Live(s) == source[s].status = "live"

\* GitHubStateOf: the current version is a draft when it is not the published one.
Draft(row) == row.current # row.ref.published

\* diffChanges applied to a tree: the files that differ between two versions.
WithChanges(tree, from, to) == [f \in File |-> IF to[f] = from[f] THEN tree[f] ELSE to[f]]

\* version.Record: a version of its own, or the current one when nothing differs.
SameAsCurrent(row, tree) == row.current # 0 /\ versions[row.current].tree = tree

Recorded(row, tree) == IF SameAsCurrent(row, tree) THEN row.current ELSE Len(versions) + 1

VersionsWith(row, tree, by) ==
    IF SameAsCurrent(row, tree) THEN versions ELSE Append(versions, [tree |-> tree, by |-> by])

\* A handler is free to take a request, or the poll's next turn.
Requested(h) ==
    /\ handler[h].step = "idle"
    /\ requests < MaxRequests
    /\ requests' = requests + 1

Go(h, next) == handler' = [handler EXCEPT ![h] = next]

Init ==
    /\ repo = <<FirstTree>>
    /\ pulls = {}
    /\ source = [s \in Source |-> [status |-> "none", head |-> 0, failed |-> FALSE]]
    /\ versions = <<>>
    /\ doc = NoRow
    /\ handler = [h \in Handler |-> Idle]
    /\ requests = 0
    /\ troubles = 0
    /\ races = {}
    /\ newest = 0

-----------------------------------------------------------------------------
(* The sync of a source.                                                     *)

\* SyncSource: the row of the source, from the poll, from a person, or after another command.
Syncing(s, force) == [Idle EXCEPT !.step = "head", !.source = s, !.force = force,
                                  !.head = source[s].head, !.failed = source[s].failed]

StartSync(h, s) ==
    /\ Requested(h)
    /\ Live(s)
    /\ \E force \in BOOLEAN : Go(h, Syncing(s, force))
    /\ UNCHANGED <<repo, pulls, source, versions, doc, troubles, races, newest>>

\* Head: the branch's commit; nothing to do when the source is at it.
ReadHead(h) ==
    LET p == handler[h] IN
    /\ p.step = "head"
    /\ IF p.head = Len(repo) /\ ~p.failed /\ ~p.force
         THEN Go(h, Idle)
         ELSE Go(h, [p EXCEPT !.step = "apply", !.commit = Len(repo), !.force = FALSE, !.failed = FALSE])
    /\ UNCHANGED <<repo, pulls, source, versions, doc, requests, troubles, races, newest>>

\* fail: the error on the row, with the commit that the sync found on it.
SyncFails(h) ==
    LET p == handler[h] IN
    /\ p.step \in {"head", "apply"}
    /\ troubles < MaxTroubles
    /\ troubles' = troubles + 1
    /\ source' = [source EXCEPT ![p.source].head = p.head, ![p.source].failed = TRUE]
    /\ Go(h, Idle)
    /\ UNCHANGED <<repo, pulls, versions, doc, requests, races, newest>>

\* Another source that is still there holds the doc.
Taken(s) == doc.ref.source \notin {0, s} /\ Live(doc.ref.source)

AtCommit(s, version, commit) == [source |-> s, published |-> version, commit |-> commit, ahead |-> FALSE]

\* A doc with no draft, or a new one, follows GitHub.
FollowGitHub(s, commit) ==
    LET tree == repo[commit] IN
    /\ Recorded(doc, tree) <= MaxVersions
    /\ versions' = VersionsWith(doc, tree, "github")
    /\ doc' = [current |-> Recorded(doc, tree), archived |-> FALSE,
               ref |-> AtCommit(s, Recorded(doc, tree), commit)]

\* Mutant: the draft is overwritten.
KeepDraftNot(s, commit) == FollowGitHub(s, commit)

\* Mutant: the commit of the reference moves on without its version.
KeepDraftMovesCommit(s, commit) ==
    /\ doc' = [doc EXCEPT !.archived = FALSE, !.ref.source = s, !.ref.commit = commit, !.ref.ahead = TRUE]
    /\ UNCHANGED versions

\* Mutant: nothing says that GitHub moved on.
KeepDraftNeverAhead(s, commit) ==
    /\ doc' = [doc EXCEPT !.archived = FALSE,
               !.ref = IF versions[doc.current].tree = repo[commit]
                         THEN AtCommit(s, doc.current, commit)
                         ELSE [doc.ref EXCEPT !.source = s]]
    /\ UNCHANGED versions

\* A draft stays.  It is published when GitHub holds the same, and GitHub is
\* ahead when it no longer holds the published version.
KeepDraft(s, commit) ==
    LET differs == versions[doc.ref.published].tree # repo[commit] IN
    /\ doc' = [doc EXCEPT !.archived = FALSE,
               !.ref = IF versions[doc.current].tree = repo[commit]
                         THEN AtCommit(s, doc.current, commit)
                         ELSE [doc.ref EXCEPT !.source = s, !.ahead = @ \/ differs]]
    /\ UNCHANGED versions

\* A source that is gone, or on its way out.
Leaving(s) == ~Live(s) \/ \E h \in Handler : handler[h].step = "delete" /\ handler[h].source = s

\* applyGitHubScan, under the mutex: the doc of the scan in one transaction, or
\* the archive of a doc that the scan did not find.
Apply(h) ==
    LET p == handler[h]
        s == p.source
        found == repo[p.commit] # NoDoc
        taken == found /\ Taken(s)
    IN  /\ p.step = "apply"
        /\ \/ /\ found /\ ~taken /\ ~Draft(doc)
              /\ FollowGitHub(s, p.commit)
           \/ /\ found /\ ~taken /\ Draft(doc)
              /\ KeepDraft(s, p.commit)
           \/ /\ ~found
              /\ doc' = [doc EXCEPT !.archived = @ \/ doc.ref.source = s]
              /\ UNCHANGED versions
           \/ taken /\ UNCHANGED <<versions, doc>>
        /\ Go(h, [p EXCEPT !.step = "synced", !.taken = taken])
        /\ newest' = IF p.commit > newest THEN p.commit ELSE newest
        /\ races' = races \cup {r \in {"removed"} : Leaving(s)} \cup {r \in {"scan"} : p.commit < newest}
        /\ UNCHANGED <<repo, pulls, source, requests, troubles>>

\* SetGithubSourceSynced: the commit of the scan, or the error that another source holds the doc.
StoreSynced(h) ==
    LET p == handler[h] IN
    /\ p.step = "synced"
    /\ source' = [source EXCEPT ![p.source].head = IF p.taken THEN p.head ELSE p.commit,
                                ![p.source].failed = p.taken]
    /\ Go(h, Idle)
    /\ UNCHANGED <<repo, pulls, versions, doc, requests, troubles, races, newest>>

-----------------------------------------------------------------------------
(* Drafts: a change, Publish and DiscardDraft.                               *)

\* Service.Change of a file, based on the current version, under the mutex.
Change(h) ==
    /\ Requested(h)
    /\ doc.current # 0
    /\ Len(versions) < MaxVersions
    /\ LET tree == versions[doc.current].tree IN
       \E f \in File : \E t \in Text \ {tree[f]} :
           versions' = Append(versions, [tree |-> [tree EXCEPT ![f] = t], by |-> "person"])
    /\ doc' = [doc EXCEPT !.current = Len(versions) + 1]
    /\ UNCHANGED <<repo, pulls, source, handler, troubles, races, newest>>

\* Publish: the doc's row, its source and both versions.
StartPublish(h) ==
    /\ Requested(h)
    /\ Draft(doc)
    /\ Live(doc.ref.source)
    /\ Go(h, [Idle EXCEPT !.step = "publish", !.row = doc])
    /\ UNCHANGED <<repo, pulls, source, versions, doc, troubles, races, newest>>

\* Client.Publish: a branch with the draft's changes, on the commit of the published version.
OpenPull(h) ==
    LET row == handler[h].row
        draft == versions[row.current].tree
    IN  /\ handler[h].step = "publish"
        /\ pulls' = pulls \cup {[base |-> row.ref.commit, draft |-> draft,
                                 tree |-> WithChanges(repo[row.ref.commit], versions[row.ref.published].tree, draft)]}
        /\ Go(h, [handler[h] EXCEPT !.step = "record"])
        /\ UNCHANGED <<repo, source, versions, doc, requests, troubles, races, newest>>

\* SetSpecDocSourceRef: the reference that Publish read, with the pull request.
RecordPull(h) ==
    LET row == handler[h].row IN
    /\ handler[h].step = "record"
    /\ doc' = [doc EXCEPT !.ref = row.ref]
    /\ Go(h, Idle)
    /\ races' = races \cup {r \in {"reference"} : doc.ref # row.ref}
    /\ UNCHANGED <<repo, pulls, source, versions, requests, troubles, newest>>

\* DiscardDraft: the doc's row and the published version.
StartDiscard(h) ==
    /\ Requested(h)
    /\ Draft(doc)
    /\ Go(h, [Idle EXCEPT !.step = "discard", !.row = doc])
    /\ UNCHANGED <<repo, pulls, source, versions, doc, troubles, races, newest>>

\* The published version again, as a new one, under the mutex, unless the doc
\* has a newer version than was read.  When GitHub is ahead, a sync follows.
DiscardDraft(h) ==
    LET row == handler[h].row
        tree == versions[row.ref.published].tree
        new == Recorded(row, tree)
        conflict == ~SameAsCurrent(row, tree) /\ doc.current # row.current
    IN  /\ handler[h].step = "discard"
        /\ \/ /\ conflict
              /\ Go(h, Idle)
              /\ UNCHANGED <<versions, doc, races>>
           \/ /\ ~conflict
              /\ new <= MaxVersions
              /\ versions' = VersionsWith(row, tree, "person")
              /\ doc' = [doc EXCEPT !.current = IF SameAsCurrent(row, tree) THEN @ ELSE new,
                                    !.ref = [row.ref EXCEPT !.published = new]]
              /\ Go(h, IF row.ref.ahead /\ Live(row.ref.source) THEN Syncing(row.ref.source, TRUE) ELSE Idle)
              /\ races' = races \cup {r \in {"reference"} : doc.ref # row.ref}
        /\ UNCHANGED <<repo, pulls, source, requests, troubles, newest>>

\* A handler fails or is stopped when it has done the first part of its work.
Fail(h) ==
    /\ handler[h].step \in {"synced", "record", "delete"}
    /\ troubles < MaxTroubles
    /\ troubles' = troubles + 1
    /\ Go(h, Idle)
    /\ races' = races \cup {r \in {"removed"} : handler[h].step = "delete"}
    /\ UNCHANGED <<repo, pulls, source, versions, doc, requests, newest>>

-----------------------------------------------------------------------------
(* Sources come and go.                                                      *)

\* AddGithubSource: none when a source covers its folder; it takes the place of
\* the sources in its folder, and syncs.
AddSource(h, s) ==
    /\ Requested(h)
    /\ source[s].status = "none"
    /\ \A e \in Source : e >= s => ~Live(e)
    /\ source' = [e \in Source |->
           CASE e = s -> [status |-> "live", head |-> 0, failed |-> FALSE]
             [] e < s /\ Live(e) -> [source[e] EXCEPT !.status = "replaced"]
             [] OTHER -> source[e]]
    /\ Go(h, [Idle EXCEPT !.step = "head", !.source = s, !.force = TRUE])
    /\ UNCHANGED <<repo, pulls, versions, doc, troubles, races, newest>>

\* DeleteGithubSource: first its docs are archived, then its row goes.
ArchiveDocs(h, s) ==
    /\ Requested(h)
    /\ Live(s)
    /\ doc' = [doc EXCEPT !.archived = @ \/ doc.ref.source = s]
    /\ Go(h, [Idle EXCEPT !.step = "delete", !.source = s])
    /\ UNCHANGED <<repo, pulls, source, versions, troubles, races, newest>>

DeleteSource(h) ==
    /\ handler[h].step = "delete"
    /\ source' = [source EXCEPT ![handler[h].source].status = "removed"]
    /\ Go(h, Idle)
    /\ UNCHANGED <<repo, pulls, versions, doc, requests, troubles, races, newest>>

-----------------------------------------------------------------------------
(* GitHub.                                                                   *)

Push(tree) ==
    /\ Len(repo) < MaxCommits
    /\ tree # repo[Len(repo)]
    /\ repo' = Append(repo, tree)
    /\ UNCHANGED <<pulls, source, versions, doc, handler, requests, troubles, races, newest>>

\* A merge takes each file that the pull request changes, and only if the branch
\* did not change it too.
Merge(pull) ==
    LET head == repo[Len(repo)]
        base == repo[pull.base]
    IN  /\ Len(repo) < MaxCommits
        /\ head # NoDoc
        /\ \A f \in File : pull.tree[f] # base[f] => head[f] \in {base[f], pull.tree[f]}
        /\ repo' = Append(repo, WithChanges(head, base, pull.tree))
        /\ pulls' = pulls \ {pull}
        /\ UNCHANGED <<source, versions, doc, handler, requests, troubles, races, newest>>

Next ==
    \/ \E h \in Handler :
           \/ \E s \in Source : StartSync(h, s) \/ AddSource(h, s) \/ ArchiveDocs(h, s)
           \/ ReadHead(h) \/ SyncFails(h) \/ Apply(h) \/ StoreSynced(h)
           \/ Change(h) \/ StartPublish(h) \/ OpenPull(h) \/ RecordPull(h)
           \/ StartDiscard(h) \/ DiscardDraft(h) \/ DeleteSource(h) \/ Fail(h)
    \/ \E tree \in Tree \cup {NoDoc} : Push(tree)
    \/ \E pull \in pulls : Merge(pull)

Spec == Init /\ [][Next]_vars

-----------------------------------------------------------------------------
(* Properties.                                                               *)

TypeOK ==
    /\ repo \in Seq(Tree \cup {NoDoc}) /\ Len(repo) \in Commit
    /\ pulls \subseteq [base : Commit, draft : Tree, tree : Tree]
    /\ source \in [Source -> [status : {"none", "live", "replaced", "removed"}, head : 0 .. MaxCommits, failed : BOOLEAN]]
    /\ versions \in Seq([tree : Tree, by : {"github", "person"}]) /\ Len(versions) <= MaxVersions
    /\ doc \in Row
    /\ handler \in [Handler ->
           [step : {"idle", "head", "apply", "synced", "publish", "record", "discard", "delete"},
            source : 0 .. Depth, force : BOOLEAN, head : 0 .. MaxCommits, failed : BOOLEAN,
            commit : 0 .. MaxCommits, taken : BOOLEAN, row : Row]]
    /\ requests \in 0 .. MaxRequests
    /\ troubles \in 0 .. MaxTroubles
    /\ races \subseteq {"scan", "reference", "removed"}
    /\ newest \in 0 .. MaxCommits

\* A draft is never lost to GitHub, in whatever order syncs, changes, Publish and
\* DiscardDraft read and write the doc: it gives way to what a person made of it,
\* and it is published only when GitHub holds it.
DraftIsKept ==
    [][Draft(doc) =>
         \/ doc'.current = doc.current
            /\ (Draft(doc') \/ repo[doc'.ref.commit] = versions[doc.current].tree)
         \/ doc'.current # doc.current
            /\ versions'[doc'.current].by = "person"]_vars

\* A pull request changes the branch it was cut from into the draft that the
\* person published, and into nothing else, although the changes are counted from
\* the published version and applied to a commit.
PullRequestIsTheDraft == \A pull \in pulls : pull.tree = pull.draft

Quiet == \A h \in Handler : handler[h].step = "idle"

\* No source took over the doc of a source that was replaced.
Orphaned == doc.ref.source # 0 /\ source[doc.ref.source].status = "replaced"

Gone == doc.current = 0 \/ doc.archived \/ Orphaned

ShowsCommit(commit) ==
    LET tree == repo[commit] IN
    IF tree = NoDoc THEN Gone
    ELSE /\ doc.current # 0
         /\ ~doc.archived
         /\ \/ versions[doc.ref.published].tree = tree
            \/ doc.ref.ahead /\ (Draft(doc) \/ troubles > 0)

\* When no handler is under way and a source is at its branch's head with no
\* error, the doc is what that commit holds, or a draft that says that GitHub is
\* ahead; with no source the doc is archived.  Not so after a scan was applied
\* that is older than one before it, after a reference was written back that had
\* changed meanwhile, or after a sync of a source that was being removed.
FollowsGitHub ==
    Quiet /\ races = {} =>
        /\ \A s \in Source : Live(s) /\ source[s].head = Len(repo) /\ ~source[s].failed => ShowsCommit(Len(repo))
        /\ (\A s \in Source : ~Live(s)) => Gone
=============================================================================
