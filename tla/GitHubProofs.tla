------------------------------ MODULE GitHubProofs ------------------------------
(***************************************************************************)
(* Proofs about what passes between this server and GitHub: the docs that  *)
(* follow a branch and go back to it in pull requests (GitHubSource), and  *)
(* the reviews that are posted on pull requests (PrBatch).  They share no  *)
(* variable.                                                               *)
(***************************************************************************)
EXTENDS GitHubSource, PrBatch, SequenceTheorems, FiniteSetTheorems, TLAPS

-----------------------------------------------------------------------------
(***************************************************************************)
(* Proofs about GitHubSource for any handlers, sources, files and bounds.  *)
(*                                                                         *)
(* A row that was read refers to a version and to the commit that holds    *)
(* it, however late it is used (RowsFit).  At most one source is there at  *)
(* a time, and its row names a commit only when that one was applied       *)
(* (HeadWasApplied).  While nothing was applied or written back too late,  *)
(* the doc of a source that was removed is archived (RemovedIsArchived),   *)
(* and the doc of a source with an applied commit shows the newest one     *)
(* (AppliedIsShown).                                                       *)
(***************************************************************************)

Content == Tree \cup {NoDoc}
Version == [tree : Tree, by : {"github", "person"}]
SourceRow == [status : {"none", "live", "replaced", "removed"}, head : 0 .. MaxCommits, failed : BOOLEAN]
Work ==
    [step : {"idle", "head", "apply", "synced", "publish", "record", "discard", "delete"},
     source : 0 .. Depth, force : BOOLEAN, head : 0 .. MaxCommits, failed : BOOLEAN,
     commit : 0 .. MaxCommits, taken : BOOLEAN, row : Row]

\* A row that was read or that is there: with no version it refers to nothing,
\* and else to a source, a version and the commit that holds that version.
RowFits(row) ==
    /\ row.current <= Len(versions)
    /\ row.current = 0 => row.ref = NoRef
    /\ row.current # 0 =>
        /\ row.ref.source # 0 /\ source[row.ref.source].status # "none"
        /\ row.ref.published \in 1 .. Len(versions)
        /\ row.ref.commit \in 1 .. Len(repo)
        /\ repo[row.ref.commit] = versions[row.ref.published].tree

RowsFit ==
    /\ RowFits(doc)
    /\ \A h \in Handler :
        /\ RowFits(handler[h].row)
        /\ handler[h].row.current # 0 => doc.current # 0
        /\ handler[h].step \in {"publish", "record", "discard"} => handler[h].row.current # 0

StepsFit ==
    /\ newest <= Len(repo)
    /\ \A h \in Handler :
        /\ handler[h].step \in {"head", "apply", "synced", "delete"} =>
            handler[h].source \in Source /\ source[handler[h].source].status # "none"
        /\ handler[h].step \in {"apply", "synced"} => handler[h].commit \in 1 .. Len(repo)
        /\ handler[h].step = "synced" => handler[h].commit <= newest

OneLiveSource == \A s, e \in Source : Live(s) /\ Live(e) => s = e

HeadWasApplied == \A s \in Source : ~source[s].failed => source[s].head <= newest

Deleting(s) == \E h \in Handler : handler[h].step = "delete" /\ handler[h].source = s

RemovedIsArchived ==
    /\ races = {}
    /\ doc.ref.source # 0
    /\ source[doc.ref.source].status = "removed" \/ Deleting(doc.ref.source)
    => doc.archived

Applied(s) ==
    /\ Live(s)
    /\ \/ ~source[s].failed /\ source[s].head # 0
       \/ \E h \in Handler : handler[h].step = "synced" /\ handler[h].source = s /\ ~handler[h].taken

Resyncing(s) ==
    \E h \in Handler :
        /\ handler[h].source = s
        /\ handler[h].step = "apply" \/ (handler[h].step = "head" /\ handler[h].force)

ShowsNewest(s) ==
    IF repo[newest] = NoDoc THEN Gone
    ELSE /\ doc.ref.source = s
         /\ ~doc.archived
         /\ \/ versions[doc.ref.published].tree = repo[newest]
            \/ doc.ref.ahead /\ (Draft(doc) \/ troubles > 0 \/ Resyncing(s))

AppliedIsShown ==
    races = {} => \A s \in Source : Applied(s) /\ ~Deleting(s) => ShowsNewest(s)

IInv ==
    /\ TypeOK /\ RowsFit /\ PullRequestIsTheDraft
    /\ StepsFit /\ OneLiveSource /\ HeadWasApplied /\ RemovedIsArchived /\ AppliedIsShown

-----------------------------------------------------------------------------
(* What grows. *)

LEMMA Types ==
    ASSUME TypeOK
    PROVE  /\ repo \in Seq(Content) /\ Len(repo) \in 1 .. MaxCommits /\ DOMAIN repo = 1 .. Len(repo)
           /\ \A c \in 1 .. Len(repo) : repo[c] \in Content
           /\ versions \in Seq(Version) /\ Len(versions) \in 0 .. MaxVersions /\ DOMAIN versions = 1 .. Len(versions)
           /\ \A v \in 1 .. Len(versions) : versions[v] \in Version
           /\ source \in [Source -> SourceRow]
           /\ doc \in Row
           /\ handler \in [Handler -> Work]
           /\ Depth \in Nat /\ MaxCommits \in Nat /\ MaxVersions \in Nat /\ MaxRequests \in Nat /\ MaxTroubles \in Nat
<1>1. /\ repo \in Seq(Content) /\ Len(repo) \in 1 .. MaxCommits
      /\ versions \in Seq(Version) /\ Len(versions) <= MaxVersions
      /\ source \in [Source -> SourceRow] /\ doc \in Row /\ handler \in [Handler -> Work]
  BY DEF TypeOK, Content, Version, SourceRow, Work, Commit
<1>2. Depth \in Nat /\ MaxCommits \in Nat /\ MaxVersions \in Nat /\ MaxRequests \in Nat /\ MaxTroubles \in Nat
  BY DepthAssumption, BoundsAssumption
<1>3. /\ Len(versions) \in Nat /\ DOMAIN versions = 1 .. Len(versions) /\ DOMAIN repo = 1 .. Len(repo)
      /\ \A c \in 1 .. Len(repo) : repo[c] \in Content
      /\ \A v \in 1 .. Len(versions) : versions[v] \in Version
  BY <1>1, ElementOfSeq, LenProperties
<1> QED
  BY <1>1, <1>2, <1>3

\* A version that is added, and the ones there are.
LEMMA AddedVersion ==
    ASSUME TypeOK, NEW v \in Version, Len(versions) < MaxVersions, versions' = Append(versions, v)
    PROVE  /\ versions' \in Seq(Version) /\ Len(versions') = Len(versions) + 1 /\ Len(versions') <= MaxVersions
           /\ versions'[Len(versions) + 1] = v
           /\ \A i \in 1 .. Len(versions) : versions'[i] = versions[i]
BY Types, AppendProperties

\* What Record leaves: a version that holds the tree.
LEMMA RecordedVersion ==
    ASSUME TypeOK, NEW row \in Row, RowFits(row), NEW tree \in Tree, NEW by \in {"github", "person"},
           Recorded(row, tree) <= MaxVersions, versions' = VersionsWith(row, tree, by)
    PROVE  /\ versions' \in Seq(Version) /\ Len(versions') \in Nat /\ Len(versions') <= MaxVersions
           /\ Len(versions) <= Len(versions')
           /\ Recorded(row, tree) \in 1 .. Len(versions')
           /\ versions'[Recorded(row, tree)].tree = tree
           /\ \A i \in 1 .. Len(versions) : versions'[i] = versions[i]
           /\ \/ SameAsCurrent(row, tree) /\ Recorded(row, tree) = row.current
              \/ /\ ~SameAsCurrent(row, tree) /\ Recorded(row, tree) = Len(versions) + 1
                 /\ versions'[Recorded(row, tree)].by = by
<1>1. CASE SameAsCurrent(row, tree)
  BY <1>1, Types DEF Recorded, VersionsWith, SameAsCurrent, RowFits, Row
<1>2. CASE ~SameAsCurrent(row, tree)
  <2> DEFINE v == [tree |-> tree, by |-> by]
  <2>1. v \in Version /\ v.tree = tree /\ v.by = by
    BY DEF Version
  <2>2. versions' = Append(versions, v) /\ Recorded(row, tree) = Len(versions) + 1
    BY <1>2 DEF VersionsWith, Recorded
  <2> HIDE DEF v
  <2>3. Len(versions) < MaxVersions
    BY <2>2, Types
  <2> QED
    BY <1>2, <2>1, <2>2, <2>3, AddedVersion, Types
<1> QED
  BY <1>1, <1>2

\* A row with a version: what it refers to is there.
LEMMA RowFacts ==
    ASSUME TypeOK, NEW row \in Row, RowFits(row), row.current # 0
    PROVE  /\ row.current \in 1 .. Len(versions) /\ versions[row.current].tree \in Tree
           /\ row.ref.published \in 1 .. Len(versions) /\ versions[row.ref.published].tree \in Tree
           /\ row.ref.commit \in 1 .. Len(repo) /\ repo[row.ref.commit] = versions[row.ref.published].tree
           /\ row.ref.source \in Source /\ source[row.ref.source].status # "none"
<1>1. row.current \in 1 .. Len(versions) /\ row.ref.published \in 1 .. Len(versions)
  BY Types DEF RowFits, Row
<1>2. versions[row.current].tree \in Tree /\ versions[row.ref.published].tree \in Tree
  BY <1>1, Types DEF Version
<1>3. row.ref.source \in Source
  BY Types DEF RowFits, Row, Ref, Source
<1> QED
  BY <1>1, <1>2, <1>3 DEF RowFits

LEMMA ChangedTrees ==
    ASSUME NEW from \in Tree, NEW to \in Tree, NEW tree \in Tree
    PROVE  /\ WithChanges(tree, from, to) \in Tree
           /\ tree = from => WithChanges(tree, from, to) = to
BY DEF WithChanges, Tree

RepoGrows ==
    /\ repo' \in Seq(Content) /\ Len(repo') \in Commit /\ Len(repo) <= Len(repo')
    /\ \A c \in 1 .. Len(repo) : repo'[c] = repo[c]

VersionsGrow ==
    /\ versions' \in Seq(Version) /\ Len(versions') \in Nat /\ Len(versions') <= MaxVersions
    /\ Len(versions) <= Len(versions')
    /\ \A v \in 1 .. Len(versions) : versions'[v] = versions[v]

SourcesMove ==
    /\ source' \in [Source -> SourceRow]
    /\ \A s \in Source : source[s].status # "none" => source'[s].status # "none"

LEMMA AddedCommit ==
    ASSUME TypeOK, NEW c \in Content, Len(repo) < MaxCommits, repo' = Append(repo, c)
    PROVE  RepoGrows
BY Types, AppendProperties DEF RepoGrows, Commit

\* The steps of the repository, of the versions and of the sources.
LEMMA RepoStep == IInv /\ [Next]_vars => RepoGrows
<1> SUFFICES ASSUME IInv, [Next]_vars PROVE RepoGrows
  OBVIOUS
<1>0. TypeOK
  BY DEF IInv
<1>1. ASSUME UNCHANGED repo PROVE RepoGrows
  BY <1>0, <1>1, Types DEF RepoGrows, Commit
<1>2. ASSUME NEW tree \in Tree \cup {NoDoc}, Push(tree) PROVE RepoGrows
  BY <1>0, <1>2, AddedCommit DEF Push, Content
<1>3. ASSUME NEW pull \in pulls, Merge(pull) PROVE RepoGrows
  <2>1. pull.base \in 1 .. MaxCommits /\ pull.tree \in Tree
    BY <1>0 DEF TypeOK, Commit
  <2>2. repo[Len(repo)] \in Content
    BY <1>0, Types
  <2>3. WithChanges(repo[Len(repo)], repo[pull.base], pull.tree) \in Tree
    BY <1>3, <2>1, <2>2 DEF Merge, WithChanges, Tree, Content
  <2> QED
    BY <1>0, <1>3, <2>3, AddedCommit DEF Merge, Content
<1> QED
  BY <1>1, <1>2, <1>3 DEF Next, vars, StartSync, AddSource, ArchiveDocs, ReadHead, SyncFails, Apply, StoreSynced,
        Change, StartPublish, OpenPull, RecordPull, StartDiscard, DiscardDraft, DeleteSource, Fail


LEMMA VersionsStep == IInv /\ [Next]_vars => VersionsGrow
<1> SUFFICES ASSUME IInv, [Next]_vars PROVE VersionsGrow
  OBVIOUS
<1>0. TypeOK /\ RowsFit
  BY DEF IInv
<1>1. ASSUME UNCHANGED versions PROVE VersionsGrow
  BY <1>0, <1>1, Types DEF VersionsGrow
<1>2. ASSUME NEW h \in Handler, Apply(h) PROVE VersionsGrow
  <2>1. CASE UNCHANGED versions
    BY <1>1, <2>1
  <2>2. CASE repo[handler[h].commit] # NoDoc /\ FollowGitHub(handler[h].source, handler[h].commit)
    <3>1. repo[handler[h].commit] \in Tree /\ doc \in Row /\ RowFits(doc)
      BY <1>0, <1>2, <2>2, Types DEF IInv, StepsFit, RowsFit, Apply, Content
    <3> QED
      BY <1>0, <2>2, <3>1, RecordedVersion DEF FollowGitHub, VersionsGrow
  <2> QED
    BY <1>2, <2>1, <2>2 DEF Apply, KeepDraft
<1>3. ASSUME NEW h \in Handler, Change(h) PROVE VersionsGrow
  <2>1. doc.current \in 1 .. Len(versions) /\ versions[doc.current].tree \in Tree
    BY <1>0, <1>3, Types, RowFacts DEF RowsFit, Change
  <2>2. PICK v \in Version : versions' = Append(versions, v)
    BY <1>3, <2>1 DEF Change, Version, Tree
  <2> QED
    BY <1>0, <1>3, <2>2, AddedVersion, Types DEF Change, VersionsGrow
<1>4. ASSUME NEW h \in Handler, DiscardDraft(h) PROVE VersionsGrow
  <2>1. CASE UNCHANGED versions
    BY <1>1, <2>1
  <2>2. CASE ~UNCHANGED versions
    <3> DEFINE row == handler[h].row
    <3>1. row \in Row /\ RowFits(row) /\ row.current # 0
      BY <1>0, <1>4, Types DEF RowsFit, DiscardDraft, Work
    <3>2. versions[row.ref.published].tree \in Tree
      BY <1>0, <3>1, RowFacts
    <3>3. /\ Recorded(row, versions[row.ref.published].tree) <= MaxVersions
          /\ versions' = VersionsWith(row, versions[row.ref.published].tree, "person")
      BY <1>4, <2>2 DEF DiscardDraft
    <3> QED
      BY <1>0, <3>1, <3>2, <3>3, RecordedVersion DEF VersionsGrow
  <2> QED
    BY <2>1, <2>2
<1> QED
  BY <1>1, <1>2, <1>3, <1>4 DEF Next, vars, StartSync, AddSource, ArchiveDocs, ReadHead, SyncFails, StoreSynced,
        StartPublish, OpenPull, RecordPull, StartDiscard, DeleteSource, Fail, Push, Merge

LEMMA SourcesStep == IInv /\ [Next]_vars => SourcesMove
<1> SUFFICES ASSUME IInv, [Next]_vars PROVE SourcesMove
  OBVIOUS
<1>0. TypeOK /\ StepsFit
  BY DEF IInv
<1>1. ASSUME UNCHANGED source PROVE SourcesMove
  BY <1>0, <1>1, Types DEF SourcesMove
<1>2. ASSUME NEW h \in Handler, SyncFails(h) PROVE SourcesMove
  <2> DEFINE p == handler[h]
             row == [[source[p.source] EXCEPT !.head = p.head] EXCEPT !.failed = TRUE]
  <2>1. p.source \in Source /\ source[p.source] \in SourceRow /\ p.head \in 0 .. MaxCommits
    BY <1>0, <1>2, Types DEF SyncFails, StepsFit, Work
  <2>2. row \in SourceRow /\ row.status = source[p.source].status
    BY <2>1 DEF SourceRow
  <2>3. source' = [source EXCEPT ![p.source] = row]
    BY <1>0, <1>2, <2>1, Types DEF SyncFails
  <2> QED
    BY <1>0, <2>1, <2>2, <2>3, Types DEF SourcesMove
<1>3. ASSUME NEW h \in Handler, StoreSynced(h) PROVE SourcesMove
  BY <1>0, <1>3, Types DEF SourcesMove, StoreSynced, StepsFit, Work, SourceRow
<1>4. ASSUME NEW h \in Handler, NEW s \in Source, AddSource(h, s) PROVE SourcesMove
  <2>1. \A e \in Source : source'[e] \in SourceRow /\ (source[e].status # "none" => source'[e].status # "none")
    <3> TAKE e \in Source
    <3>0. source[e] \in SourceRow
      BY <1>0, Types
    <3>1. CASE e = s
      <4>1. source'[e] = [status |-> "live", head |-> 0, failed |-> FALSE]
        BY <1>4, <3>1 DEF AddSource, Source
      <4> QED
        BY <1>0, <4>1, Types DEF SourceRow
    <3>2. CASE e # s /\ e < s /\ Live(e)
      <4>1. source'[e] = [source[e] EXCEPT !.status = "replaced"]
        BY <1>4, <3>2 DEF AddSource, Source
      <4> QED
        BY <3>0, <4>1 DEF SourceRow
    <3>3. CASE e # s /\ ~(e < s /\ Live(e))
      BY <1>0, <1>4, <3>3, Types DEF AddSource, Source
    <3> QED
      BY <3>1, <3>2, <3>3 DEF Source
  <2>2. source' = [e \in Source |-> source'[e]]
    BY <1>4 DEF AddSource
  <2> QED
    BY <2>1, <2>2 DEF SourcesMove
<1>5. ASSUME NEW h \in Handler, DeleteSource(h) PROVE SourcesMove
  BY <1>0, <1>5, Types DEF SourcesMove, DeleteSource, StepsFit, Work, SourceRow
<1> QED
  BY <1>1, <1>2, <1>3, <1>4, <1>5 DEF Next, vars, StartSync, ArchiveDocs, ReadHead, Apply, Change, StartPublish,
        OpenPull, RecordPull, StartDiscard, DiscardDraft, Fail, Push, Merge

\* The work of a handler, and its other fields, in every step.
LEMMA WorkTypes ==
    ASSUME TypeOK
    PROVE  /\ Idle \in Work /\ NoRow \in Row /\ NoRef \in Ref
           /\ \A s \in Source : \A force \in BOOLEAN : Syncing(s, force) \in Work
           /\ \A h \in Handler : \A next \in Work : Go(h, next) => handler' \in [Handler -> Work]
<1>1. NoRef \in Ref /\ NoRow \in Row
  BY Types DEF NoRef, NoRow, Ref, Row
<1>2. Idle \in Work
  BY <1>1, Types DEF Idle, Work
<1>3. ASSUME NEW s \in Source, NEW force \in BOOLEAN PROVE Syncing(s, force) \in Work
  <2>1. source[s].head \in 0 .. MaxCommits /\ source[s].failed \in BOOLEAN /\ s \in 0 .. Depth
    BY Types DEF SourceRow, Source
  <2> QED
    BY <1>2, <2>1 DEF Syncing, Work, Idle
<1>4. ASSUME NEW h \in Handler, NEW next \in Work, Go(h, next) PROVE handler' \in [Handler -> Work]
  BY <1>4, Types DEF Go
<1> QED
  BY <1>1, <1>2, <1>3, <1>4

LEMMA HandlerTypeStep == IInv /\ [Next]_vars => handler' \in [Handler -> Work]
<1> SUFFICES ASSUME IInv, [Next]_vars PROVE handler' \in [Handler -> Work]
  OBVIOUS
<1>0. TypeOK /\ StepsFit /\ RowsFit
  BY DEF IInv
<1>a. /\ Idle \in Work /\ doc \in Row /\ \A h \in Handler : handler[h] \in Work
      /\ Len(repo) \in 0 .. MaxCommits
  BY <1>0, WorkTypes, Types
<1>1. ASSUME UNCHANGED handler PROVE handler' \in [Handler -> Work]
  BY <1>0, <1>1, Types
<1>2. ASSUME NEW h \in Handler, NEW next \in Work, Go(h, next) PROVE handler' \in [Handler -> Work]
  BY <1>0, <1>2, WorkTypes
<1>3. ASSUME NEW h \in Handler, Go(h, Idle) PROVE handler' \in [Handler -> Work]
  BY <1>a, <1>2, <1>3
<1>4. ASSUME NEW h \in Handler, NEW s \in Source, NEW force \in BOOLEAN, Go(h, Syncing(s, force))
      PROVE  handler' \in [Handler -> Work]
  BY <1>0, <1>2, <1>4, WorkTypes
<1>5. ASSUME NEW h \in Handler, ReadHead(h) PROVE handler' \in [Handler -> Work]
  <2>1. [handler[h] EXCEPT !.step = "apply", !.commit = Len(repo), !.force = FALSE, !.failed = FALSE] \in Work
    BY <1>a DEF Work
  <2> QED
    BY <1>2, <1>3, <1>5, <2>1 DEF ReadHead
<1>6. ASSUME NEW h \in Handler, Apply(h) PROVE handler' \in [Handler -> Work]
  <2> DEFINE taken == repo[handler[h].commit] # NoDoc /\ Taken(handler[h].source)
             next == [handler[h] EXCEPT !.step = "synced", !.taken = taken]
  <2>1. taken \in BOOLEAN
    BY DEF Taken
  <2>2. Go(h, next)
    BY <1>6 DEF Apply
  <2> HIDE DEF taken
  <2>3. next \in Work
    BY <1>a, <2>1 DEF Work
  <2> QED
    BY <1>2, <2>2, <2>3
<1>7. ASSUME NEW h \in Handler, NEW step \in {"publish", "discard"}, Go(h, [Idle EXCEPT !.step = step, !.row = doc])
      PROVE  handler' \in [Handler -> Work]
  <2>1. [Idle EXCEPT !.step = step, !.row = doc] \in Work
    BY <1>a DEF Work
  <2> QED
    BY <1>2, <1>7, <2>1
<1>8. ASSUME NEW h \in Handler, OpenPull(h) PROVE handler' \in [Handler -> Work]
  <2>1. [handler[h] EXCEPT !.step = "record"] \in Work
    BY <1>a DEF Work
  <2> QED
    BY <1>2, <1>8, <2>1 DEF OpenPull
<1>9. ASSUME NEW h \in Handler, DiscardDraft(h) PROVE handler' \in [Handler -> Work]
  <2>1. handler[h].row.current # 0 /\ handler[h].row.ref.source \in Source
    BY <1>0, <1>9, <1>a, RowFacts DEF RowsFit, DiscardDraft, Work
  <2>2. Go(h, Idle) \/ Go(h, Syncing(handler[h].row.ref.source, TRUE))
    BY <1>9 DEF DiscardDraft
  <2> QED
    BY <1>3, <1>4, <2>1, <2>2
<1>10. ASSUME NEW h \in Handler, NEW s \in Source, AddSource(h, s) \/ ArchiveDocs(h, s) PROVE handler' \in [Handler -> Work]
  <2>1. s \in 0 .. Depth
    BY <1>0, Types DEF Source
  <2>2. /\ [Idle EXCEPT !.step = "head", !.source = s, !.force = TRUE] \in Work
        /\ [Idle EXCEPT !.step = "delete", !.source = s] \in Work
    BY <1>a, <2>1 DEF Work
  <2> QED
    BY <1>2, <1>10, <2>2 DEF AddSource, ArchiveDocs
<1>11. ASSUME NEW h \in Handler, NEW s \in Source, StartSync(h, s) PROVE handler' \in [Handler -> Work]
  BY <1>4, <1>11 DEF StartSync
<1> QED
  BY <1>1, <1>3, <1>5, <1>6, <1>7, <1>8, <1>9, <1>10, <1>11 DEF Next, vars, SyncFails, StoreSynced, Change,
        StartPublish, RecordPull, StartDiscard, DeleteSource, Fail, Push, Merge

-----------------------------------------------------------------------------
(* Rows and what they refer to. *)

Grows == RepoGrows /\ VersionsGrow /\ SourcesMove

LEMMA GrowStep == IInv /\ [Next]_vars => Grows
BY RepoStep, VersionsStep, SourcesStep DEF Grows

\* What a row refers to stays there.
LEMMA RowStays ==
    ASSUME TypeOK, Grows, NEW row \in Row, RowFits(row)
    PROVE  RowFits(row)'
<1>1. CASE row.current = 0
  BY <1>1, Types DEF RowFits, Row, Grows, VersionsGrow
<1>2. CASE row.current # 0
  <2>1. /\ row.current \in 1 .. Len(versions)
        /\ row.ref.published \in 1 .. Len(versions)
        /\ row.ref.commit \in 1 .. Len(repo) /\ repo[row.ref.commit] = versions[row.ref.published].tree
        /\ row.ref.source \in Source /\ source[row.ref.source].status # "none"
    BY <1>2, RowFacts
  <2>2. /\ repo'[row.ref.commit] = repo[row.ref.commit]
        /\ versions'[row.ref.published] = versions[row.ref.published]
        /\ source'[row.ref.source].status # "none"
        /\ Len(repo) <= Len(repo') /\ Len(versions) <= Len(versions')
        /\ Len(repo) \in Nat /\ Len(repo') \in Nat /\ Len(versions) \in Nat /\ Len(versions') \in Nat
    <3>1. Len(repo) \in Nat /\ Len(repo') \in Nat /\ Len(versions) \in Nat /\ Len(versions') \in Nat
      BY Types DEF Grows, RepoGrows, VersionsGrow, Commit
    <3>2. repo'[row.ref.commit] = repo[row.ref.commit] /\ Len(repo) <= Len(repo')
      BY <2>1 DEF Grows, RepoGrows
    <3>3. versions'[row.ref.published] = versions[row.ref.published] /\ Len(versions) <= Len(versions')
      BY <2>1 DEF Grows, VersionsGrow
    <3>4. source'[row.ref.source].status # "none"
      BY <2>1 DEF Grows, SourcesMove
    <3> QED
      BY <3>1, <3>2, <3>3, <3>4
  <2>3. row.ref.source # 0
    BY <2>1 DEF Source
  <2> QED
    BY <1>2, <2>1, <2>2, <2>3 DEF RowFits
<1> QED
  BY <1>1, <1>2

DocFits == doc' \in Row /\ RowFits(doc)' /\ (doc.current # 0 => doc'.current # 0)

\* A reference to a version and a commit that hold the same.
LEMMA NewDoc ==
    ASSUME TypeOK, Grows, NEW archived \in BOOLEAN, NEW current \in 1 .. Len(versions'), NEW ref \in Ref,
           ref.source \in Source, source[ref.source].status # "none",
           ref.published \in 1 .. Len(versions'), ref.commit \in 1 .. Len(repo),
           repo[ref.commit] = versions'[ref.published].tree,
           doc' = [current |-> current, archived |-> archived, ref |-> ref]
    PROVE  DocFits
<1>1. /\ repo'[ref.commit] = repo[ref.commit] /\ source'[ref.source].status # "none"
      /\ Len(repo) \in Nat /\ Len(repo') \in Nat /\ Len(repo) <= Len(repo')
      /\ Len(versions') \in 0 .. MaxVersions /\ MaxVersions \in Nat /\ ref.source # 0
  BY Types DEF Grows, RepoGrows, VersionsGrow, SourcesMove, Commit, Source
<1>2. doc' \in Row /\ doc'.current # 0 /\ doc'.ref = ref
  BY <1>1 DEF Row
<1> QED
  BY <1>1, <1>2 DEF RowFits, DocFits

LEMMA RefBounds ==
    ASSUME TypeOK, Grows
    PROVE  /\ Source \subseteq 0 .. Depth /\ 1 .. Len(repo) \subseteq 0 .. MaxCommits
           /\ 1 .. Len(versions') \subseteq 0 .. MaxVersions
<1>1. /\ Len(versions') \in 0 .. MaxVersions /\ MaxVersions \in Nat
      /\ Len(repo) \in 1 .. MaxCommits /\ MaxCommits \in Nat /\ Depth \in Nat
  BY Types DEF Grows, VersionsGrow
<1> QED
  BY <1>1 DEF Source

LEMMA PublishedOfRef ==
    ASSUME NEW ref \in Ref, NEW v \in 0 .. MaxVersions, NEW r, r = [ref EXCEPT !.published = v]
    PROVE  r \in Ref /\ r.source = ref.source /\ r.published = v /\ r.commit = ref.commit /\ r.ahead = ref.ahead
BY DEF Ref

LEMMA DocStep == IInv /\ [Next]_vars => DocFits
<1> SUFFICES ASSUME IInv, [Next]_vars PROVE DocFits
  OBVIOUS
<1>0. TypeOK /\ RowsFit /\ StepsFit /\ Grows /\ doc \in Row /\ RowFits(doc)
  BY GrowStep, Types DEF IInv, RowsFit
<1>1. ASSUME doc' = doc PROVE DocFits
  BY <1>0, <1>1, RowStays DEF DocFits, RowFits
<1>2. ASSUME NEW archived \in BOOLEAN, doc' = [doc EXCEPT !.archived = archived] PROVE DocFits
  <2>1. doc' \in Row /\ doc'.current = doc.current /\ doc'.ref = doc.ref
    BY <1>0, <1>2 DEF Row
  <2>2. RowFits(doc)'
    BY <1>0, <2>1, RowStays DEF RowFits
  <2> QED
    BY <2>1, <2>2 DEF DocFits
<1>3. ASSUME NEW h \in Handler, Apply(h) PROVE DocFits
  <2> DEFINE s == handler[h].source
             c == handler[h].commit
  <2>1. /\ s \in Source /\ source[s].status # "none" /\ c \in 1 .. Len(repo) /\ repo[c] \in Content
    BY <1>0, <1>3, Types DEF Apply, StepsFit
  <2> HIDE DEF s, c
  <2>11. s \in 0 .. Depth /\ c \in 0 .. MaxCommits
    BY <1>0, <2>1, RefBounds
  <2>12. \A v \in 0 .. MaxVersions :
            /\ AtCommit(s, v, c) \in Ref /\ AtCommit(s, v, c).source = s
            /\ AtCommit(s, v, c).published = v /\ AtCommit(s, v, c).commit = c
    BY <2>11 DEF AtCommit, Ref
  <2>13. \A ref \in Ref : \A ahead \in BOOLEAN :
            LET r == [ref EXCEPT !.source = s, !.ahead = ahead]
            IN  r \in Ref /\ r.source = s /\ r.published = ref.published /\ r.commit = ref.commit
    BY <2>11 DEF Ref
  <2>2. ASSUME repo[c] # NoDoc, FollowGitHub(s, c) PROVE DocFits
    <3>1. repo[c] \in Tree
      BY <2>1, <2>2 DEF Content
    <3>2. Recorded(doc, repo[c]) \in 1 .. Len(versions') /\ versions'[Recorded(doc, repo[c])].tree = repo[c]
      BY <1>0, <2>2, <3>1, RecordedVersion DEF FollowGitHub
    <3>3. doc' = [current |-> Recorded(doc, repo[c]), archived |-> FALSE, ref |-> AtCommit(s, Recorded(doc, repo[c]), c)]
      BY <2>2 DEF FollowGitHub
    <3> DEFINE ref == AtCommit(s, Recorded(doc, repo[c]), c)
    <3>4. ref \in Ref /\ ref.source = s /\ ref.published = Recorded(doc, repo[c]) /\ ref.commit = c
      <4>1. Recorded(doc, repo[c]) \in 0 .. MaxVersions
        BY <1>0, <3>2, RefBounds
      <4> QED
        BY <2>12, <4>1
    <3> HIDE DEF ref
    <3> QED
      BY <1>0, <2>1, <3>2, <3>3, <3>4, NewDoc DEF ref
  <2>3. ASSUME Draft(doc), KeepDraft(s, c) PROVE DocFits
    <3>1. doc.current # 0
      BY <1>0, <2>3 DEF Draft, RowFits, NoRef
    <3>2. /\ doc.current \in 1 .. Len(versions) /\ doc.ref.published \in 1 .. Len(versions)
          /\ doc.ref.commit \in 1 .. Len(repo) /\ repo[doc.ref.commit] = versions[doc.ref.published].tree
          /\ Len(versions) \in Nat
      BY <1>0, <3>1, RowFacts, Types
    <3>3. versions' = versions /\ doc.ref \in Ref
      BY <1>0, <2>3 DEF KeepDraft, Row
    <3>4. CASE versions[doc.current].tree = repo[c]
      <4>1. doc' = [current |-> doc.current, archived |-> FALSE,
                    ref |-> AtCommit(s, doc.current, c)]
        BY <1>0, <2>3, <3>4 DEF KeepDraft, Row
      <4> DEFINE ref == AtCommit(s, doc.current, c)
      <4>2. ref \in Ref /\ ref.source = s /\ ref.published = doc.current /\ ref.commit = c
        <5>1. doc.current \in 0 .. MaxVersions
          BY <1>0, <3>2, <3>3, RefBounds
        <5> QED
          BY <2>12, <5>1
      <4> HIDE DEF ref
      <4> QED
        BY <1>0, <2>1, <3>1, <3>2, <3>3, <3>4, <4>1, <4>2, NewDoc DEF ref
    <3>5. CASE versions[doc.current].tree # repo[c]
      <4>1. (doc.ref.ahead \/ versions[doc.ref.published].tree # repo[c]) \in BOOLEAN
        BY <3>3 DEF Ref
      <4>2. PICK ahead \in BOOLEAN : doc' = [doc EXCEPT !.archived = FALSE, !.ref = [doc.ref EXCEPT !.source = s, !.ahead = ahead]]
        BY <2>3, <3>5, <4>1 DEF KeepDraft
      <4> DEFINE ref == [doc.ref EXCEPT !.source = s, !.ahead = ahead]
      <4>3. ref \in Ref /\ ref.source = s /\ ref.published = doc.ref.published /\ ref.commit = doc.ref.commit
        BY <2>13, <3>3, <4>2
      <4>4. doc' = [current |-> doc.current, archived |-> FALSE, ref |-> ref]
        BY <1>0, <4>2 DEF Row
      <4> HIDE DEF ref
      <4> QED
        BY <1>0, <2>1, <3>1, <3>2, <3>3, <4>3, <4>4, NewDoc
    <3> QED
      BY <3>4, <3>5
  <2>4. ASSUME doc' = [doc EXCEPT !.archived = @ \/ doc.ref.source = s] PROVE DocFits
    <3>1. (doc.archived \/ doc.ref.source = s) \in BOOLEAN
      BY <1>0 DEF Row
    <3> QED
      BY <1>2, <2>4, <3>1
  <2> QED
    BY <1>1, <1>3, <2>2, <2>3, <2>4 DEF Apply, s, c
<1>4. ASSUME NEW h \in Handler, Change(h) PROVE DocFits
  <2>1. doc' = [doc EXCEPT !.current = Len(versions) + 1] /\ Len(versions') = Len(versions) + 1 /\ doc.current # 0
    <3>1. PICK v : versions' = Append(versions, v)
      BY <1>4 DEF Change
    <3> QED
      BY <1>0, <1>4, <3>1, Types DEF Change
  <2>2. doc' \in Row /\ doc'.ref = doc.ref /\ doc'.current = Len(versions) + 1 /\ doc'.current # 0
    BY <1>0, <2>1, Types DEF Row, Grows, VersionsGrow
  <2>3. RowFits(doc)'
    BY <1>0, <2>1, <2>2, RowStays DEF RowFits
  <2> QED
    BY <2>2, <2>3 DEF DocFits
<1>5. ASSUME NEW row \in Row, RowFits(row), row.current # 0, doc.current # 0,
             doc' = [doc EXCEPT !.ref = row.ref]
      PROVE  DocFits
  <2>1. row.ref \in Ref
    BY <1>5 DEF Row
  <2>2. doc' \in Row /\ doc'.ref = row.ref /\ doc'.current = doc.current
    BY <1>0, <1>5, <2>1 DEF Row
  <2>3. RowFits(doc)'
    <3>1. RowFits(row)'
      BY <1>0, <1>5, RowStays
    <3>2. doc.current <= Len(versions')
      BY <1>0, Types DEF RowFits, Row, Grows, VersionsGrow
    <3> QED
      BY <1>5, <2>2, <3>1, <3>2 DEF RowFits
  <2> QED
    BY <1>5, <2>2, <2>3 DEF DocFits
<1>6. ASSUME NEW h \in Handler, RecordPull(h) PROVE DocFits
  <2>1. /\ handler[h].row \in Row /\ RowFits(handler[h].row) /\ handler[h].row.current # 0
        /\ doc.current # 0
    BY <1>0, <1>6, Types DEF RecordPull, RowsFit, Work
  <2> QED
    BY <1>5, <1>6, <2>1 DEF RecordPull
<1>7. ASSUME NEW h \in Handler, DiscardDraft(h) PROVE DocFits
  <2>1. CASE doc' = doc
    BY <1>1, <2>1
  <2>2. CASE doc' # doc
    <3> DEFINE row == handler[h].row
               tree == versions[row.ref.published].tree
               new == Recorded(row, tree)
    <3>1. /\ row \in Row /\ RowFits(row) /\ row.current # 0 /\ doc.current # 0
      BY <1>0, <1>7, Types DEF DiscardDraft, RowsFit, Work
    <3>2. /\ tree \in Tree /\ row.ref.commit \in 1 .. Len(repo) /\ repo[row.ref.commit] = tree
          /\ row.ref.source \in Source /\ source[row.ref.source].status # "none"
      BY <1>0, <3>1, RowFacts
    <3>3. /\ new <= MaxVersions /\ versions' = VersionsWith(row, tree, "person")
          /\ doc' = [doc EXCEPT !.current = IF SameAsCurrent(row, tree) THEN @ ELSE new,
                                !.ref = [row.ref EXCEPT !.published = new]]
      BY <1>7, <2>2 DEF DiscardDraft
    <3> HIDE DEF row, tree
    <3>4. new \in 1 .. Len(versions') /\ versions'[new].tree = tree
      BY <1>0, <3>1, <3>2, <3>3, RecordedVersion
    <3> DEFINE current == IF SameAsCurrent(row, tree) THEN doc.current ELSE new
    <3>5. current \in 1 .. Len(versions')
      BY <1>0, <3>1, <3>4, Types DEF RowFits, Row, Grows, VersionsGrow
    <3> HIDE DEF new, current
    <3> DEFINE ref == [row.ref EXCEPT !.published = new]
    <3>6. doc.archived \in BOOLEAN /\ row.ref \in Ref
      BY <1>0, <3>1 DEF Row
    <3>7. ref \in Ref /\ ref.source = row.ref.source /\ ref.published = new /\ ref.commit = row.ref.commit
      BY <1>0, <3>4, <3>6, RefBounds, PublishedOfRef
    <3>8. doc' = [current |-> current, archived |-> doc.archived, ref |-> ref]
      BY <1>0, <3>3 DEF Row, current
    <3> HIDE DEF ref
    <3> QED
      BY <1>0, <3>2, <3>4, <3>5, <3>6, <3>7, <3>8, NewDoc
  <2> QED
    BY <2>1, <2>2
<1>8. ASSUME NEW h \in Handler, NEW s \in Source, ArchiveDocs(h, s) PROVE DocFits
  <2>1. (doc.archived \/ doc.ref.source = s) \in BOOLEAN
    BY <1>0 DEF Row
  <2> QED
    BY <1>2, <1>8, <2>1 DEF ArchiveDocs
<1> QED
  BY <1>1, <1>3, <1>4, <1>6, <1>7, <1>8 DEF Next, vars, StartSync, AddSource, ReadHead, SyncFails, StoreSynced,
        StartPublish, OpenPull, StartDiscard, DeleteSource, Fail, Push, Merge

Reads(h) == handler[h].step \in {"publish", "record", "discard"}

\* The row that a handler has read.
LEMMA RowsMove ==
    ASSUME IInv, [Next]_vars, NEW g \in Handler
    PROVE  \/ handler'[g].row = NoRow /\ ~Reads(g)'
           \/ handler'[g].row = handler[g].row /\ (Reads(g)' => Reads(g))
           \/ handler'[g].row = doc /\ doc.current # 0
<1> DEFINE Moves == \/ handler'[g].row = NoRow /\ ~Reads(g)'
                    \/ handler'[g].row = handler[g].row /\ (Reads(g)' => Reads(g))
                    \/ handler'[g].row = doc /\ doc.current # 0
<1>0. /\ handler \in [Handler -> Work] /\ doc \in Row /\ RowFits(doc)
  BY Types DEF IInv, RowsFit
<1>1. ASSUME UNCHANGED handler PROVE Moves
  BY <1>1 DEF Reads
<1>2. ASSUME NEW h \in Handler, Go(h, Idle) PROVE Moves
  BY <1>0, <1>2 DEF Go, Idle, Reads
<1>3. ASSUME NEW h \in Handler, NEW s, NEW force, Go(h, Syncing(s, force)) PROVE Moves
  BY <1>0, <1>3 DEF Go, Syncing, Idle, Reads
<1>4. ASSUME NEW h \in Handler, NEW step \in {"publish", "discard"}, Go(h, [Idle EXCEPT !.step = step, !.row = doc]), Draft(doc)
      PROVE  Moves
  <2>1. doc.current # 0
    BY <1>0, <1>4 DEF Draft, RowFits, NoRef
  <2> QED
    BY <1>0, <1>4, <2>1 DEF Go, Idle, Reads
<1>5. ASSUME NEW h \in Handler, ReadHead(h) PROVE Moves
  <2>1. CASE Go(h, Idle)
    BY <1>2, <2>1
  <2>2. CASE Go(h, [handler[h] EXCEPT !.step = "apply", !.commit = Len(repo), !.force = FALSE, !.failed = FALSE])
    BY <1>0, <2>2 DEF Go, Reads, Work
  <2> QED
    BY <1>5, <2>1, <2>2 DEF ReadHead
<1>6. ASSUME NEW h \in Handler, Apply(h) PROVE Moves
  BY <1>0, <1>6 DEF Apply, Go, Reads, Work
<1>7. ASSUME NEW h \in Handler, OpenPull(h) PROVE Moves
  BY <1>0, <1>7 DEF OpenPull, Go, Reads, Work
<1>8. ASSUME NEW h \in Handler, NEW s \in Source, AddSource(h, s) \/ ArchiveDocs(h, s) PROVE Moves
  BY <1>0, <1>8 DEF AddSource, ArchiveDocs, Go, Idle, Reads
<1> HIDE DEF Moves
<1>9. ASSUME NEW h \in Handler, DiscardDraft(h) PROVE Moves
  BY <1>2, <1>3, <1>9 DEF DiscardDraft
<1>10. ASSUME NEW h \in Handler, StartPublish(h) \/ StartDiscard(h) PROVE Moves
  BY <1>4, <1>10 DEF StartPublish, StartDiscard
<1>11. ASSUME NEW h \in Handler, NEW s \in Source, StartSync(h, s) PROVE Moves
  BY <1>3, <1>11 DEF StartSync
<1>12. Moves
  BY <1>1, <1>2, <1>5, <1>6, <1>7, <1>8, <1>9, <1>10, <1>11 DEF Next, vars, SyncFails, StoreSynced, Change,
        RecordPull, DeleteSource, Fail, Push, Merge
<1> QED
  BY <1>12 DEF Moves

LEMMA RowsStep == IInv /\ [Next]_vars => RowsFit'
<1> SUFFICES ASSUME IInv, [Next]_vars PROVE RowsFit'
  OBVIOUS
<1>0. TypeOK /\ RowsFit /\ Grows /\ DocFits /\ RowFits(doc)
  BY GrowStep, DocStep DEF IInv, RowsFit
<1>1. doc \in Row /\ handler \in [Handler -> Work] /\ NoRow.current = 0 /\ NoRow.ref = NoRef /\ NoRow \in Row
  BY <1>0, Types, WorkTypes DEF NoRow
<1>2. RowFits(NoRow)
  BY <1>0, <1>1, Types DEF RowFits
<1>3. \A row \in Row : RowFits(row) => RowFits(row)'
  BY <1>0, RowStays
<1>4. ASSUME NEW g \in Handler
      PROVE  /\ RowFits(handler[g].row)'
             /\ handler'[g].row.current # 0 => doc'.current # 0
             /\ Reads(g)' => handler'[g].row.current # 0
  <2>1. handler[g].row \in Row /\ RowFits(handler[g].row) /\ (handler[g].row.current # 0 => doc.current # 0)
        /\ (Reads(g) => handler[g].row.current # 0)
    BY <1>0, <1>1 DEF RowsFit, Work, Reads
  <2>2. CASE handler'[g].row = NoRow /\ ~Reads(g)'
    BY <1>1, <1>2, <1>3, <2>2 DEF RowFits
  <2>3. CASE handler'[g].row = handler[g].row /\ (Reads(g)' => Reads(g))
    BY <1>0, <1>3, <2>1, <2>3 DEF RowFits, DocFits
  <2>4. CASE handler'[g].row = doc /\ doc.current # 0
    <3>1. RowFits(doc) /\ doc \in Row
      BY <1>0, <1>1
    <3>2. \E row \in Row : row = doc /\ RowFits(row)'
      BY <1>0, <3>1, <1>3 DEF RowFits
    <3> QED
      BY <1>0, <2>4, <3>2 DEF RowFits, DocFits
  <2> QED
    BY <2>2, <2>3, <2>4, RowsMove
<1> QED
  BY <1>0, <1>4 DEF RowsFit, DocFits, Reads

-----------------------------------------------------------------------------
(* The pull requests, and the types of everything. *)

PullsFit == pulls' \subseteq [base : Commit, draft : Tree, tree : Tree] /\ PullRequestIsTheDraft'

\* The changes are counted from a version and applied to a commit that hold the same.
LEMMA PullsStep == IInv /\ [Next]_vars => PullsFit
<1> SUFFICES ASSUME IInv, [Next]_vars PROVE PullsFit
  OBVIOUS
<1>0. TypeOK /\ RowsFit /\ PullRequestIsTheDraft
  BY DEF IInv
<1>1. ASSUME pulls' \subseteq pulls PROVE PullsFit
  BY <1>0, <1>1 DEF PullsFit, PullRequestIsTheDraft, TypeOK
<1>2. ASSUME NEW h \in Handler, OpenPull(h) PROVE PullsFit
  <2> DEFINE row == handler[h].row
             draft == versions[row.current].tree
             pull == [base |-> row.ref.commit, draft |-> draft,
                      tree |-> WithChanges(repo[row.ref.commit], versions[row.ref.published].tree, draft)]
  <2>1. row \in Row /\ RowFits(row) /\ row.current # 0
    BY <1>0, <1>2, Types DEF OpenPull, RowsFit, Work
  <2>2. /\ draft \in Tree /\ versions[row.ref.published].tree \in Tree
        /\ row.ref.commit \in 1 .. Len(repo) /\ repo[row.ref.commit] = versions[row.ref.published].tree
    BY <1>0, <2>1, RowFacts
  <2>3. pull.tree \in Tree /\ pull.tree = draft
    BY <2>2, ChangedTrees
  <2>4. row.ref.commit \in Commit
    BY <1>0, <2>2, Types DEF Commit
  <2>5. pull \in [base : Commit, draft : Tree, tree : Tree] /\ pull.tree = pull.draft
    BY <2>2, <2>3, <2>4
  <2>6. pulls' = pulls \cup {pull}
    BY <1>2 DEF OpenPull
  <2> HIDE DEF pull
  <2> QED
    BY <1>0, <2>5, <2>6 DEF PullsFit, PullRequestIsTheDraft, TypeOK
<1>3. ASSUME NEW pull \in pulls, Merge(pull) PROVE PullsFit
  BY <1>1, <1>3 DEF Merge
<1> QED
  BY <1>1, <1>2, <1>3 DEF Next, vars, StartSync, AddSource, ArchiveDocs, ReadHead, SyncFails, Apply, StoreSynced,
        Change, StartPublish, RecordPull, StartDiscard, DiscardDraft, DeleteSource, Fail, Push

LEMMA CountersStep ==
    IInv /\ [Next]_vars =>
        /\ requests' \in 0 .. MaxRequests /\ troubles' \in 0 .. MaxTroubles
        /\ races' \subseteq {"scan", "reference", "removed"}
        /\ newest' \in 0 .. MaxCommits
<1> SUFFICES ASSUME IInv, [Next]_vars
             PROVE  /\ requests' \in 0 .. MaxRequests /\ troubles' \in 0 .. MaxTroubles
                    /\ races' \subseteq {"scan", "reference", "removed"}
                    /\ newest' \in 0 .. MaxCommits
  OBVIOUS
<1>0. /\ requests \in 0 .. MaxRequests /\ troubles \in 0 .. MaxTroubles
      /\ races \subseteq {"scan", "reference", "removed"} /\ newest \in 0 .. MaxCommits
      /\ \A h \in Handler : handler[h].commit \in 0 .. MaxCommits
      /\ MaxRequests \in Nat /\ MaxTroubles \in Nat
  BY Types DEF IInv, TypeOK, Work
<1>1. requests' \in 0 .. MaxRequests
  <2>1. requests' = requests \/ (requests < MaxRequests /\ requests' = requests + 1)
    <3>1. ASSUME NEW h \in Handler, NEW s \in Source, StartSync(h, s) \/ AddSource(h, s) \/ ArchiveDocs(h, s)
          PROVE  requests < MaxRequests /\ requests' = requests + 1
      BY <3>1 DEF StartSync, AddSource, ArchiveDocs, Requested
    <3>2. ASSUME NEW h \in Handler, Change(h) \/ StartPublish(h) \/ StartDiscard(h)
          PROVE  requests < MaxRequests /\ requests' = requests + 1
      BY <3>2 DEF Change, StartPublish, StartDiscard, Requested
    <3> QED
      BY <3>1, <3>2 DEF Next, vars, ReadHead, SyncFails, Apply, StoreSynced, OpenPull, RecordPull, DiscardDraft,
            DeleteSource, Fail, Push, Merge
  <2> QED
    BY <1>0, <2>1
<1>2. troubles' \in 0 .. MaxTroubles
  <2>1. troubles' = troubles \/ (troubles < MaxTroubles /\ troubles' = troubles + 1)
    <3>1. ASSUME NEW h \in Handler, SyncFails(h) \/ Fail(h) PROVE troubles < MaxTroubles /\ troubles' = troubles + 1
      BY <3>1 DEF SyncFails, Fail
    <3> QED
      BY <3>1 DEF Next, vars, StartSync, AddSource, ArchiveDocs, ReadHead, Apply, StoreSynced, Change, StartPublish,
            OpenPull, RecordPull, StartDiscard, DiscardDraft, DeleteSource, Push, Merge
  <2> QED
    BY <1>0, <2>1
<1>3. races' \subseteq {"scan", "reference", "removed"}
  <2>1. ASSUME NEW h \in Handler, Apply(h) PROVE races' \subseteq {"scan", "reference", "removed"}
    <3>1. PICK a, b : races' = races \cup {r \in {"removed"} : a} \cup {r \in {"scan"} : b}
      BY <2>1 DEF Apply
    <3> QED
      BY <1>0, <3>1
  <2>2. ASSUME NEW h \in Handler, RecordPull(h) \/ DiscardDraft(h) \/ Fail(h)
        PROVE  races' \subseteq {"scan", "reference", "removed"}
    BY <1>0, <2>2 DEF RecordPull, DiscardDraft, Fail
  <2> QED
    BY <1>0, <2>1, <2>2 DEF Next, vars, StartSync, AddSource, ArchiveDocs, ReadHead, SyncFails, StoreSynced, Change,
        StartPublish, OpenPull, StartDiscard, DeleteSource, Push, Merge
<1>4. newest' \in 0 .. MaxCommits
  BY <1>0 DEF Next, vars, StartSync, AddSource, ArchiveDocs, ReadHead, SyncFails, Apply, StoreSynced, Change, StartPublish,
        OpenPull, RecordPull, StartDiscard, DiscardDraft, DeleteSource, Fail, Push, Merge
<1> QED
  BY <1>1, <1>2, <1>3, <1>4

LEMMA TypeStep == IInv /\ [Next]_vars => TypeOK'
<1> SUFFICES ASSUME IInv, [Next]_vars PROVE TypeOK'
  OBVIOUS
<1>1. Grows /\ DocFits /\ PullsFit /\ handler' \in [Handler -> Work]
  BY GrowStep, DocStep, PullsStep, HandlerTypeStep
<1> QED
  BY <1>1, CountersStep DEF TypeOK, Grows, RepoGrows, VersionsGrow, SourcesMove, DocFits, PullsFit, Content, Version,
        SourceRow, Work

-----------------------------------------------------------------------------
(* Where the handlers are, and the sources. *)

StepFits(g) ==
    /\ handler[g].step \in {"head", "apply", "synced", "delete"} =>
          handler[g].source \in Source /\ source[handler[g].source].status # "none"
    /\ handler[g].step \in {"apply", "synced"} => handler[g].commit \in 1 .. Len(repo)
    /\ handler[g].step = "synced" => handler[g].commit <= newest

LEMMA NewestStep == IInv /\ [Next]_vars => newest <= newest' /\ newest' \in Nat /\ newest \in Nat /\ newest' <= Len(repo')
<1> SUFFICES ASSUME IInv, [Next]_vars PROVE newest <= newest' /\ newest' \in Nat /\ newest \in Nat /\ newest' <= Len(repo')
  OBVIOUS
<1>0. TypeOK /\ StepsFit /\ Grows /\ newest \in Nat /\ newest <= Len(repo)
  BY GrowStep DEF IInv, StepsFit, TypeOK
<1>1. Len(repo) \in Nat /\ Len(repo') \in Nat /\ Len(repo) <= Len(repo')
  BY <1>0, Types DEF Grows, RepoGrows, Commit
<1>2. newest' = newest \/ (newest < newest' /\ newest' \in 1 .. Len(repo))
  <2>1. ASSUME NEW h \in Handler, Apply(h) PROVE newest' = newest \/ (newest < newest' /\ newest' \in 1 .. Len(repo))
    BY <1>0, <2>1 DEF Apply, StepsFit
  <2> QED
    BY <2>1 DEF Next, vars, StartSync, AddSource, ArchiveDocs, ReadHead, SyncFails, StoreSynced, Change, StartPublish,
          OpenPull, RecordPull, StartDiscard, DiscardDraft, DeleteSource, Fail, Push, Merge
<1> QED
  BY <1>0, <1>1, <1>2

LEMMA StepsStep == IInv /\ [Next]_vars => StepsFit'
<1> SUFFICES ASSUME IInv, [Next]_vars PROVE StepsFit'
  OBVIOUS
<1>0. /\ TypeOK /\ StepsFit /\ RowsFit /\ handler \in [Handler -> Work]
      /\ newest <= newest' /\ newest' \in Nat /\ newest \in Nat /\ newest' <= Len(repo')
      /\ \A s \in Source : source[s].status # "none" => source'[s].status # "none"
      /\ Len(repo) \in Nat /\ Len(repo') \in Nat /\ Len(repo) <= Len(repo') /\ Len(repo) >= 1
  BY Types, NewestStep, GrowStep DEF IInv, Grows, SourcesMove, RepoGrows, Commit
<1>1. ASSUME NEW g \in Handler, UNCHANGED handler[g] PROVE StepFits(g)'
  <2>1. StepFits(g) /\ handler[g].commit \in Nat
    BY <1>0 DEF StepsFit, StepFits, Work
  <2> QED
    BY <1>0, <1>1, <2>1 DEF StepFits
<1>2. ASSUME NEW h \in Handler, NEW next, Go(h, next),
             \/ next.step \in {"idle", "publish", "record", "discard"}
             \/ next.step \in {"head", "delete"} /\ next.source \in Source /\ source'[next.source].status # "none"
      PROVE  \A g \in Handler : StepFits(g)'
  <2>1. handler'[h] = next /\ \A g \in Handler \ {h} : UNCHANGED handler[g]
    BY <1>0, <1>2 DEF Go
  <2>2. StepFits(h)'
    BY <1>2, <2>1 DEF StepFits
  <2> QED
    BY <1>1, <2>1, <2>2
<1>3. ASSUME NEW h \in Handler, Go(h, Idle) PROVE \A g \in Handler : StepFits(g)'
  BY <1>2, <1>3 DEF Idle
<1>4. ASSUME NEW h \in Handler, NEW s \in Source, NEW force \in BOOLEAN, Go(h, Syncing(s, force)), Live(s)
      PROVE  \A g \in Handler : StepFits(g)'
  BY <1>0, <1>2, <1>4 DEF Syncing, Idle, Live
<1>5. ASSUME NEW h \in Handler, ReadHead(h) PROVE \A g \in Handler : StepFits(g)'
  <2>1. CASE Go(h, Idle)
    BY <1>3, <2>1
  <2>2. CASE Go(h, [handler[h] EXCEPT !.step = "apply", !.commit = Len(repo), !.force = FALSE, !.failed = FALSE])
    <3>1. \A g \in Handler \ {h} : UNCHANGED handler[g]
      BY <1>0, <2>2 DEF Go
    <3>2. handler'[h].step = "apply" /\ handler'[h].commit = Len(repo) /\ handler'[h].source = handler[h].source
      BY <1>0, <2>2 DEF Go, Work
    <3>3. handler[h].source \in Source /\ source[handler[h].source].status # "none"
      BY <1>0, <1>5 DEF StepsFit, ReadHead
    <3>4. StepFits(h)'
      BY <1>0, <3>2, <3>3 DEF StepFits
    <3> QED
      BY <1>1, <3>1, <3>4
  <2> QED
    BY <1>5, <2>1, <2>2 DEF ReadHead
<1>6. ASSUME NEW h \in Handler, Apply(h) PROVE \A g \in Handler : StepFits(g)'
  <2>1. \A g \in Handler \ {h} : UNCHANGED handler[g]
    BY <1>0, <1>6 DEF Apply, Go
  <2>2. handler'[h].step = "synced" /\ handler'[h].commit = handler[h].commit /\ handler'[h].source = handler[h].source
    BY <1>0, <1>6 DEF Apply, Go, Work
  <2>3. /\ handler[h].source \in Source /\ source[handler[h].source].status # "none"
        /\ handler[h].commit \in 1 .. Len(repo) /\ handler[h].commit <= newest'
    BY <1>0, <1>6 DEF StepsFit, Apply
  <2>4. StepFits(h)'
    BY <1>0, <2>2, <2>3 DEF StepFits
  <2> QED
    BY <1>1, <2>1, <2>4
<1>7. ASSUME NEW h \in Handler, StartPublish(h) \/ StartDiscard(h) PROVE \A g \in Handler : StepFits(g)'
  BY <1>2, <1>7 DEF StartPublish, StartDiscard, Idle
<1>8. ASSUME NEW h \in Handler, OpenPull(h) PROVE \A g \in Handler : StepFits(g)'
  <2>1. [handler[h] EXCEPT !.step = "record"].step = "record"
    BY <1>0 DEF Work
  <2> QED
    BY <1>2, <1>8, <2>1 DEF OpenPull
<1>9. ASSUME NEW h \in Handler, DiscardDraft(h) PROVE \A g \in Handler : StepFits(g)'
  <2>1. handler[h].row.ref.source \in Source
    BY <1>0, <1>9, RowFacts DEF DiscardDraft, RowsFit, Work
  <2> QED
    BY <1>3, <1>4, <1>9, <2>1 DEF DiscardDraft
<1>10. ASSUME NEW h \in Handler, NEW s \in Source, AddSource(h, s) PROVE \A g \in Handler : StepFits(g)'
  <2>1. source'[s].status = "live"
    BY <1>10 DEF AddSource, Source
  <2> QED
    BY <1>2, <1>10, <2>1 DEF AddSource, Idle
<1>11. ASSUME NEW h \in Handler, NEW s \in Source, ArchiveDocs(h, s) PROVE \A g \in Handler : StepFits(g)'
  BY <1>0, <1>2, <1>11 DEF ArchiveDocs, Idle, Live
<1>12. ASSUME NEW h \in Handler, NEW s \in Source, StartSync(h, s) PROVE \A g \in Handler : StepFits(g)'
  BY <1>4, <1>12 DEF StartSync
<1>13. \A g \in Handler : StepFits(g)'
  BY <1>1, <1>3, <1>5, <1>6, <1>7, <1>8, <1>9, <1>10, <1>11, <1>12 DEF Next, vars, SyncFails, StoreSynced, Change,
        RecordPull, DeleteSource, Fail, Push, Merge
<1> QED
  BY <1>0, <1>13 DEF StepsFit, StepFits

\* A source comes when no source above it is there, and takes the place of those below.
LEMMA SourceMoves ==
    ASSUME IInv, [Next]_vars
    PROVE  /\ OneLiveSource' /\ HeadWasApplied'
           /\ \A e \in Source :
                 /\ source[e].status = "removed" => source'[e].status = "removed"
                 /\ source[e].status = "replaced" => source'[e].status \in {"replaced", "removed"}
                 /\ source'[e].status = "removed" => source[e].status = "removed" \/ Deleting(e)
                 /\ Live(e)' => Live(e) \/ (source[e].status = "none" /\ source'[e].head = 0)
<1> DEFINE Moves ==
           /\ \A e \in Source :
                 /\ source[e].status = "removed" => source'[e].status = "removed"
                 /\ source[e].status = "replaced" => source'[e].status \in {"replaced", "removed"}
                 /\ source'[e].status = "removed" => source[e].status = "removed" \/ Deleting(e)
                 /\ Live(e)' => Live(e) \/ (source[e].status = "none" /\ source'[e].head = 0)
                 /\ ~source'[e].failed => source'[e].head <= newest
           /\ \A e, s \in Source : Live(e)' /\ Live(s)' => e = s
<1>0. /\ OneLiveSource /\ HeadWasApplied /\ StepsFit /\ source \in [Source -> SourceRow]
      /\ newest <= newest' /\ newest' \in Nat /\ newest \in Nat
      /\ handler \in [Handler -> Work]
  BY Types, NewestStep DEF IInv
<1>1. ASSUME UNCHANGED source PROVE Moves
  BY <1>0, <1>1 DEF OneLiveSource, HeadWasApplied, Live
<1>2. ASSUME NEW s \in Source, NEW row, source' = [source EXCEPT ![s] = row],
             \/ row.status = source[s].status
             \/ row.status = "removed" /\ Deleting(s),
             ~row.failed => row.head <= newest
      PROVE  Moves
  <2>1. source'[s] = row /\ \A e \in Source \ {s} : source'[e] = source[e]
    BY <1>0, <1>2
  <2>2. \A e \in Source : /\ source[e].status = "removed" => source'[e].status = "removed"
                          /\ source[e].status = "replaced" => source'[e].status \in {"replaced", "removed"}
                          /\ source'[e].status = "removed" => source[e].status = "removed" \/ Deleting(e)
                          /\ Live(e)' => Live(e)
    BY <1>2, <2>1 DEF Live
  <2>3. \A e \in Source : ~source'[e].failed => source'[e].head <= newest
    BY <1>0, <1>2, <2>1 DEF HeadWasApplied
  <2> QED
    BY <1>0, <2>2, <2>3 DEF OneLiveSource
<1>3. ASSUME NEW h \in Handler, SyncFails(h) PROVE Moves
  <2> DEFINE p == handler[h]
             row == [[source[p.source] EXCEPT !.head = p.head] EXCEPT !.failed = TRUE]
  <2>1. p.source \in Source /\ source[p.source] \in SourceRow
    BY <1>0, <1>3 DEF SyncFails, StepsFit
  <2>2. row.failed = TRUE /\ row.status = source[p.source].status
    BY <2>1 DEF SourceRow
  <2>3. source' = [source EXCEPT ![p.source] = row]
    BY <1>0, <1>3, <2>1 DEF SyncFails
  <2> HIDE DEF row, Moves
  <2> QED
    BY <1>2, <2>1, <2>2, <2>3
<1>4. ASSUME NEW h \in Handler, StoreSynced(h) PROVE Moves
  <2> DEFINE p == handler[h]
             head == IF p.taken THEN p.head ELSE p.commit
             row == [[source[p.source] EXCEPT !.head = head] EXCEPT !.failed = p.taken]
  <2>1. p.source \in Source /\ source[p.source] \in SourceRow /\ p.commit <= newest /\ p.taken \in BOOLEAN
    BY <1>0, <1>4 DEF StoreSynced, StepsFit, Work
  <2>2. row.failed = p.taken /\ row.status = source[p.source].status /\ row.head = head
    BY <2>1 DEF SourceRow
  <2>3. source' = [source EXCEPT ![p.source] = row]
    BY <1>0, <1>4, <2>1 DEF StoreSynced
  <2>4. ~row.failed => row.head <= newest
    BY <2>1, <2>2
  <2> HIDE DEF row, Moves
  <2> QED
    BY <1>2, <2>1, <2>2, <2>3, <2>4
<1>5. ASSUME NEW h \in Handler, DeleteSource(h) PROVE Moves
  <2> DEFINE s == handler[h].source
             row == [source[s] EXCEPT !.status = "removed"]
  <2>1. s \in Source /\ source[s] \in SourceRow /\ Deleting(s)
    BY <1>0, <1>5 DEF DeleteSource, StepsFit, Deleting
  <2>2. row.status = "removed" /\ row.failed = source[s].failed /\ row.head = source[s].head
    BY <2>1 DEF SourceRow
  <2>3. source' = [source EXCEPT ![s] = row]
    BY <1>5 DEF DeleteSource
  <2>4. ~row.failed => row.head <= newest
    BY <1>0, <2>1, <2>2 DEF HeadWasApplied
  <2> HIDE DEF row, Moves, s
  <2> QED
    BY <1>2, <2>1, <2>2, <2>3, <2>4
<1>6. ASSUME NEW h \in Handler, NEW s \in Source, AddSource(h, s) PROVE Moves
  <2>1. source'[s].status = "live" /\ source'[s].head = 0 /\ source[s].status = "none"
    BY <1>6 DEF AddSource, Source
  <2>2. ASSUME NEW e \in Source, e # s
        PROVE  /\ source'[e].head = source[e].head /\ source'[e].failed = source[e].failed
               /\ ~Live(e)'
               /\ source'[e].status = source[e].status \/ (Live(e) /\ source'[e].status = "replaced")
    <3>0. source[e] \in SourceRow
      BY <1>0
    <3>1. CASE e < s /\ Live(e)
      <4>1. source'[e] = [source[e] EXCEPT !.status = "replaced"]
        BY <1>6, <2>2, <3>1 DEF AddSource, Source
      <4> QED
        BY <3>0, <3>1, <4>1 DEF SourceRow, Live
    <3>2. CASE ~(e < s /\ Live(e))
      <4>1. source'[e] = source[e]
        BY <1>6, <2>2, <3>2 DEF AddSource, Source
      <4>2. ~Live(e)
        BY <1>6, <2>2, <3>2 DEF AddSource, Source
      <4> QED
        BY <4>1, <4>2 DEF Live
    <3> QED
      BY <3>1, <3>2
  <2>3. \A e \in Source : ~source'[e].failed => source'[e].head <= newest
    BY <1>0, <2>1, <2>2 DEF HeadWasApplied
  <2> QED
    BY <2>1, <2>2, <2>3 DEF Live
<1> HIDE DEF Moves
<1>7. Moves
  BY <1>1, <1>3, <1>4, <1>5, <1>6 DEF Next, vars, StartSync, ArchiveDocs, ReadHead, Apply, Change, StartPublish,
        OpenPull, RecordPull, StartDiscard, DiscardDraft, Fail, Push, Merge
<1>8. \A e \in Source : source'[e].head \in Int
  <2>1. source' \in [Source -> SourceRow] /\ MaxCommits \in Nat
    BY SourcesStep, Types DEF SourcesMove, IInv
  <2> QED
    BY <2>1 DEF SourceRow
<1>9. HeadWasApplied'
  BY <1>0, <1>7, <1>8 DEF Moves, HeadWasApplied
<1> QED
  BY <1>7, <1>9 DEF Moves, OneLiveSource

\* How a handler comes to a step, and how it leaves it.
LEMMA HandlerMoves ==
    ASSUME IInv, [Next]_vars, NEW g \in Handler
    PROVE  /\ handler'[g].step = "delete" =>
                 \/ UNCHANGED handler[g]
                 \/ handler'[g].source \in Source /\ ArchiveDocs(g, handler'[g].source)
           /\ handler[g].step = "delete" => UNCHANGED handler[g] \/ DeleteSource(g) \/ Fail(g)
           /\ handler'[g].step = "synced" => UNCHANGED handler[g] \/ Apply(g)
           /\ handler[g].step = "apply" \/ (handler[g].step = "head" /\ handler[g].force) =>
                 \/ UNCHANGED handler[g] \/ Apply(g) \/ SyncFails(g)
                 \/ handler'[g].step = "apply" /\ handler'[g].source = handler[g].source
<1> DEFINE Moves ==
           /\ handler'[g].step = "delete" =>
                 \/ UNCHANGED handler[g]
                 \/ handler'[g].source \in Source /\ ArchiveDocs(g, handler'[g].source)
           /\ handler[g].step = "delete" => UNCHANGED handler[g] \/ DeleteSource(g) \/ Fail(g)
           /\ handler'[g].step = "synced" => UNCHANGED handler[g] \/ Apply(g)
           /\ handler[g].step = "apply" \/ (handler[g].step = "head" /\ handler[g].force) =>
                 \/ UNCHANGED handler[g] \/ Apply(g) \/ SyncFails(g)
                 \/ handler'[g].step = "apply" /\ handler'[g].source = handler[g].source
<1>0. handler \in [Handler -> Work]
  BY Types DEF IInv
<1>1. ASSUME UNCHANGED handler[g] PROVE Moves
  BY <1>1
<1>2. ASSUME NEW h \in Handler, NEW next, Go(h, next), h # g PROVE Moves
  BY <1>0, <1>2 DEF Go
<1>3. ASSUME NEW next, Go(g, next), next.step \in {"idle", "head", "publish", "discard"},
             handler[g].step \in {"idle", "publish", "record", "discard", "synced"}
      PROVE  Moves
  BY <1>0, <1>3 DEF Go
<1>4. ASSUME ReadHead(g) PROVE Moves
  <2>1. handler[g].step = "head"
    BY <1>4 DEF ReadHead
  <2>2. CASE Go(g, Idle) /\ ~handler[g].force
    BY <1>0, <2>1, <2>2 DEF Go, Idle
  <2>3. CASE Go(g, [handler[g] EXCEPT !.step = "apply", !.commit = Len(repo), !.force = FALSE, !.failed = FALSE])
    <3>1. handler'[g].step = "apply" /\ handler'[g].source = handler[g].source
      BY <1>0, <2>3 DEF Go, Work
    <3> QED
      BY <2>1, <3>1
  <2> QED
    BY <1>4, <2>2, <2>3 DEF ReadHead
<1>5. ASSUME SyncFails(g) PROVE Moves
  BY <1>0, <1>5 DEF SyncFails, Go, Idle
<1>6. ASSUME Apply(g) PROVE Moves
  <2>1. handler'[g].step = "synced" /\ handler[g].step = "apply"
    BY <1>0, <1>6 DEF Apply, Go, Work
  <2> QED
    BY <1>6, <2>1
<1>7. ASSUME OpenPull(g) PROVE Moves
  <2>1. handler'[g].step = "record" /\ handler[g].step = "publish"
    BY <1>0, <1>7 DEF OpenPull, Go, Work
  <2> QED
    BY <2>1
<1>8. ASSUME DeleteSource(g) \/ Fail(g) PROVE Moves
  <2>1. handler'[g].step = "idle" /\ handler[g].step \in {"synced", "record", "delete"}
    BY <1>0, <1>8 DEF DeleteSource, Fail, Go, Idle
  <2> QED
    BY <1>8, <2>1
<1>9. ASSUME NEW s \in Source, ArchiveDocs(g, s) PROVE Moves
  <2>1. handler'[g].step = "delete" /\ handler'[g].source = s /\ handler[g].step = "idle"
    BY <1>0, <1>9 DEF ArchiveDocs, Requested, Go, Idle
  <2> QED
    BY <1>9, <2>1
<1> HIDE DEF Moves
<1>10. ASSUME NEW s, NEW force, Go(g, Syncing(s, force)), handler[g].step \in {"idle", "discard"} PROVE Moves
  BY <1>3, <1>10 DEF Syncing, Idle
<1>11. ASSUME Go(g, Idle), handler[g].step \in {"record", "discard", "synced"} PROVE Moves
  BY <1>3, <1>11 DEF Idle
<1>12. ASSUME NEW s \in Source, StartSync(g, s) \/ AddSource(g, s) PROVE Moves
  BY <1>3, <1>10, <1>12 DEF StartSync, AddSource, Requested, Idle
<1>13. ASSUME StoreSynced(g) \/ RecordPull(g) PROVE Moves
  BY <1>11, <1>13 DEF StoreSynced, RecordPull
<1>14. ASSUME StartPublish(g) \/ StartDiscard(g) PROVE Moves
  BY <1>3, <1>14 DEF StartPublish, StartDiscard, Requested, Idle
<1>15. ASSUME DiscardDraft(g) PROVE Moves
  BY <1>10, <1>11, <1>15 DEF DiscardDraft
<1>16. ASSUME NEW h \in Handler, h # g,
              \/ \E s \in Source : StartSync(h, s) \/ AddSource(h, s) \/ ArchiveDocs(h, s)
              \/ ReadHead(h) \/ SyncFails(h) \/ Apply(h) \/ StoreSynced(h)
              \/ StartPublish(h) \/ OpenPull(h) \/ RecordPull(h)
              \/ StartDiscard(h) \/ DiscardDraft(h) \/ DeleteSource(h) \/ Fail(h)
       PROVE  Moves
  BY <1>2, <1>16 DEF StartSync, AddSource, ArchiveDocs, ReadHead, SyncFails, Apply, StoreSynced, StartPublish, OpenPull,
        RecordPull, StartDiscard, DiscardDraft, DeleteSource, Fail
<1>17. Moves
  BY <1>1, <1>4, <1>5, <1>6, <1>7, <1>8, <1>9, <1>12, <1>13, <1>14, <1>15, <1>16 DEF Next, vars, Change, Push, Merge
<1> QED
  BY <1>17 DEF Moves

\* What a step leaves alone when it is not too late.
LEMMA RaceFree ==
    ASSUME IInv, [Next]_vars, races' = {}
    PROVE  /\ races = {}
           /\ \A h \in Handler :
                 /\ Apply(h) => /\ Live(handler[h].source) /\ ~Deleting(handler[h].source)
                                /\ ~(handler[h].commit < newest)
                 /\ RecordPull(h) => doc' = doc
                 /\ DiscardDraft(h) => doc' = doc \/ doc.ref = handler[h].row.ref
                 /\ Fail(h) => handler[h].step # "delete"
<1>1. races \subseteq races'
  BY DEF Next, vars, StartSync, AddSource, ArchiveDocs, ReadHead, SyncFails, Apply, StoreSynced, Change, StartPublish,
        OpenPull, RecordPull, StartDiscard, DiscardDraft, DeleteSource, Fail, Push, Merge
<1>2. ASSUME NEW h \in Handler, Apply(h)
      PROVE  /\ Live(handler[h].source) /\ ~Deleting(handler[h].source)
             /\ ~(handler[h].commit < newest)
  <2>1. {r \in {"removed"} : Leaving(handler[h].source)} = {} /\ {r \in {"scan"} : handler[h].commit < newest} = {}
    BY <1>2 DEF Apply
  <2>2. ~Leaving(handler[h].source) /\ ~(handler[h].commit < newest)
    BY <2>1
  <2> QED
    BY <2>2 DEF Leaving, Deleting
<1>3. ASSUME NEW h \in Handler, RecordPull(h) PROVE doc' = doc
  <2>1. doc.ref = handler[h].row.ref
    BY <1>3 DEF RecordPull
  <2>2. doc' = [doc EXCEPT !.ref = handler[h].row.ref]
    BY <1>3 DEF RecordPull
  <2>3. doc \in Row
    BY Types DEF IInv
  <2> QED
    BY <2>1, <2>2, <2>3 DEF Row
<1>4. ASSUME NEW h \in Handler, DiscardDraft(h) PROVE doc' = doc \/ doc.ref = handler[h].row.ref
  BY <1>4 DEF DiscardDraft
<1>5. ASSUME NEW h \in Handler, Fail(h) PROVE handler[h].step # "delete"
  BY <1>5 DEF Fail
<1> QED
  BY <1>1, <1>2, <1>3, <1>4, <1>5

-----------------------------------------------------------------------------
(* What the doc shows. *)

LEMMA DeletingMoves ==
    ASSUME IInv, [Next]_vars, NEW e \in Source
    PROVE  /\ Deleting(e)' => Deleting(e) \/ \E h \in Handler : ArchiveDocs(h, e)
           /\ races' = {} /\ Deleting(e) => Deleting(e)' \/ source'[e].status = "removed"
<1>1. ASSUME Deleting(e)' PROVE Deleting(e) \/ \E h \in Handler : ArchiveDocs(h, e)
  <2>1. PICK g \in Handler : handler'[g].step = "delete" /\ handler'[g].source = e
    BY <1>1 DEF Deleting
  <2> QED
    BY <2>1, HandlerMoves DEF Deleting
<1>2. ASSUME races' = {}, Deleting(e) PROVE Deleting(e)' \/ source'[e].status = "removed"
  <2>1. PICK g \in Handler : handler[g].step = "delete" /\ handler[g].source = e
    BY <1>2 DEF Deleting
  <2>2. ~Fail(g)
    BY <1>2, <2>1, RaceFree
  <2>3. CASE UNCHANGED handler[g]
    BY <2>1, <2>3 DEF Deleting
  <2>4. CASE DeleteSource(g)
    <3>1. source \in [Source -> SourceRow]
      BY Types DEF IInv
    <3> QED
      BY <2>1, <2>4, <3>1 DEF DeleteSource, SourceRow
  <2> QED
    BY <2>1, <2>2, <2>3, <2>4, HandlerMoves
<1> QED
  BY <1>1, <1>2

\* A doc that a scan was applied to, by the source of the scan.
LEMMA AppliedDoc ==
    ASSUME IInv, [Next]_vars, races' = {}, NEW h \in Handler, Apply(h),
           NEW s, s = handler[h].source
    PROVE  /\ s \in Source /\ Live(s)' /\ ~Deleting(s)' /\ UNCHANGED <<source, repo, troubles>>
           /\ newest' = handler[h].commit /\ newest' \in 1 .. Len(repo)
           /\ \/ /\ repo[newest'] # NoDoc
                 /\ doc'.ref.source = s /\ ~doc'.archived /\ doc'.current # 0
                 /\ \/ versions'[doc'.ref.published].tree = repo[newest']
                    \/ doc'.ref.ahead /\ Draft(doc')
              \/ /\ repo[newest'] = NoDoc
                 /\ doc' = [doc EXCEPT !.archived = doc.archived \/ doc.ref.source = s]
<1> DEFINE c == handler[h].commit
<1>0. /\ TypeOK /\ RowsFit /\ StepsFit /\ OneLiveSource /\ handler \in [Handler -> Work] /\ doc \in Row
      /\ RowFits(doc) /\ newest \in Nat /\ Grows
  BY Types, NewestStep, GrowStep DEF IInv, RowsFit
<1>1. s \in Source /\ c \in 1 .. Len(repo) /\ repo[c] \in Content /\ Len(repo) \in Nat
  BY <1>0, Types DEF Apply, StepsFit
<1>2. Live(s) /\ ~Deleting(s) /\ ~(c < newest)
  BY RaceFree
<1>3. UNCHANGED <<source, repo, troubles>> /\ Live(s)'
  BY <1>2 DEF Apply, Live
<1>4. ~Deleting(s)'
  <2>1. ~\E g \in Handler : ArchiveDocs(g, s)
    <3>1. handler[h].step = "apply" /\ handler'[h].step = "synced"
      BY <1>0 DEF Apply, Go, Work
    <3>2. ASSUME NEW g \in Handler, ArchiveDocs(g, s) PROVE FALSE
      BY <1>0, <3>1, <3>2 DEF ArchiveDocs, Go, Requested, Idle
    <3> QED
      BY <3>2
  <2> QED
    BY <1>1, <1>2, <2>1, DeletingMoves
<1>5. newest' = c /\ newest' \in 1 .. Len(repo)
  BY <1>0, <1>1, <1>2 DEF Apply
<1>6. ~Taken(s)
  <2>1. doc.ref.source # 0 => doc.ref.source \in Source
    BY <1>0, Types DEF Row, Ref, Source
  <2> QED
    BY <1>0, <1>1, <1>2, <2>1 DEF Taken, OneLiveSource
<1> HIDE DEF c
<1>7. ASSUME repo[c] # NoDoc, FollowGitHub(s, c)
      PROVE  /\ doc'.ref.source = s /\ ~doc'.archived /\ doc'.current # 0
             /\ versions'[doc'.ref.published].tree = repo[c]
  <2>1. repo[c] \in Tree
    BY <1>1, <1>7 DEF Content
  <2>2. Recorded(doc, repo[c]) \in 1 .. Len(versions') /\ versions'[Recorded(doc, repo[c])].tree = repo[c]
    BY <1>0, <1>7, <2>1, RecordedVersion DEF FollowGitHub
  <2> QED
    BY <1>7, <2>2 DEF FollowGitHub, AtCommit
<1>8. ASSUME Draft(doc), KeepDraft(s, c)
      PROVE  /\ doc'.ref.source = s /\ ~doc'.archived /\ doc'.current # 0
             /\ \/ versions'[doc'.ref.published].tree = repo[c]
                \/ doc'.ref.ahead /\ Draft(doc')
  <2>1. doc.current # 0 /\ doc.ref \in Ref /\ versions' = versions
    BY <1>0, <1>8 DEF Draft, RowFits, NoRef, Row, KeepDraft
  <2>2. CASE versions[doc.current].tree = repo[c]
    <3>1. doc'.ref = AtCommit(s, doc.current, c) /\ doc'.current = doc.current /\ doc'.archived = FALSE
      BY <1>0, <1>8, <2>2 DEF KeepDraft, Row
    <3> QED
      BY <2>1, <2>2, <3>1 DEF AtCommit
  <2>3. CASE versions[doc.current].tree # repo[c]
    <3>1. doc' = [doc EXCEPT !.archived = FALSE, !.ref = [doc.ref EXCEPT !.source = s,
                    !.ahead = @ \/ versions[doc.ref.published].tree # repo[c]]]
      BY <1>8, <2>3 DEF KeepDraft
    <3>2. /\ doc'.current = doc.current /\ doc'.archived = FALSE /\ doc'.ref.source = s
          /\ doc'.ref.published = doc.ref.published
          /\ versions[doc.ref.published].tree # repo[c] => doc'.ref.ahead
      BY <1>0, <2>1, <3>1 DEF Row, Ref
    <3> QED
      BY <1>8, <2>1, <3>2 DEF Draft
  <2> QED
    BY <2>2, <2>3
<1>9. ASSUME repo[c] # NoDoc PROVE FollowGitHub(s, c) \/ (Draft(doc) /\ KeepDraft(s, c))
  BY <1>6, <1>9 DEF Apply, c
<1>10. ASSUME repo[c] = NoDoc PROVE doc' = [doc EXCEPT !.archived = doc.archived \/ doc.ref.source = s]
  BY <1>10 DEF Apply, c
<1>11. \/ /\ repo[c] # NoDoc
          /\ doc'.ref.source = s /\ ~doc'.archived /\ doc'.current # 0
          /\ \/ versions'[doc'.ref.published].tree = repo[c]
             \/ doc'.ref.ahead /\ Draft(doc')
       \/ repo[c] = NoDoc /\ doc' = [doc EXCEPT !.archived = doc.archived \/ doc.ref.source = s]
  BY <1>7, <1>8, <1>9, <1>10
<1> QED
  BY <1>1, <1>3, <1>4, <1>5, <1>11 DEF c

\* The steps that change the doc.
LEMMA DocMoves ==
    ASSUME IInv, [Next]_vars, races' = {}
    PROVE  \/ doc' = doc /\ UNCHANGED newest
           \/ \E h \in Handler : Apply(h)
           \/ \E h \in Handler : (Change(h) \/ (DiscardDraft(h) /\ doc.ref = handler[h].row.ref)) /\ UNCHANGED newest
           \/ \E h \in Handler : \E s \in Source :
                 /\ ArchiveDocs(h, s) /\ UNCHANGED newest /\ Live(s) /\ Deleting(s)'
                 /\ doc' = [doc EXCEPT !.archived = doc.archived \/ doc.ref.source = s]
<1>1. ASSUME NEW h \in Handler, NEW s \in Source, ArchiveDocs(h, s)
      PROVE  /\ UNCHANGED newest /\ Live(s) /\ Deleting(s)'
             /\ doc' = [doc EXCEPT !.archived = doc.archived \/ doc.ref.source = s]
  <2>1. handler'[h].step = "delete" /\ handler'[h].source = s
    BY <1>1, Types DEF ArchiveDocs, Go, Idle, IInv
  <2> QED
    BY <1>1, <2>1 DEF ArchiveDocs, Deleting
<1> QED
  BY <1>1, RaceFree DEF Next, vars, StartSync, AddSource, ReadHead, SyncFails, StoreSynced, Change, StartPublish,
        OpenPull, RecordPull, StartDiscard, DiscardDraft, DeleteSource, Fail, Push, Merge

\* A person's change or the end of a draft: of the row only the versions change,
\* and what was published keeps its files.
LEMMA EditedDoc ==
    ASSUME IInv, [Next]_vars, NEW h \in Handler, Change(h) \/ (DiscardDraft(h) /\ doc.ref = handler[h].row.ref)
    PROVE  /\ doc.current # 0 /\ doc'.current # 0
           /\ doc'.ref.source = doc.ref.source /\ doc'.ref.ahead = doc.ref.ahead /\ doc'.archived = doc.archived
           /\ versions'[doc'.ref.published].tree = versions[doc.ref.published].tree
<1>0. /\ TypeOK /\ RowsFit /\ handler \in [Handler -> Work] /\ doc \in Row /\ RowFits(doc) /\ doc.ref \in Ref
      /\ VersionsGrow
  BY Types, VersionsStep DEF IInv, RowsFit, Row
<1>1. doc.current # 0
  BY <1>0 DEF Change, DiscardDraft, RowsFit
<1>2. doc'.current # 0
  BY <1>1, DocStep DEF DocFits
<1>3. doc.ref.published \in 1 .. Len(versions) /\ versions[doc.ref.published].tree \in Tree
  BY <1>0, <1>1, RowFacts
<1>4. CASE Change(h)
  <2>1. doc'.ref = doc.ref /\ doc'.archived = doc.archived
    BY <1>0, <1>4 DEF Change, Row
  <2>2. versions'[doc.ref.published] = versions[doc.ref.published]
    BY <1>0, <1>3 DEF VersionsGrow
  <2> QED
    BY <1>1, <1>2, <2>1, <2>2
<1>5. CASE DiscardDraft(h) /\ doc.ref = handler[h].row.ref
  <2>1. CASE doc' = doc
    BY <1>0, <1>1, <1>3, <2>1 DEF VersionsGrow
  <2>2. CASE doc' # doc
    <3> DEFINE row == handler[h].row
               tree == versions[row.ref.published].tree
               new == Recorded(row, tree)
    <3>1. row \in Row /\ RowFits(row) /\ doc.ref = row.ref /\ tree \in Tree
      BY <1>0, <1>3, <1>5 DEF DiscardDraft, RowsFit, Work
    <3>2. /\ new <= MaxVersions /\ versions' = VersionsWith(row, tree, "person")
          /\ doc' = [doc EXCEPT !.current = IF SameAsCurrent(row, tree) THEN @ ELSE new,
                                !.ref = [row.ref EXCEPT !.published = new]]
      BY <1>5, <2>2 DEF DiscardDraft
    <3> HIDE DEF row
    <3>3. versions'[new].tree = tree
      BY <1>0, <3>1, <3>2, RecordedVersion
    <3> HIDE DEF new, tree
    <3>4. doc'.ref = [doc.ref EXCEPT !.published = new] /\ doc'.archived = doc.archived
      BY <1>0, <3>1, <3>2 DEF Row
    <3>5. doc'.ref.source = doc.ref.source /\ doc'.ref.ahead = doc.ref.ahead /\ doc'.ref.published = new
      BY <1>0, <3>4 DEF Ref
    <3> QED
      BY <1>1, <1>2, <3>1, <3>3, <3>4, <3>5 DEF tree
  <2> QED
    BY <2>1, <2>2
<1> QED
  BY <1>4, <1>5

\* Who deletes a source archives its doc first, and no scan brings the doc back.
LEMMA RemovedStep == IInv /\ [Next]_vars => RemovedIsArchived'
<1> SUFFICES ASSUME IInv, [Next]_vars, races' = {}, doc'.ref.source # 0,
                    (source[doc.ref.source].status = "removed" \/ Deleting(doc.ref.source))'
             PROVE  doc'.archived
  BY DEF RemovedIsArchived
<1>0. /\ RemovedIsArchived /\ races = {} /\ doc \in Row /\ doc' \in Row
      /\ \A row \in Row : row.ref.source # 0 => row.ref.source \in Source
      /\ Row = [current : 0 .. MaxVersions, ref : Ref, archived : BOOLEAN]
  <2>1. \A row \in Row : row.ref.source # 0 => row.ref.source \in Source
    BY DepthAssumption DEF Row, Ref, Source
  <2> QED
    BY <2>1, RaceFree, DocStep, Types DEF IInv, DocFits, Row
<1>1. PICK d \in Source : d = doc'.ref.source
  BY <1>0
<1>2. source'[d].status = "removed" \/ Deleting(d)'
  BY <1>1 DEF Deleting
<1>3. \/ source[d].status = "removed" \/ Deleting(d) \/ \E h \in Handler : ArchiveDocs(h, d)
  BY <1>2, SourceMoves, DeletingMoves
<1>4. (source[d].status = "removed" \/ Deleting(d)) /\ doc.ref.source = d => doc.archived
  BY <1>0, <1>1 DEF RemovedIsArchived, Source
<1>5. ASSUME NEW h \in Handler, NEW s \in Source, ArchiveDocs(h, s) PROVE doc'.archived
  <2>1. doc'.archived = (doc.archived \/ doc.ref.source = s) /\ doc'.ref = doc.ref
    BY <1>0, <1>5 DEF ArchiveDocs
  <2>2. CASE s = d
    BY <1>1, <2>1, <2>2
  <2>3. CASE s # d
    <3>1. handler \in [Handler -> Work]
      BY Types DEF IInv
    <3>2. ~\E g \in Handler : ArchiveDocs(g, d)
      BY <1>5, <2>3, <3>1, Types DEF ArchiveDocs, Go, Idle, IInv, OneLiveSource
    <3> QED
      BY <1>1, <1>3, <1>4, <2>1, <3>2
  <2> QED
    BY <2>2, <2>3
<1>6. ASSUME ~\E h \in Handler : ArchiveDocs(h, d), doc'.ref.source = doc.ref.source, doc.archived => doc'.archived
      PROVE  doc'.archived
  BY <1>1, <1>3, <1>4, <1>6
<1>7. ASSUME NEW h \in Handler, Apply(h) PROVE doc'.archived
  <2>1. ~\E g \in Handler : ArchiveDocs(g, d)
    <3>1. handler[h].step = "apply" /\ handler'[h].step = "synced"
      BY <1>7, Types DEF Apply, Go, Work, IInv
    <3>2. ASSUME NEW g \in Handler, ArchiveDocs(g, d) PROVE FALSE
      BY <3>1, <3>2, Types DEF ArchiveDocs, Go, Requested, Idle, IInv
    <3> QED
      BY <3>2
  <2>2. PICK s : s = handler[h].source
    OBVIOUS
  <2>3. s \in Source /\ Live(s)' /\ ~Deleting(s)'
    BY <1>7, <2>2, AppliedDoc
  <2>4. d # s
    BY <1>2, <2>3 DEF Live
  <2>5. doc' = [doc EXCEPT !.archived = doc.archived \/ doc.ref.source = s]
    BY <1>1, <1>7, <2>2, <2>4, AppliedDoc
  <2>6. doc'.ref = doc.ref /\ doc'.archived = (doc.archived \/ doc.ref.source = s)
    BY <1>0, <2>5
  <2> QED
    BY <1>6, <2>1, <2>6
<1> QED
  BY <1>5, <1>6, <1>7, DocMoves, EditedDoc

\* A doc that is gone stays so while nothing but its versions and its archive change.
LEMMA GoneStays ==
    ASSUME IInv, [Next]_vars, races' = {}, Gone, doc'.ref.source = doc.ref.source,
           doc.current = 0 => doc'.current = 0, doc.archived => doc'.archived
    PROVE  Gone'
<1>1. CASE doc.current = 0 \/ doc.archived
  BY <1>1 DEF Gone
<1>2. CASE Orphaned
  <2>1. doc.ref.source \in Source
    BY <1>2, Types DEF IInv, Orphaned, Row, Ref, Source
  <2>2. source'[doc.ref.source].status \in {"replaced", "removed"}
    BY <1>2, <2>1, SourceMoves DEF Orphaned
  <2>3. RemovedIsArchived' /\ doc.ref.source # 0
    BY <1>2, RemovedStep DEF Orphaned
  <2>4. source'[doc'.ref.source].status = "removed" => doc'.archived
    BY <2>3 DEF RemovedIsArchived
  <2> QED
    BY <2>2, <2>3, <2>4 DEF Gone, Orphaned
<1> QED
  BY <1>1, <1>2 DEF Gone

\* Where the commit of a source comes from.
LEMMA AppliedMoves ==
    ASSUME IInv, [Next]_vars, NEW e \in Source, Applied(e)', ~\E h \in Handler : Apply(h)
    PROVE  Applied(e)
<1>0. /\ StepsFit /\ source \in [Source -> SourceRow] /\ handler \in [Handler -> Work]
  BY Types DEF IInv
<1>1. CASE \E g \in Handler : handler'[g].step = "synced" /\ handler'[g].source = e /\ ~handler'[g].taken
  <2>1. PICK g \in Handler : handler'[g].step = "synced" /\ handler'[g].source = e /\ ~handler'[g].taken
    BY <1>1
  <2>2. UNCHANGED handler[g]
    BY <2>1, HandlerMoves
  <2>3. source[e].status # "none"
    BY <1>0, <2>1, <2>2 DEF StepsFit
  <2>4. Live(e)
    BY <2>3, SourceMoves DEF Applied
  <2> QED
    BY <2>1, <2>2, <2>4 DEF Applied
<1>2. CASE ~source'[e].failed /\ source'[e].head # 0
  <2>1. Live(e)
    BY <1>2, SourceMoves DEF Applied
  <2>2. CASE source'[e].failed = source[e].failed /\ source'[e].head = source[e].head
    BY <1>2, <2>1, <2>2 DEF Applied
  <2>3. ASSUME NEW h \in Handler, SyncFails(h) PROVE source'[e] = source[e]
    <3>1. handler[h].source # e
      BY <1>0, <1>2, <2>3 DEF SyncFails, SourceRow
    <3> QED
      BY <1>0, <2>3, <3>1 DEF SyncFails
  <2>4. ASSUME NEW h \in Handler, StoreSynced(h), handler[h].source = e PROVE Applied(e)
    <3>1. source'[e].failed = handler[h].taken
      BY <1>0, <2>4 DEF StoreSynced, SourceRow
    <3> QED
      BY <1>2, <2>1, <2>4, <3>1 DEF StoreSynced, Applied
  <2>5. ASSUME NEW h \in Handler, StoreSynced(h), handler[h].source # e PROVE source'[e] = source[e]
    BY <1>0, <2>5 DEF StoreSynced
  <2>6. ASSUME NEW h \in Handler, NEW s \in Source, AddSource(h, s) PROVE FALSE
    <3>1. e # s
      BY <1>2, <2>6 DEF AddSource, Source
    <3>2. ~(Live(e)' /\ Live(e))
      BY <1>0, <2>6, <3>1 DEF AddSource, Source, Live, SourceRow
    <3> QED
      BY <2>1, <3>2 DEF Applied
  <2>7. ASSUME NEW h \in Handler, DeleteSource(h) PROVE source'[e].failed = source[e].failed /\ source'[e].head = source[e].head
    BY <1>0, <2>7 DEF DeleteSource, SourceRow
  <2> QED
    BY <2>2, <2>3, <2>4, <2>5, <2>6, <2>7 DEF Next, vars, StartSync, ArchiveDocs, ReadHead, Apply, Change,
          StartPublish, OpenPull, RecordPull, StartDiscard, DiscardDraft, Fail, Push, Merge
<1> QED
  BY <1>1, <1>2 DEF Applied

LEMMA ResyncingMoves ==
    ASSUME IInv, [Next]_vars, NEW e \in Source, ~\E h \in Handler : Apply(h)
    PROVE  troubles > 0 \/ Resyncing(e) => troubles' > 0 \/ Resyncing(e)'
<1>0. /\ handler \in [Handler -> Work] /\ troubles \in Nat
      /\ troubles' \in Nat /\ troubles' >= troubles
  <2>1. troubles \in Nat
    BY DEF IInv, TypeOK
  <2>2. troubles' = troubles \/ troubles' = troubles + 1
    BY DEF Next, vars, StartSync, AddSource, ArchiveDocs, ReadHead, SyncFails, Apply, StoreSynced, Change, StartPublish,
        OpenPull, RecordPull, StartDiscard, DiscardDraft, DeleteSource, Fail, Push, Merge
  <2> QED
    BY <2>1, <2>2, Types DEF IInv
<1>1. ASSUME NEW g \in Handler, handler[g].source = e, handler[g].step = "apply" \/ (handler[g].step = "head" /\ handler[g].force)
      PROVE  troubles' > 0 \/ Resyncing(e)'
  <2>1. CASE UNCHANGED handler[g]
    BY <1>1, <2>1 DEF Resyncing
  <2>2. CASE SyncFails(g)
    BY <1>0, <2>2 DEF SyncFails
  <2>3. CASE handler'[g].step = "apply" /\ handler'[g].source = handler[g].source
    BY <1>1, <2>3 DEF Resyncing
  <2> QED
    BY <1>1, <2>1, <2>2, <2>3, HandlerMoves
<1> QED
  BY <1>0, <1>1 DEF Resyncing

\* Discarding a draft that GitHub is ahead of starts a sync of its source.
LEMMA DiscardSyncs ==
    ASSUME IInv, [Next]_vars, NEW h \in Handler, DiscardDraft(h), doc.ref = handler[h].row.ref, doc.ref.ahead,
           NEW e \in Source, doc.ref.source = e, Live(e), doc' # doc
    PROVE  Resyncing(e)'
<1>1. Go(h, Syncing(e, TRUE))
  BY DEF DiscardDraft
<1>2. handler'[h] = Syncing(e, TRUE)
  BY <1>1, Types DEF Go, IInv
<1>3. handler'[h].source = e /\ handler'[h].step = "head" /\ handler'[h].force
  BY <1>2 DEF Syncing, Idle
<1> QED
  BY <1>3 DEF Resyncing

\* With one source that is there, and a commit of it that was applied, the doc
\* shows the newest one.
LEMMA ShownStep == IInv /\ [Next]_vars => AppliedIsShown'
<1> SUFFICES ASSUME IInv, [Next]_vars, races' = {}, NEW e \in Source, Applied(e)', ~Deleting(e)'
             PROVE  ShowsNewest(e)'
  BY DEF AppliedIsShown
<1>0. /\ TypeOK /\ RowsFit /\ StepsFit /\ OneLiveSource /\ OneLiveSource' /\ HeadWasApplied /\ RemovedIsArchived
      /\ AppliedIsShown /\ races = {} /\ Live(e)' /\ doc \in Row /\ RowFits(doc)
      /\ RepoGrows /\ VersionsGrow
  BY SourceMoves, RaceFree, Types, RepoStep, VersionsStep DEF IInv, Applied, RowsFit
<1>1. CASE \E h \in Handler : Apply(h)
  <2>1. PICK h \in Handler : Apply(h)
    BY <1>1
  <2>2. PICK s : s = handler[h].source
    OBVIOUS
  <2>3. /\ s \in Source /\ Live(s)' /\ UNCHANGED <<source, repo, troubles>> /\ newest' \in 1 .. Len(repo)
    BY <2>1, <2>2, AppliedDoc
  <2>4. s = e
    BY <1>0, <2>3 DEF OneLiveSource
  <2>5. CASE repo[newest'] # NoDoc
    <3>1. /\ doc'.ref.source = s /\ ~doc'.archived
          /\ \/ versions'[doc'.ref.published].tree = repo[newest']
             \/ doc'.ref.ahead /\ Draft(doc')
      BY <2>1, <2>2, <2>5, AppliedDoc
    <3>2. Draft(doc') = Draft(doc)'
      BY DEF Draft
    <3> QED
      BY <2>3, <2>4, <2>5, <3>1, <3>2 DEF ShowsNewest
  <2>6. CASE repo[newest'] = NoDoc
    <3>1. doc' = [doc EXCEPT !.archived = doc.archived \/ doc.ref.source = s]
      BY <2>1, <2>2, <2>6, AppliedDoc
    <3>2. doc'.ref = doc.ref /\ doc'.current = doc.current /\ doc'.archived = (doc.archived \/ doc.ref.source = s)
      BY <1>0, <3>1 DEF Row
    <3>5. Gone'
      <4>1. CASE doc.current = 0 \/ doc.ref.source = s
        BY <3>2, <4>1 DEF Gone
      <4>2. CASE doc.current # 0 /\ doc.ref.source # s
        <5>1. doc.ref.source \in Source /\ doc.ref.source # 0 /\ source[doc.ref.source].status # "none"
          BY <1>0, <4>2, RowFacts DEF Source
        <5>2. Live(s) /\ ~Live(doc.ref.source)
          BY <1>0, <2>3, <4>2, <5>1 DEF OneLiveSource, Live
        <5>3. source[doc.ref.source] \in SourceRow
          BY <1>0, <5>1, Types
        <5>4. source[doc.ref.source].status \in {"replaced", "removed"}
          BY <5>1, <5>2, <5>3 DEF SourceRow, Live
        <5>5. source[doc.ref.source].status = "removed" => doc.archived
          BY <1>0, <5>1 DEF RemovedIsArchived
        <5> QED
          BY <2>3, <3>2, <5>1, <5>4, <5>5 DEF Gone, Orphaned
      <4> QED
        BY <4>1, <4>2
    <3> QED
      BY <2>3, <2>6, <3>5 DEF ShowsNewest
  <2> QED
    BY <2>5, <2>6
<1>2. CASE ~\E h \in Handler : Apply(h)
  <2>1. Applied(e) /\ Live(e)
    BY <1>2, AppliedMoves DEF Applied
  <2>2. ~Deleting(e)
    <3>1. source'[e].status # "removed"
      BY <1>0 DEF Live
    <3> QED
      BY <3>1, DeletingMoves
  <2>3. ShowsNewest(e)
    BY <1>0, <2>1, <2>2 DEF AppliedIsShown
  <2>4. newest \in 1 .. Len(repo) /\ newest' = newest
    <3>1. newest \in Nat /\ newest <= Len(repo) /\ Len(repo) \in Nat
      BY <1>0, Types DEF TypeOK, StepsFit
    <3>2. newest # 0
      <4>1. CASE ~source[e].failed /\ source[e].head # 0
        <5>1. source[e].head \in Nat
          BY <1>0, Types DEF SourceRow
        <5> QED
          BY <1>0, <3>1, <4>1, <5>1 DEF HeadWasApplied
      <4>2. CASE \E g \in Handler : handler[g].step = "synced"
        BY <1>0, <3>1, <4>2 DEF StepsFit
      <4> QED
        BY <2>1, <4>1, <4>2 DEF Applied
    <3>3. newest' = newest
      BY <1>2, DocMoves
    <3> QED
      BY <3>1, <3>2, <3>3
  <2>5. repo'[newest'] = repo[newest]
    BY <1>0, <2>4 DEF RepoGrows
  <2>6. ASSUME NEW h \in Handler, NEW s \in Source, ArchiveDocs(h, s), Live(s), Deleting(s)' PROVE FALSE
    BY <1>0, <2>1, <2>6 DEF OneLiveSource
  <2>7. \/ doc' = doc
        \/ \E h \in Handler : Change(h) \/ (DiscardDraft(h) /\ doc.ref = handler[h].row.ref)
    BY <1>2, <2>6, DocMoves
  <2>8. /\ doc'.ref.source = doc.ref.source /\ doc'.ref.ahead = doc.ref.ahead /\ doc'.archived = doc.archived
        /\ doc.current = 0 <=> doc'.current = 0
        /\ doc.current # 0 => versions'[doc'.ref.published].tree = versions[doc.ref.published].tree
    <3>1. CASE doc' = doc
      <4>1. doc.current # 0 => doc.ref.published \in 1 .. Len(versions)
        BY <1>0, RowFacts
      <4> QED
        BY <1>0, <3>1, <4>1 DEF VersionsGrow
    <3> QED
      BY <2>7, <3>1, EditedDoc
  <2>9. CASE repo[newest] = NoDoc
    <3>1. Gone
      BY <2>3, <2>9 DEF ShowsNewest
    <3>2. Gone'
      BY <2>8, <3>1, GoneStays
    <3> QED
      BY <2>5, <2>9, <3>2 DEF ShowsNewest
  <2>10. CASE repo[newest] # NoDoc
    <3>1. /\ doc.ref.source = e /\ ~doc.archived
          /\ \/ versions[doc.ref.published].tree = repo[newest]
             \/ doc.ref.ahead /\ (Draft(doc) \/ troubles > 0 \/ Resyncing(e))
      BY <2>3, <2>10 DEF ShowsNewest
    <3>2. doc.current # 0
      BY <1>0, <3>1 DEF RowFits, NoRef, Source
    <3>3. CASE versions[doc.ref.published].tree = repo[newest]
      BY <2>5, <2>8, <2>10, <3>1, <3>2, <3>3 DEF ShowsNewest
    <3>4. CASE doc.ref.ahead /\ (Draft(doc) \/ troubles > 0 \/ Resyncing(e))
      <4>1. troubles > 0 \/ Resyncing(e) => troubles' > 0 \/ Resyncing(e)'
        BY <1>2, ResyncingMoves
      <4>2. Draft(doc)' \/ troubles' > 0 \/ Resyncing(e)'
        <5>1. CASE doc' = doc
          BY <3>4, <4>1, <5>1 DEF Draft
        <5>2. ASSUME NEW h \in Handler, Change(h) PROVE Draft(doc)'
          <6>1. doc'.current = Len(versions) + 1 /\ doc'.ref = doc.ref
            BY <1>0, <5>2 DEF Change, Row
          <6>2. doc.ref.published \in 1 .. Len(versions) /\ Len(versions) \in Nat
            BY <1>0, <3>2, RowFacts, Types
          <6> QED
            BY <6>1, <6>2 DEF Draft
        <5>3. ASSUME NEW h \in Handler, DiscardDraft(h), doc.ref = handler[h].row.ref, doc' # doc PROVE Resyncing(e)'
          BY <2>1, <3>1, <3>4, <5>3, DiscardSyncs
        <5> QED
          BY <2>7, <5>1, <5>2, <5>3
      <4> QED
        BY <2>5, <2>8, <2>10, <3>1, <3>4, <4>2 DEF ShowsNewest
    <3> QED
      BY <3>1, <3>3, <3>4
  <2> QED
    BY <2>9, <2>10
<1> QED
  BY <1>1, <1>2

-----------------------------------------------------------------------------
(* The theorems. *)

LEMMA Initially == Init => IInv
<1> SUFFICES ASSUME Init PROVE IInv
  OBVIOUS
<1>1. TypeOK
  <2>1. repo \in Seq(Tree \cup {NoDoc}) /\ Len(repo) = 1 /\ 1 \in Commit
    BY TreeAssumption, BoundsAssumption DEF Init, Commit
  <2>2. versions \in Seq([tree : Tree, by : {"github", "person"}]) /\ Len(versions) = 0
    BY DEF Init
  <2>3. NoRow \in Row /\ Depth \in Nat
    BY DepthAssumption, BoundsAssumption DEF NoRow, NoRef, Row, Ref
  <2>4. Idle \in Work
    BY <2>3, BoundsAssumption DEF Idle, Work
  <2>5. source \in [Source -> SourceRow]
    BY BoundsAssumption DEF Init, SourceRow
  <2>6. requests = 0 /\ troubles = 0 /\ newest = 0 /\ races = {} /\ pulls = {}
        /\ MaxRequests \in Nat /\ MaxTroubles \in Nat /\ MaxVersions \in Nat /\ MaxCommits \in Nat
    BY BoundsAssumption DEF Init
  <2>7. doc = NoRow /\ handler = [h \in Handler |-> Idle]
    BY DEF Init
  <2> QED
    BY <2>1, <2>2, <2>3, <2>4, <2>5, <2>6, <2>7 DEF TypeOK, SourceRow, Work
<1>2. RowsFit
  BY DEF Init, RowsFit, RowFits, NoRow, Idle
<1>3. PullRequestIsTheDraft /\ StepsFit /\ OneLiveSource /\ HeadWasApplied
  BY DEF Init, PullRequestIsTheDraft, StepsFit, OneLiveSource, HeadWasApplied, Idle, Live
<1>4. RemovedIsArchived /\ AppliedIsShown
  BY DEF Init, RemovedIsArchived, AppliedIsShown, Applied, Live, NoRow, NoRef
<1> QED
  BY <1>1, <1>2, <1>3, <1>4 DEF IInv

LEMMA Invariance == Spec => []IInv
<1>1. IInv /\ [Next]_vars => IInv'
  BY TypeStep, RowsStep, PullsStep, StepsStep, SourceMoves, RemovedStep, ShownStep DEF IInv, PullsFit
<1> QED
  BY Initially, <1>1, PTL DEF Spec

\* The types of what GitHub, Speccy and the handlers hold.
THEOREM TypeCorrect == Spec => []TypeOK
<1>1. IInv => TypeOK
  BY DEF IInv
<1> QED
  BY Invariance, <1>1, PTL

\* Whatever the syncs, the changes and the requests do in between, a pull request
\* makes the draft of the commit that it is cut from.
THEOREM PullRequestMakesTheDraft == Spec => []PullRequestIsTheDraft
<1>1. IInv => PullRequestIsTheDraft
  BY DEF IInv
<1> QED
  BY Invariance, <1>1, PTL

\* A draft gives way to what a person made of it, and is published only when
\* GitHub holds it.
THEOREM DraftStays == Spec => DraftIsKept
<1>1. IInv /\ [Next]_vars =>
          (Draft(doc) =>
              \/ doc'.current = doc.current
                 /\ (Draft(doc') \/ repo[doc'.ref.commit] = versions[doc.current].tree)
              \/ doc'.current # doc.current
                 /\ versions'[doc'.current].by = "person")
  <2> SUFFICES ASSUME IInv, [Next]_vars, Draft(doc)
               PROVE  \/ doc'.current = doc.current
                         /\ (Draft(doc') \/ repo[doc'.ref.commit] = versions[doc.current].tree)
                      \/ doc'.current # doc.current
                         /\ versions'[doc'.current].by = "person"
    OBVIOUS
  <2> DEFINE Kept == \/ doc'.current = doc.current
                        /\ (Draft(doc') \/ repo[doc'.ref.commit] = versions[doc.current].tree)
                     \/ doc'.current # doc.current
                        /\ versions'[doc'.current].by = "person"
  <2>0. /\ TypeOK /\ RowsFit /\ doc \in Row /\ RowFits(doc) /\ doc.ref \in Ref /\ handler \in [Handler -> Work]
        /\ doc.current # 0 /\ doc.current \in 1 .. Len(versions) /\ Len(versions) \in Nat
    <3>1. doc \in Row /\ RowFits(doc)
      BY Types DEF IInv, RowsFit
    <3>2. doc.current # 0
      BY <3>1 DEF Draft, RowFits, NoRef
    <3> QED
      BY <3>1, <3>2, RowFacts, Types DEF IInv, Row
  <2>1. ASSUME doc'.current = doc.current, doc'.ref.published = doc.ref.published PROVE Kept
    BY <2>1 DEF Draft
  <2>2. ASSUME NEW h \in Handler, Apply(h) PROVE Kept
    <3>1. ASSUME NEW s, NEW c, KeepDraft(s, c) PROVE Kept
      <4>1. CASE versions[doc.current].tree = repo[c]
        <5>1. doc'.ref = AtCommit(s, doc.current, c) /\ doc'.current = doc.current
          BY <2>0, <3>1, <4>1 DEF KeepDraft, Row
        <5> QED
          BY <4>1, <5>1 DEF AtCommit
      <4>2. CASE versions[doc.current].tree # repo[c]
        <5>1. doc' = [doc EXCEPT !.archived = FALSE, !.ref = [doc.ref EXCEPT !.source = s,
                        !.ahead = @ \/ versions[doc.ref.published].tree # repo[c]]]
          BY <3>1, <4>2 DEF KeepDraft
        <5>2. doc'.current = doc.current /\ doc'.ref.published = doc.ref.published
          BY <2>0, <5>1 DEF Row, Ref
        <5> QED
          BY <2>1, <5>2
      <4> QED
        BY <4>1, <4>2
    <3>2. ASSUME doc' = [doc EXCEPT !.archived = @ \/ doc.ref.source = handler[h].source] PROVE Kept
      BY <2>0, <2>1, <3>2 DEF Row
    <3> HIDE DEF Kept
    <3> QED
      BY <2>1, <2>2, <3>1, <3>2 DEF Apply
  <2>3. ASSUME NEW h \in Handler, Change(h) PROVE Kept
    <3>1. PICK v : versions' = Append(versions, v) /\ v.by = "person"
      BY <2>3 DEF Change
    <3>2. doc'.current = Len(versions) + 1
      BY <2>0, <2>3 DEF Change, Row
    <3> QED
      BY <2>0, <3>1, <3>2, Types
  <2>4. ASSUME NEW h \in Handler, RecordPull(h) PROVE Kept
    <3>1. handler[h].row \in Row /\ RowFits(handler[h].row) /\ handler[h].row.current # 0
      BY <2>0, <2>4 DEF RecordPull, RowsFit, Work
    <3>2. doc'.ref = handler[h].row.ref /\ doc'.current = doc.current
      BY <2>0, <2>4 DEF RecordPull, Row
    <3>3. repo[doc'.ref.commit] = versions[doc'.ref.published].tree
      BY <2>0, <3>1, <3>2, RowFacts
    <3> QED
      BY <3>2, <3>3 DEF Draft
  <2>5. ASSUME NEW h \in Handler, DiscardDraft(h) PROVE Kept
    <3>1. CASE doc' = doc
      BY <2>1, <3>1
    <3>2. CASE doc' # doc
      <4> DEFINE row == handler[h].row
                 tree == versions[row.ref.published].tree
                 new == Recorded(row, tree)
      <4>1. row \in Row /\ RowFits(row) /\ row.current # 0 /\ row.ref \in Ref
        BY <2>0, <2>5 DEF DiscardDraft, RowsFit, Work, Row
      <4>2. /\ new <= MaxVersions /\ versions' = VersionsWith(row, tree, "person")
            /\ doc' = [doc EXCEPT !.current = IF SameAsCurrent(row, tree) THEN @ ELSE new,
                                  !.ref = [row.ref EXCEPT !.published = new]]
        BY <2>5, <3>2 DEF DiscardDraft
      <4> HIDE DEF row
      <4>3. tree \in Tree /\ repo[row.ref.commit] = tree
        BY <2>0, <4>1, RowFacts
      <4> HIDE DEF tree
      <4>4. CASE ~SameAsCurrent(row, tree)
        <5>1. doc'.current = new /\ new = Len(versions) + 1
          BY <2>0, <4>2, <4>4 DEF Row, Recorded
        <5>2. versions'[new].by = "person"
          BY <2>0, <4>1, <4>2, <4>3, <4>4, RecordedVersion
        <5> QED
          BY <2>0, <5>1, <5>2
      <4>5. CASE SameAsCurrent(row, tree)
        <5>1. doc'.current = doc.current /\ doc'.ref = [row.ref EXCEPT !.published = new]
          BY <2>0, <4>2, <4>5 DEF Row
        <5>2. new = row.current /\ versions[new].tree = tree
          BY <4>5 DEF Recorded, SameAsCurrent
        <5> HIDE DEF new
        <5>3. doc'.ref.published = new /\ doc'.ref.commit = row.ref.commit
          BY <4>1, <5>1 DEF Ref
        <5> QED
          BY <4>3, <5>1, <5>2, <5>3 DEF Draft
      <4> QED
        BY <4>4, <4>5
    <3> QED
      BY <3>1, <3>2
  <2>6. ASSUME NEW h \in Handler, NEW s \in Source, ArchiveDocs(h, s) PROVE Kept
    BY <2>0, <2>1, <2>6 DEF ArchiveDocs, Row
  <2>7. ASSUME doc' = doc PROVE Kept
    BY <2>1, <2>7
  <2> HIDE DEF Kept
  <2>8. Kept
    BY <2>2, <2>3, <2>4, <2>5, <2>6, <2>7 DEF Next, vars, StartSync, AddSource, ReadHead, SyncFails, StoreSynced,
          StartPublish, OpenPull, StartDiscard, DeleteSource, Fail, Push, Merge
  <2> QED
    BY <2>8 DEF Kept
<1> QED
  BY Invariance, <1>1, PTL DEF Spec, DraftIsKept

\* A doc whose source is at the head of its branch shows what GitHub holds.
THEOREM FollowsItsSource == Spec => []FollowsGitHub
<1>1. IInv => FollowsGitHub
  <2> SUFFICES ASSUME IInv, Quiet, races = {}
               PROVE  /\ \A s \in Source : Live(s) /\ source[s].head = Len(repo) /\ ~source[s].failed => ShowsCommit(Len(repo))
                      /\ (\A s \in Source : ~Live(s)) => Gone
    BY DEF FollowsGitHub
  <2>0. /\ TypeOK /\ doc \in Row /\ RowFits(doc) /\ Len(repo) \in 1 .. MaxCommits /\ MaxCommits \in Nat
        /\ newest \in Nat /\ newest <= Len(repo) /\ \A h \in Handler : handler[h].step = "idle"
    BY Types DEF IInv, RowsFit, StepsFit, TypeOK, Quiet
  <2>1. ASSUME NEW s \in Source, Live(s), source[s].head = Len(repo), ~source[s].failed PROVE ShowsCommit(Len(repo))
    <3>1. Applied(s) /\ ~Deleting(s) /\ ~Resyncing(s)
      BY <2>0, <2>1 DEF Applied, Deleting, Resyncing
    <3>2. newest = Len(repo)
      BY <2>0, <2>1 DEF IInv, HeadWasApplied
    <3>3. ShowsNewest(s)
      BY <2>1, <3>1 DEF IInv, AppliedIsShown
    <3>4. doc.ref.source = s => doc.current # 0
      BY <2>0 DEF RowFits, NoRef, Source
    <3> QED
      BY <3>1, <3>2, <3>3, <3>4 DEF ShowsNewest, ShowsCommit
  <2>2. ASSUME \A s \in Source : ~Live(s) PROVE Gone
    <3>1. CASE doc.current = 0
      BY <3>1 DEF Gone
    <3>2. CASE doc.current # 0
      <4>1. doc.ref.source \in Source /\ doc.ref.source # 0 /\ source[doc.ref.source].status # "none"
        BY <2>0, <3>2, RowFacts DEF Source
      <4>2. source[doc.ref.source].status \in {"replaced", "removed"}
        BY <2>0, <2>2, <4>1, Types DEF SourceRow, Live
      <4>3. source[doc.ref.source].status = "removed" => doc.archived
        BY <4>1 DEF IInv, RemovedIsArchived
      <4> QED
        BY <4>1, <4>2, <4>3 DEF Gone, Orphaned
    <3> QED
      BY <3>1, <3>2
  <2> QED
    BY <2>1, <2>2
<1> QED
  BY Invariance, <1>1, PTL

-----------------------------------------------------------------------------
(***************************************************************************)
(* Proofs about PrBatch for any batches, pull requests, findings, requests,*)
(* runs and bounds.                                                        *)
(*                                                                         *)
(* The rows keep, batch by batch, to BatchHolds.  Until a statement about  *)
(* the batch fails, what waits is at hand in every run that has read the   *)
(* items, or its goroutine works on it, so a run that has nothing at hand  *)
(* leaves nothing behind (WaitsHold).  A batch is settled, or its one run  *)
(* or launch is the one that a cancel reaches (CancelHolds), until one of  *)
(* the races that CancelIsFinal names.  A step touches one batch, and the  *)
(* others are framed (BatchFrame).                                         *)
(*                                                                         *)
(* While the posts of a pull request come one after another and no mark is *)
(* lost, every plain comment of the pending review has its mark or a       *)
(* goroutine that will write it, so the next post replaces it and adds no  *)
(* second one (Tidy).                                                      *)
(***************************************************************************)

Status == {"none", "planned", "running"} \cup Ended
ItemState == {"none"} \cup Unfinished \cup Final
PostStep == {"create", "mark", "delete", "add", "keep"}
RunStep == {"off", "over", "list", "next", "start", "done", "cancelled"}
RequestStep == {"idle", "over", "start", "launch", "cancel", "reach", "stop", "finish"}
Comment == [id : Nat, key : Finding, plain : BOOLEAN]
Mark == [id : Nat, key : Finding]
PostWork == [step : {"off", "review"} \cup PostStep \cup Final, found : SUBSET Finding, review : Nat,
             stale : SUBSET Nat, add : SUBSET Finding, kept : SUBSET Mark]

PostTypeOK ==
    /\ pending \in [Pull -> [review : Nat, comments : SUBSET Comment]]
    /\ ids \in [Pull -> Nat]
    /\ marks \in [Pull -> SUBSET Mark]
    /\ worker \in [Run -> [Pull -> PostWork]]

RunRow == [step : RunStep, batch : Batch \cup {""}, todo : SUBSET Pull, at : Pull \cup {""}, cancelled : BOOLEAN]
RequestRow == [step : RequestStep, batch : Batch \cup {""}, status : Status, run : 0 .. MaxRuns]

RowsTypeOK ==
    /\ batch \in [Batch -> Status]
    /\ item \in [Batch -> [Pull -> ItemState]]
    /\ live \in [Batch -> 0 .. MaxRuns]
    /\ run \in [Run -> RunRow]
    /\ request \in [Request -> RequestRow]

Active(r, b) == run[r].step \notin {"off", "over"} /\ run[r].batch = b
LaunchOf(h, b) == request[h].step = "launch" /\ request[h].batch = b
OfBatch(h, b) == request[h].step \notin {"idle", "over"} /\ request[h].batch = b
Waiting(b, p) == item[b][p] = "waiting"

\* The pull request is yet to be started by the run.
AtHand(r, p) == p \in run[r].todo \/ (run[r].step = "start" /\ run[r].at = p)

\* A goroutine of the run works on the pull request.
On(r, p) == worker[r][p].step # "off"

RunFits(r) ==
    /\ run[r].step \notin {"off", "over"} => run[r].batch \in Batch
    /\ run[r].step = "start" => run[r].at \in Pull /\ run[r].at \notin run[r].todo
    /\ run[r].step \in {"list", "done", "cancelled"} => run[r].todo = {}
    /\ \A p \in Pull : On(r, p) => run[r].step \in {"next", "start"} /\ ~AtHand(r, p)

RequestFits(h) ==
    /\ request[h].step \notin {"idle", "over"} => request[h].batch \in Batch /\ batch[request[h].batch] # "none"
    /\ request[h].step = "reach" => request[h].run \in Run

\* Before its start a batch has no run, and a cancel that reads it is told so.
NotYetHolds(b) ==
    /\ batch[b] \in {"none", "planned"} =>
         /\ \A r \in Run : ~Active(r, b)
         /\ \A h \in Request : ~LaunchOf(h, b)
         /\ \A h \in Request : OfBatch(h, b) => request[h].step # "reach"
         /\ live[b] = 0 /\ b \notin cancelled
    /\ batch[b] = "none" => \A p \in Pull : item[b][p] = "none"
    /\ batch[b] = "planned" => \A h \in Request :
         OfBatch(h, b) /\ request[h].step = "cancel" => request[h].status = "planned"

\* What waits is taken by every run that has read the items: nothing waits again.
WaitsHold(b) ==
    \A p \in Pull : Waiting(b, p) =>
        /\ batch[b] \notin {"cancelled", "stopped"}
        /\ \A r \in Run : Active(r, b) => run[r].step # "cancelled"
        /\ \A h \in Request : OfBatch(h, b) => request[h].step # "finish"
        /\ \/ b \in unstored
           \/ /\ batch[b] # "done"
              /\ \A r \in Run : Active(r, b) => run[r].step = "list" \/ AtHand(r, p) \/ On(r, p)

RunningHolds(b) ==
    batch[b] = "running" =>
        b \in unstored \/ (\E r \in Run : Active(r, b)) \/ (\E h \in Request : LaunchOf(h, b))

ReviewingHolds(b) ==
    \A p \in Pull : item[b][p] = "reviewing" =>
        <<"stopped", b>> \in raced \/ b \in unstored \/ \E r \in Run : Active(r, b) /\ On(r, p)

\* No run of the batch starts a pull request any more.
Settled(b) ==
    /\ (\E p \in Pull : Waiting(b, p)) =>
         /\ batch[b] \in {"running", "done"}
         /\ \A h \in Request : ~LaunchOf(h, b)
         /\ \A r \in Run : Active(r, b) /\ run[r].step = "list" => run[r].cancelled
    /\ \A r \in Run : Active(r, b) => run[r].cancelled \/ run[r].todo = {}

\* The one run or launch of the batch is the one that a cancel reaches.
InReach(b) ==
    /\ batch[b] \in {"planned", "running"}
    /\ \A r \in Run : Active(r, b) => live[b] = r
    /\ live[b] # 0 => Active(live[b], b)
    /\ \A h \in Request : LaunchOf(h, b) =>
         live[b] = 0 /\ b \notin cancelled /\ \A g \in Request : LaunchOf(g, b) => g = h
    /\ \A h \in Request : OfBatch(h, b) /\ request[h].step = "reach" => live[b] # 0 /\ request[h].run = live[b]
    /\ b \in cancelled => live[b] # 0 /\ run[live[b]].cancelled

CancelRaced(b) == {<<"twice", b>>, <<"launch", b>>, <<"start", b>>} \cap raced # {}

CancelHolds(b) ==
    /\ b \in late => CancelRaced(b)
    /\ CancelRaced(b) \/ Settled(b) \/ InReach(b)
    /\ \A h \in Request : OfBatch(h, b) /\ request[h].step = "finish" => CancelRaced(b) \/ Settled(b)

BatchHolds(b) == NotYetHolds(b) /\ WaitsHold(b) /\ RunningHolds(b) /\ ReviewingHolds(b) /\ CancelHolds(b)

RowsInv ==
    /\ RowsTypeOK
    /\ \A r \in Run : RunFits(r)
    /\ \A h \in Request : RequestFits(h)
    /\ late \subseteq Batch
    /\ \A b \in Batch : BatchHolds(b)

LEMMA Constants ==
    /\ MaxRuns \in Nat
    /\ 0 \notin Run
    /\ \A b \in Batch : Planned[b] \subseteq Pull
BY BatchBoundsAssumption, BatchAssumption DEF Run

\* Only one run, request or batch changes.
OnlyRun(r) == \A q \in Run : q # r => run'[q] = run[q]
OnlyRequest(h) == \A g \in Request : g # h => request'[g] = request[g]
OnlyItems(b) == \A c \in Batch : c # b => item'[c] = item[c]
OnlyBatch(b) == \A c \in Batch : c # b => batch'[c] = batch[c]
OnlyLive(b) == \A c \in Batch : c # b => live'[c] = live[c]

\* The run, the request or the batch after a step, and nothing else of its table.
RunTo(r, next) == run' \in [Run -> RunRow] /\ run'[r] = next /\ OnlyRun(r)
RequestTo(h, next) == request' \in [Request -> RequestRow] /\ request'[h] = next /\ OnlyRequest(h)
BatchTo(b, status) == batch' \in [Batch -> Status] /\ batch'[b] = status /\ OnlyBatch(b)
LiveTo(b, r) == live' \in [Batch -> 0 .. MaxRuns] /\ live'[b] = r /\ OnlyLive(b)
ItemsTo(b, items) == item' \in [Batch -> [Pull -> ItemState]] /\ item'[b] = items /\ OnlyItems(b)

LEMMA RunToRow ==
    ASSUME RowsTypeOK, NEW r \in Run, NEW next \in RunRow, run' = [run EXCEPT ![r] = next]
    PROVE  RunTo(r, next)
BY DEF RowsTypeOK, RunTo, OnlyRun

LEMMA RequestToRow ==
    ASSUME RowsTypeOK, NEW h \in Request, NEW next \in RequestRow, request' = [request EXCEPT ![h] = next]
    PROVE  RequestTo(h, next)
BY DEF RowsTypeOK, RequestTo, OnlyRequest

LEMMA StatusTo ==
    ASSUME RowsTypeOK, NEW b \in Batch, NEW status \in Status, SetStatus(b, status)
    PROVE  BatchTo(b, status)
BY DEF RowsTypeOK, SetStatus, BatchTo, OnlyBatch

LEMMA LiveToRun ==
    ASSUME RowsTypeOK, NEW b \in Batch, NEW r \in 0 .. MaxRuns, live' = [live EXCEPT ![b] = r]
    PROVE  LiveTo(b, r)
BY DEF RowsTypeOK, LiveTo, OnlyLive

LEMMA ItemsToState ==
    ASSUME RowsTypeOK, NEW b \in Batch, NEW items \in [Pull -> ItemState], item' = [item EXCEPT ![b] = items]
    PROVE  ItemsTo(b, items)
BY DEF RowsTypeOK, ItemsTo, OnlyItems

LEMMA LiveRun ==
    ASSUME RowsTypeOK, NEW b \in Batch
    PROVE  live[b] # 0 => live[b] \in Run
<1>1. live[b] \in 0 .. MaxRuns
  BY DEF RowsTypeOK
<1> QED BY <1>1, Constants DEF Run

LEMMA RowOf ==
    ASSUME RowsTypeOK
    PROVE  /\ \A r \in Run : run[r] \in RunRow
           /\ \A h \in Request : request[h] \in RequestRow
           /\ \A b \in Batch : batch[b] \in Status /\ item[b] \in [Pull -> ItemState]
BY DEF RowsTypeOK

LEMMA StoppedIs ==
    ASSUME RowsTypeOK, NEW b \in Batch
    PROVE  /\ Stopped(item[b]) \in [Pull -> ItemState]
           /\ \A p \in Pull : Stopped(item[b])[p] \notin Unfinished /\ (item[b][p] = "none" => Stopped(item[b])[p] = "none")
BY RowOf DEF Stopped, ItemState, Final, Unfinished

Launched(r, b) ==
    /\ run[r].step = "off"
    /\ run' \in [Run -> RunRow] /\ OnlyRun(r)
    /\ run'[r].step = "list" /\ run'[r].batch = b /\ run'[r].todo = {} /\ run'[r].cancelled = FALSE
    /\ LiveTo(b, r)

LEMMA LaunchEffect ==
    ASSUME RowsTypeOK, NEW b \in Batch, Launch(b)
    PROVE  \E r \in Run : Launched(r, b)
<1> DEFINE new == [NoRun EXCEPT !.step = "list", !.batch = b]
<1>1. /\ new \in RunRow
      /\ new.step = "list" /\ new.batch = b /\ new.todo = {} /\ new.cancelled = FALSE
  BY DEF NoRun, RunRow, RunStep
<1>2. PICK r \in Run : run[r].step = "off" /\ live' = [live EXCEPT ![b] = r] /\ run' = [run EXCEPT ![r] = new]
  BY DEF Launch
<1> HIDE DEF new
<1>3. r \in 0 .. MaxRuns
  BY Constants DEF Run
<1> QED BY <1>1, <1>2, <1>3, RunToRow, LiveToRun DEF Launched, RunTo

LEMMA AnsweredEffect ==
    ASSUME RowsTypeOK, NEW h \in Request, Answered(h)
    PROVE  \E next \in RequestRow : next.step = "over" /\ RequestTo(h, next)
<1>1. request[h].step # "off"
  BY RowOf DEF RequestRow, RequestStep
<1>2. [Free EXCEPT !.step = "over"] \in RequestRow /\ [Free EXCEPT !.step = "over"].step = "over"
  <2>1. 0 \in 0 .. MaxRuns
    BY Constants
  <2> QED BY <2>1 DEF Free, RequestRow, RequestStep, Status
<1>3. request' = [request EXCEPT ![h] = [Free EXCEPT !.step = "over"]]
  BY <1>1 DEF Answered, Over, RowsTypeOK
<1> QED BY <1>2, <1>3, RequestToRow

\* A request of a batch goes to another of its steps.
LEMMA GoesOn ==
    ASSUME RowsTypeOK, NEW h \in Request, NEW step \in RequestStep,
           request' = [request EXCEPT ![h].step = step]
    PROVE  /\ request' \in [Request -> RequestRow] /\ OnlyRequest(h)
           /\ request'[h].step = step /\ request'[h].batch = request[h].batch
           /\ request'[h].status = request[h].status /\ request'[h].run = request[h].run
<1> DEFINE new == [request[h] EXCEPT !.step = step]
<1>1. /\ new \in RequestRow /\ new.step = step /\ new.batch = request[h].batch
      /\ new.status = request[h].status /\ new.run = request[h].run
  BY RowOf DEF RequestRow
<1>2. request' = [request EXCEPT ![h] = new]
  BY DEF RowsTypeOK
<1> HIDE DEF new
<1> QED BY <1>1, <1>2, RequestToRow DEF RequestTo

\* Nothing of what concerns a batch changes, but that a run of it may be cancelled.
BatchSame(c) ==
    /\ batch'[c] = batch[c] /\ item'[c] = item[c] /\ live'[c] = live[c]
    /\ \A q \in Run : Active(q, c)' <=> Active(q, c)
    /\ \A q \in Run : Active(q, c) =>
         /\ run'[q].step = run[q].step /\ run'[q].todo = run[q].todo /\ run'[q].at = run[q].at
         /\ run[q].cancelled => run'[q].cancelled
         /\ \A p \in Pull : On(q, p)' <=> On(q, p)
    /\ \A h \in Request : OfBatch(h, c)' <=> OfBatch(h, c)
    /\ \A h \in Request : OfBatch(h, c) => request'[h] = request[h]
    /\ c \in cancelled' <=> c \in cancelled
    /\ c \in late' => c \in late
    /\ c \in unstored => c \in unstored'
    /\ raced \subseteq raced'

\* What holds of a batch with nothing to start holds as long as no run of it and no item comes back.
LEMMA SettledStays ==
    ASSUME NEW c \in Batch, Settled(c), batch'[c] = batch[c],
           \A p \in Pull : Waiting(c, p)' => Waiting(c, p),
           \A h \in Request : LaunchOf(h, c)' => LaunchOf(h, c),
           \A q \in Run : Active(q, c)' =>
               /\ Active(q, c)
               /\ run[q].cancelled => run'[q].cancelled
               /\ run[q].todo = {} => run'[q].todo = {}
               /\ run'[q].step = "list" => run[q].step = "list"
    PROVE  Settled(c)'
BY DEF Settled

LEMMA RacedStays ==
    ASSUME NEW c, raced \subseteq raced', CancelRaced(c)
    PROVE  CancelRaced(c)'
BY DEF CancelRaced

LEMMA InReachStays ==
    ASSUME RowsTypeOK, NEW c \in Batch, InReach(c), batch'[c] \in {"planned", "running"}, live'[c] = live[c],
           \A q \in Run : Active(q, c)' <=> Active(q, c),
           \A q \in Run : Active(q, c) /\ run[q].cancelled => run'[q].cancelled,
           \A h \in Request : LaunchOf(h, c)' => LaunchOf(h, c),
           \A h \in Request : OfBatch(h, c)' /\ request'[h].step = "reach" =>
               \/ request'[h].run = live[c] /\ live[c] # 0
               \/ OfBatch(h, c) /\ request'[h] = request[h],
           c \in cancelled' => c \in cancelled
    PROVE  InReach(c)'
<1>1. live[c] # 0 => live[c] \in Run /\ Active(live[c], c)
  BY LiveRun DEF InReach
<1>2. \A r \in Run : Active(r, c)' => live'[c] = r
  BY DEF InReach
<1>3. live'[c] # 0 => Active(live[c], c)'
  BY <1>1
<1>4. live'[c] # 0 => run'[live'[c]].step \notin {"off", "over"} /\ run'[live'[c]].batch = c
  BY <1>3 DEF Active
<1>5. \A h \in Request : LaunchOf(h, c)' =>
         live'[c] = 0 /\ c \notin cancelled' /\ \A g \in Request : LaunchOf(g, c)' => g = h
  BY DEF InReach
<1>6. \A h \in Request : OfBatch(h, c)' /\ request'[h].step = "reach" => live'[c] # 0 /\ request'[h].run = live'[c]
  BY DEF InReach
<1>7. c \in cancelled' => live'[c] # 0 /\ run'[live'[c]].cancelled
  BY <1>1 DEF InReach
<1> QED BY <1>2, <1>4, <1>5, <1>6, <1>7 DEF InReach, Active

LEMMA BatchFrame ==
    ASSUME RowsTypeOK, NEW c \in Batch, BatchHolds(c), BatchSame(c)
    PROVE  BatchHolds(c)'
<1> USE DEF BatchSame
<1>1. \A h \in Request : LaunchOf(h, c)' <=> LaunchOf(h, c)
  BY DEF LaunchOf, OfBatch
<1>2. \A p \in Pull : Waiting(c, p)' <=> Waiting(c, p)
  BY DEF Waiting
<1>3. NotYetHolds(c)'
  BY <1>1 DEF BatchHolds, NotYetHolds
<1>4. WaitsHold(c)'
  BY <1>2 DEF BatchHolds, WaitsHold, AtHand
<1>5. RunningHolds(c)'
  BY <1>1 DEF BatchHolds, RunningHolds
<1>6. ReviewingHolds(c)'
  BY DEF BatchHolds, ReviewingHolds
<1>7. Settled(c) => Settled(c)'
  BY <1>1, <1>2, SettledStays
<1>8. InReach(c) => InReach(c)'
  <2>1. InReach(c) => batch'[c] \in {"planned", "running"}
    BY DEF InReach
  <2> QED BY <1>1, <2>1, InReachStays
<1>9. CancelHolds(c)'
  BY <1>7, <1>8, RacedStays DEF BatchHolds, CancelHolds
<1> QED BY <1>3, <1>4, <1>5, <1>6, <1>9 DEF BatchHolds

\* The rows after a step that concerns one batch, one run and one request at most.
LEMMA RowsFrom ==
    ASSUME RowsInv, NEW b \in Batch, RowsTypeOK', late' \subseteq Batch,
           \A r \in Run : RunFits(r)', \A h \in Request : RequestFits(h)',
           \A c \in Batch : c # b => BatchSame(c), BatchHolds(b)'
    PROVE  RowsInv'
BY BatchFrame DEF RowsInv

\* A request of the batch goes on or ends, and no cancel reaches anything by it.
LEMMA RequestStays ==
    ASSUME RowsTypeOK, NEW h \in Request, NEW b \in Batch, BatchHolds(b), RequestFits(h), OfBatch(h, b),
           request[h].step # "launch",
           request' \in [Request -> RequestRow], OnlyRequest(h),
           request'[h].step \in {"over", "reach", "stop"},
           request'[h].step \in {"over", "stop"} \/ (live[b] # 0 /\ request'[h].run = live[b]),
           request'[h].step # "over" => request'[h].batch = b,
           UNCHANGED <<batch, item, live, run, worker, cancelled, late>>,
           b \in unstored => b \in unstored', raced \subseteq raced'
    PROVE  BatchHolds(b)'
<1>1. \A g \in Request : LaunchOf(g, b)' <=> LaunchOf(g, b)
  BY DEF LaunchOf, OfBatch, OnlyRequest
<1>2. \A g \in Request : OfBatch(g, b)' => OfBatch(g, b) /\ (g # h => request'[g] = request[g])
  BY DEF OfBatch, OnlyRequest
<1>3. /\ \A q \in Run : Active(q, b)' <=> Active(q, b)
      /\ \A p \in Pull : Waiting(b, p)' <=> Waiting(b, p)
      /\ \A q \in Run, p \in Pull : (On(q, p)' <=> On(q, p)) /\ (AtHand(q, p)' <=> AtHand(q, p))
  BY DEF Active, Waiting, On, AtHand
<1>4. NotYetHolds(b)'
  BY <1>1, <1>2, <1>3 DEF BatchHolds, NotYetHolds
<1>5. WaitsHold(b)'
  BY <1>2, <1>3 DEF BatchHolds, WaitsHold
<1>6. RunningHolds(b)'
  BY <1>1, <1>3 DEF BatchHolds, RunningHolds
<1>7. ReviewingHolds(b)'
  BY <1>3 DEF BatchHolds, ReviewingHolds
<1>8. Settled(b) => Settled(b)'
  BY <1>1, <1>3, SettledStays
<1>9. InReach(b) => InReach(b)'
  <2>1. InReach(b) => batch'[b] \in {"planned", "running"}
    BY DEF InReach
  <2>2. \A g \in Request : OfBatch(g, b)' /\ request'[g].step = "reach" =>
          (request'[g].run = live[b] /\ live[b] # 0) \/ (OfBatch(g, b) /\ request'[g] = request[g])
    BY <1>2
  <2> QED BY <1>1, <1>3, <2>1, <2>2, InReachStays
<1>10. CancelHolds(b)'
  BY <1>2, <1>8, <1>9, RacedStays DEF BatchHolds, CancelHolds
<1> QED BY <1>4, <1>5, <1>6, <1>7, <1>10 DEF BatchHolds

LEMMA ReadStep ==
    ASSUME RowsInv, NEW h \in Request, NEW b \in Batch, NEW call \in {"start", "cancel"}, Read(h, b, call)
    PROVE  RowsInv'
<1> USE DEF RowsInv
<1>1. /\ request[h].step = "idle" /\ batch[b] # "none"
      /\ request' \in [Request -> RequestRow] /\ OnlyRequest(h)
      /\ request'[h].step = call /\ request'[h].batch = b /\ request'[h].status = batch[b]
      /\ UNCHANGED <<batch, item, live, run, worker, raced, unstored, cancelled, late>>
  <2> DEFINE new == [Free EXCEPT !.step = call, !.batch = b, !.status = batch[b]]
  <2>1. 0 \in 0 .. MaxRuns
    BY Constants
  <2>2. new \in RequestRow /\ new.step = call /\ new.batch = b /\ new.status = batch[b]
    BY <2>1, RowOf DEF RequestRow, RequestStep, Free
  <2>3. request' = [request EXCEPT ![h] = new]
    BY DEF Read
  <2> HIDE DEF new
  <2>4. RequestTo(h, new)
    BY <2>2, <2>3, RequestToRow
  <2> QED BY <2>2, <2>4 DEF Read, RequestTo, Known, rows, history
<1> USE DEF OnlyRequest
<1>2. RowsTypeOK'
  BY <1>1 DEF RowsTypeOK
<1>3. \A q \in Run : RunFits(q)'
  BY <1>1 DEF RunFits, AtHand, On
<1>4. \A g \in Request : RequestFits(g)'
  BY <1>1 DEF RequestFits
<1>5. ASSUME NEW c \in Batch, c # b PROVE BatchSame(c)
  BY <1>1, <1>5 DEF BatchSame, Active, On, OfBatch
<1>6. BatchHolds(b)'
  <2>1. /\ \A g \in Request : LaunchOf(g, b)' <=> LaunchOf(g, b)
        /\ \A g \in Request : OfBatch(g, b)' => (OfBatch(g, b) /\ request'[g] = request[g]) \/ g = h
        /\ \A q \in Run : Active(q, b)' <=> Active(q, b)
        /\ \A p \in Pull : Waiting(b, p)' <=> Waiting(b, p)
        /\ \A q \in Run, p \in Pull : (On(q, p)' <=> On(q, p)) /\ (AtHand(q, p)' <=> AtHand(q, p))
    BY <1>1 DEF Active, Waiting, On, AtHand, LaunchOf, OfBatch
  <2>2. NotYetHolds(b)'
    BY <1>1, <2>1 DEF BatchHolds, NotYetHolds
  <2>3. WaitsHold(b)'
    BY <1>1, <2>1 DEF BatchHolds, WaitsHold
  <2>4. RunningHolds(b)' /\ ReviewingHolds(b)'
    BY <1>1, <2>1 DEF BatchHolds, RunningHolds, ReviewingHolds
  <2>5. Settled(b) => Settled(b)'
    BY <1>1, <2>1, SettledStays
  <2>6. InReach(b) => InReach(b)'
    <3>1. InReach(b) => batch'[b] \in {"planned", "running"}
      BY <1>1 DEF InReach
    <3> QED BY <1>1, <2>1, <3>1, InReachStays
  <2>7. CancelHolds(b)'
    BY <1>1, <2>1, <2>5, <2>6, RacedStays DEF BatchHolds, CancelHolds
  <2> QED BY <2>2, <2>3, <2>4, <2>7 DEF BatchHolds
<1> QED BY <1>1, <1>2, <1>3, <1>4, <1>5, <1>6, RowsFrom

LEMMA StartSetStep ==
    ASSUME RowsInv, NEW h \in Request, StartSet(h)
    PROVE  RowsInv'
<1> USE DEF RowsInv
<1>b. PICK b \in Batch : b = request[h].batch
  BY DEF RequestFits, StartSet
<1>1. /\ request[h].step = "start" /\ batch[b] # "none" /\ BatchTo(b, "running")
      /\ raced \subseteq raced' /\ (batch[b] \in {"running", "done"} => <<"twice", b>> \in raced')
      /\ request' \in [Request -> RequestRow] /\ OnlyRequest(h)
      /\ request'[h].step = "launch" /\ request'[h].batch = b
      /\ UNCHANGED <<item, live, run, worker, unstored, cancelled, late>>
  <2>1. BatchTo(b, "running")
    BY <1>b, StatusTo DEF StartSet, Status
  <2>2. /\ request' \in [Request -> RequestRow] /\ OnlyRequest(h)
        /\ request'[h].step = "launch" /\ request'[h].batch = b
    BY <1>b, GoesOn DEF StartSet, RequestStep
  <2> QED BY <1>b, <2>1, <2>2 DEF StartSet, RequestFits
<1> USE DEF OnlyRequest, BatchTo, OnlyBatch
<1>2. RowsTypeOK'
  BY <1>1 DEF RowsTypeOK
<1>3. \A q \in Run : RunFits(q)'
  BY <1>1 DEF RunFits, AtHand, On
<1>4. \A g \in Request : RequestFits(g)'
  BY <1>1 DEF RequestFits
<1>5. ASSUME NEW c \in Batch, c # b PROVE BatchSame(c)
  BY <1>1, <1>b, <1>5 DEF BatchSame, Active, On, OfBatch
<1>6. BatchHolds(b)'
  <2>1. /\ \A g \in Request : LaunchOf(g, b)' <=> LaunchOf(g, b) \/ g = h
        /\ \A g \in Request : g # h => (OfBatch(g, b)' <=> OfBatch(g, b)) /\ request'[g] = request[g]
        /\ \A q \in Run : Active(q, b)' <=> Active(q, b)
        /\ \A p \in Pull : Waiting(b, p)' <=> Waiting(b, p)
        /\ \A q \in Run, p \in Pull : (On(q, p)' <=> On(q, p)) /\ (AtHand(q, p)' <=> AtHand(q, p))
    BY <1>1 DEF Active, Waiting, On, AtHand, LaunchOf, OfBatch
  <2>2. NotYetHolds(b)'
    BY <1>1 DEF NotYetHolds
  <2>3. WaitsHold(b)'
    BY <1>1, <2>1 DEF BatchHolds, WaitsHold
  <2>4. RunningHolds(b)'
    BY <2>1 DEF RunningHolds
  <2>5. ReviewingHolds(b)'
    BY <1>1, <2>1 DEF BatchHolds, ReviewingHolds
  <2>6. CancelHolds(b)'
    <3> USE DEF BatchHolds
    <3>1. CASE CancelRaced(b) \/ batch[b] \in {"running", "done"}
      <4>1. CancelRaced(b)'
        BY <1>1, <3>1, RacedStays DEF CancelRaced
      <4> QED BY <4>1 DEF CancelHolds
    <3>2. CASE ~CancelRaced(b) /\ batch[b] = "planned"
      <4>1. /\ \A q \in Run : ~Active(q, b)
            /\ \A g \in Request : ~LaunchOf(g, b)
            /\ \A g \in Request : OfBatch(g, b) => request[g].step # "reach"
            /\ live[b] = 0 /\ b \notin cancelled
        BY <3>2 DEF NotYetHolds
      <4>2. InReach(b)'
        BY <1>1, <2>1, <4>1 DEF InReach
      <4>3. ASSUME NEW g \in Request, OfBatch(g, b)', request'[g].step = "finish" PROVE Settled(b)'
        <5>1. g # h /\ OfBatch(g, b) /\ request[g].step = "finish"
          BY <1>1, <2>1, <4>3
        <5>2. \A p \in Pull : ~Waiting(b, p)
          BY <5>1 DEF WaitsHold
        <5> QED BY <2>1, <4>1, <5>2 DEF Settled
      <4>4. b \notin late'
        BY <1>1, <3>2 DEF CancelHolds
      <4> QED BY <4>2, <4>3, <4>4 DEF CancelHolds
    <3>3. CASE ~CancelRaced(b) /\ batch[b] \in {"cancelled", "stopped"}
      <4>1. \A p \in Pull : ~Waiting(b, p)
        BY <3>3 DEF WaitsHold
      <4>2. Settled(b)
        BY <3>3 DEF CancelHolds, InReach
      <4>3. Settled(b)'
        BY <1>1, <2>1, <4>1, <4>2 DEF Settled
      <4>4. b \notin late'
        BY <1>1, <3>3 DEF CancelHolds
      <4> QED BY <4>3, <4>4 DEF CancelHolds
    <3>4. batch[b] \in Status
      BY RowOf
    <3> QED BY <1>1, <3>1, <3>2, <3>3, <3>4 DEF Status, Ended
  <2> QED BY <2>2, <2>3, <2>4, <2>5, <2>6 DEF BatchHolds
<1> QED BY <1>1, <1>2, <1>3, <1>4, <1>5, <1>6, RowsFrom

LEMMA StartLaunchStep ==
    ASSUME RowsInv, NEW h \in Request, StartLaunch(h)
    PROVE  RowsInv'
<1> USE DEF RowsInv
<1>b. PICK b \in Batch : b = request[h].batch
  BY DEF RequestFits, StartLaunch
<1>r. PICK r \in Run : Launched(r, b)
  BY <1>b, LaunchEffect DEF StartLaunch
<1>n. PICK next \in RequestRow : next.step = "over" /\ RequestTo(h, next)
  BY AnsweredEffect DEF StartLaunch
<1>1. /\ LaunchOf(h, b) /\ Launched(r, b)
      /\ request' \in [Request -> RequestRow] /\ OnlyRequest(h) /\ request'[h].step = "over"
      /\ UNCHANGED <<item, batch, worker, raced, unstored, cancelled, late>>
  BY <1>b, <1>r, <1>n DEF StartLaunch, LaunchOf, RequestTo, rows, history
<1> USE DEF OnlyRequest, OnlyRun, OnlyLive, Launched, LiveTo
<1>2. RowsTypeOK'
  BY <1>1 DEF RowsTypeOK
<1>3. \A q \in Run : RunFits(q)'
  BY <1>1 DEF RunFits, AtHand, On
<1>4. \A g \in Request : RequestFits(g)'
  BY <1>1 DEF RequestFits
<1>5. ASSUME NEW c \in Batch, c # b PROVE BatchSame(c)
  BY <1>1, <1>5 DEF BatchSame, Active, On, OfBatch, LaunchOf
<1>6. BatchHolds(b)'
  <2>1. /\ \A g \in Request : LaunchOf(g, b)' <=> LaunchOf(g, b) /\ g # h
        /\ \A g \in Request : OfBatch(g, b)' => OfBatch(g, b) /\ request'[g] = request[g]
        /\ \A q \in Run : Active(q, b)' <=> Active(q, b) \/ q = r
        /\ ~Active(r, b)
        /\ \A p \in Pull : Waiting(b, p)' <=> Waiting(b, p)
        /\ \A q \in Run, p \in Pull : q # r => (On(q, p)' <=> On(q, p)) /\ (AtHand(q, p)' <=> AtHand(q, p))
    BY <1>1 DEF Active, Waiting, On, AtHand, LaunchOf, OfBatch
  <2>2. NotYetHolds(b)'
    BY <1>1 DEF BatchHolds, NotYetHolds
  <2>3. WaitsHold(b)'
    BY <1>1, <2>1 DEF BatchHolds, WaitsHold
  <2>4. RunningHolds(b)'
    BY <2>1 DEF RunningHolds
  <2>5. ReviewingHolds(b)'
    BY <1>1, <2>1 DEF BatchHolds, ReviewingHolds
  <2>6. Settled(b) => Settled(b)'
    BY <1>1, <2>1 DEF Settled
  <2>7. InReach(b) => InReach(b)'
    <3> SUFFICES ASSUME InReach(b) PROVE InReach(b)'
      OBVIOUS
    <3>1. live[b] = 0 /\ b \notin cancelled /\ \A g \in Request : LaunchOf(g, b) => g = h
      BY <1>1 DEF InReach
    <3>2. \A q \in Run : ~Active(q, b)
      BY <3>1, Constants DEF InReach
    <3>3. live'[b] = r /\ Active(r, b)' /\ \A g \in Request : ~LaunchOf(g, b)'
      BY <1>1, <2>1, <3>1
    <3>4. \A g \in Request : OfBatch(g, b)' => request'[g].step # "reach"
      BY <2>1, <3>1 DEF InReach
    <3> QED BY <1>1, <2>1, <3>1, <3>2, <3>3, <3>4 DEF InReach, Active
  <2>8. CancelHolds(b)'
    BY <1>1, <2>1, <2>6, <2>7, RacedStays DEF BatchHolds, CancelHolds
  <2> QED BY <2>2, <2>3, <2>4, <2>5, <2>8 DEF BatchHolds
<1> QED BY <1>1, <1>2, <1>3, <1>4, <1>5, <1>6, RowsFrom

LEMMA RequestFailsStep ==
    ASSUME RowsInv, NEW h \in Request, RequestFails(h)
    PROVE  RowsInv'
<1> USE DEF RowsInv
<1>b. PICK b \in Batch : b = request[h].batch
  BY DEF RequestFits, RequestFails
<1>n. PICK next \in RequestRow : next.step = "over" /\ RequestTo(h, next)
  BY AnsweredEffect DEF RequestFails
<1>1. /\ OfBatch(h, b) /\ request[h].step # "launch"
      /\ request' \in [Request -> RequestRow] /\ OnlyRequest(h) /\ request'[h].step = "over"
      /\ UNCHANGED <<item, batch, live, run, worker, raced, unstored, cancelled, late>>
  BY <1>b, <1>n DEF RequestFails, OfBatch, RequestTo, rows, history
<1>2. RowsTypeOK'
  BY <1>1 DEF RowsTypeOK
<1>3. \A q \in Run : RunFits(q)'
  BY <1>1 DEF RunFits, AtHand, On
<1>4. \A g \in Request : RequestFits(g)'
  BY <1>1 DEF RequestFits, OnlyRequest
<1>5. ASSUME NEW c \in Batch, c # b PROVE BatchSame(c)
  BY <1>1, <1>5 DEF BatchSame, Active, On, OfBatch, OnlyRequest
<1>6. BatchHolds(b)'
  BY <1>1, RequestStays
<1> QED BY <1>1, <1>2, <1>3, <1>4, <1>5, <1>6, RowsFrom

LEMMA CancelLookStep ==
    ASSUME RowsInv, NEW h \in Request, CancelLook(h)
    PROVE  RowsInv'
<1> USE DEF RowsInv
<1>b. PICK b \in Batch : b = request[h].batch
  BY DEF RequestFits, CancelLook
<1>1. /\ OfBatch(h, b) /\ request[h].step = "cancel" /\ batch[b] # "none"
      /\ raced \subseteq raced'
      /\ UNCHANGED <<item, batch, live, run, worker, unstored, late>>
  BY <1>b DEF CancelLook, OfBatch, RequestFits, rows
<1>2. CASE live[b] # 0 /\ request' = [request EXCEPT ![h].step = "reach", ![h].run = live[b]] /\ UNCHANGED cancelled
  <2>1. /\ request' \in [Request -> RequestRow] /\ OnlyRequest(h)
        /\ request'[h].step = "reach" /\ request'[h].batch = b /\ request'[h].run = live[b]
    <3> DEFINE new == [request[h] EXCEPT !.step = "reach", !.run = live[b]]
    <3>1. live[b] \in 0 .. MaxRuns
      BY DEF RowsTypeOK
    <3>2. new \in RequestRow /\ new.step = "reach" /\ new.batch = b /\ new.run = live[b]
      BY <1>b, <3>1, RowOf DEF RequestRow, RequestStep
    <3>3. request' = [request EXCEPT ![h] = new]
      BY <1>2 DEF RowsTypeOK
    <3> HIDE DEF new
    <3> QED BY <3>2, <3>3, RequestToRow DEF RequestTo
  <2>2. RowsTypeOK'
    BY <1>1, <1>2, <2>1 DEF RowsTypeOK
  <2>3. \A q \in Run : RunFits(q)'
    BY <1>1 DEF RunFits, AtHand, On
  <2>4. \A g \in Request : RequestFits(g)'
    BY <1>1, <1>2, <2>1, LiveRun DEF RequestFits, OnlyRequest
  <2>5. ASSUME NEW c \in Batch, c # b PROVE BatchSame(c)
    BY <1>1, <1>2, <2>1, <2>5 DEF BatchSame, Active, On, OfBatch, OnlyRequest
  <2>6. BatchHolds(b)'
    BY <1>1, <1>2, <2>1, RequestStays
  <2> QED BY <1>1, <2>2, <2>3, <2>4, <2>5, <2>6, RowsFrom
<1>3. CASE request' = [request EXCEPT ![h].step = "stop"] /\ UNCHANGED cancelled
  <2>1. /\ request' \in [Request -> RequestRow] /\ OnlyRequest(h)
        /\ request'[h].step = "stop" /\ request'[h].batch = b
    BY <1>b, <1>3, GoesOn DEF RequestStep
  <2>2. RowsTypeOK'
    BY <1>1, <1>3, <2>1 DEF RowsTypeOK
  <2>3. \A q \in Run : RunFits(q)'
    BY <1>1 DEF RunFits, AtHand, On
  <2>4. \A g \in Request : RequestFits(g)'
    BY <1>1, <1>3, <2>1 DEF RequestFits, OnlyRequest
  <2>5. ASSUME NEW c \in Batch, c # b PROVE BatchSame(c)
    BY <1>1, <1>3, <2>1, <2>5 DEF BatchSame, Active, On, OfBatch, OnlyRequest
  <2>6. BatchHolds(b)'
    BY <1>1, <1>3, <2>1, RequestStays
  <2> QED BY <1>1, <2>2, <2>3, <2>4, <2>5, <2>6, RowsFrom
<1>4. CASE /\ live[b] = 0 /\ request[h].status # "planned"
           /\ raced' = IF Launching(b) THEN raced \cup {<<"launch", b>>} ELSE raced
           /\ Cancels(h)
  <2>n. PICK next \in RequestRow : next.step = "over" /\ RequestTo(h, next)
    BY <1>4, AnsweredEffect DEF Cancels
  <2>1. /\ request' \in [Request -> RequestRow] /\ OnlyRequest(h) /\ request'[h].step = "over"
        /\ cancelled' = cancelled \cup {b}
    BY <1>b, <1>4, <2>n DEF Cancels, RequestTo
  <2>2. RowsTypeOK'
    BY <1>1, <2>1 DEF RowsTypeOK
  <2>3. \A q \in Run : RunFits(q)'
    BY <1>1 DEF RunFits, AtHand, On
  <2>4. \A g \in Request : RequestFits(g)'
    BY <1>1, <2>1 DEF RequestFits, OnlyRequest
  <2>5. ASSUME NEW c \in Batch, c # b PROVE BatchSame(c)
    BY <1>1, <2>1, <2>5 DEF BatchSame, Active, On, OfBatch, OnlyRequest
  <2>6. BatchHolds(b)'
    <3>1. batch[b] \notin {"none", "planned"}
      BY <1>1, <1>4 DEF BatchHolds, NotYetHolds
    <3>2. /\ \A g \in Request : LaunchOf(g, b)' <=> LaunchOf(g, b)
          /\ \A g \in Request : OfBatch(g, b)' => OfBatch(g, b) /\ request'[g] = request[g]
          /\ \A q \in Run : Active(q, b)' <=> Active(q, b)
          /\ \A p \in Pull : Waiting(b, p)' <=> Waiting(b, p)
          /\ \A q \in Run, p \in Pull : (On(q, p)' <=> On(q, p)) /\ (AtHand(q, p)' <=> AtHand(q, p))
      BY <1>1, <2>1 DEF Active, Waiting, On, AtHand, LaunchOf, OfBatch, OnlyRequest
    <3>3. NotYetHolds(b)'
      BY <1>1, <3>1 DEF NotYetHolds
    <3>4. WaitsHold(b)'
      BY <1>1, <3>2 DEF BatchHolds, WaitsHold
    <3>5. RunningHolds(b)' /\ ReviewingHolds(b)'
      BY <1>1, <3>2 DEF BatchHolds, RunningHolds, ReviewingHolds
    <3>6. Settled(b) => Settled(b)'
      BY <1>1, <3>2, SettledStays
    <3>7. CASE CancelRaced(b)'
      BY <3>3, <3>4, <3>5, <3>7 DEF BatchHolds, CancelHolds
    <3>8. CASE ~CancelRaced(b)'
      <4>1. \A g \in Request : ~LaunchOf(g, b)
        BY <1>4, <3>8 DEF CancelRaced, Launching, LaunchOf
      <4>2. ~CancelRaced(b)
        BY <1>1, <3>8, RacedStays
      <4>3. InReach(b) => Settled(b)
        <5>1. InReach(b) => batch[b] = "running" /\ \A q \in Run : ~Active(q, b)
          BY <1>4, <3>1, Constants DEF InReach
        <5> QED BY <4>1, <5>1 DEF Settled
      <4>4. Settled(b)'
        BY <3>6, <4>2, <4>3 DEF BatchHolds, CancelHolds
      <4>5. b \notin late'
        BY <1>1, <4>2 DEF BatchHolds, CancelHolds
      <4> QED BY <3>3, <3>4, <3>5, <4>4, <4>5 DEF BatchHolds, CancelHolds
    <3> QED BY <3>7, <3>8
  <2> QED BY <1>1, <2>2, <2>3, <2>4, <2>5, <2>6, RowsFrom
<1> QED BY <1>b, <1>2, <1>3, <1>4 DEF CancelLook

LEMMA CancelReachStep ==
    ASSUME RowsInv, NEW h \in Request, CancelReach(h)
    PROVE  RowsInv'
<1> USE DEF RowsInv
<1>b. PICK b \in Batch : b = request[h].batch
  BY DEF RequestFits, CancelReach
<1>r. PICK r \in Run : r = request[h].run
  BY DEF RequestFits, CancelReach
<1>n. PICK next \in RequestRow : next.step = "over" /\ RequestTo(h, next)
  BY AnsweredEffect DEF CancelReach, Cancels
<1>1. /\ OfBatch(h, b) /\ request[h].step = "reach" /\ r = request[h].run /\ batch[b] # "none"
      /\ run' \in [Run -> RunRow] /\ OnlyRun(r)
      /\ run'[r].step = run[r].step /\ run'[r].batch = run[r].batch /\ run'[r].todo = run[r].todo /\ run'[r].at = run[r].at
      /\ run[r].cancelled \/ run[r].step # "over" => run'[r].cancelled
      /\ request' \in [Request -> RequestRow] /\ OnlyRequest(h) /\ request'[h].step = "over"
      /\ cancelled' = cancelled \cup {b}
      /\ UNCHANGED <<item, batch, live, worker, raced, unstored, late>>
  <2> DEFINE new == IF run[r].step = "over" THEN run[r] ELSE [run[r] EXCEPT !.cancelled = TRUE]
  <2>1. /\ new \in RunRow /\ new.step = run[r].step
        /\ new.batch = run[r].batch /\ new.todo = run[r].todo /\ new.at = run[r].at
        /\ run[r].cancelled \/ run[r].step # "over" => new.cancelled
    BY RowOf DEF RunRow
  <2>2. run' = [run EXCEPT ![r] = new]
    BY <1>r DEF CancelReach, RowsTypeOK
  <2> HIDE DEF new
  <2>3. RunTo(r, new)
    BY <2>1, <2>2, RunToRow
  <2> QED BY <2>1, <2>3, <1>b, <1>r, <1>n DEF CancelReach, Cancels, RunTo, RequestTo, RequestFits, OfBatch, rows
<1> USE DEF OnlyRequest, OnlyRun
<1>2. RowsTypeOK'
  BY <1>1 DEF RowsTypeOK
<1>3. \A q \in Run : RunFits(q)'
  BY <1>1 DEF RunFits, AtHand, On
<1>4. \A g \in Request : RequestFits(g)'
  BY <1>1 DEF RequestFits
<1>5. ASSUME NEW c \in Batch, c # b PROVE BatchSame(c)
  BY <1>1, <1>5 DEF BatchSame, Active, On, OfBatch
<1>6. BatchHolds(b)'
  <2>1. /\ \A g \in Request : LaunchOf(g, b)' <=> LaunchOf(g, b)
        /\ \A g \in Request : OfBatch(g, b)' => OfBatch(g, b) /\ request'[g] = request[g]
        /\ \A q \in Run : Active(q, b)' <=> Active(q, b)
        /\ \A q \in Run : run'[q].step = run[q].step /\ run'[q].todo = run[q].todo /\ (run[q].cancelled => run'[q].cancelled)
        /\ \A p \in Pull : Waiting(b, p)' <=> Waiting(b, p)
        /\ \A q \in Run, p \in Pull : (On(q, p)' <=> On(q, p)) /\ (AtHand(q, p)' <=> AtHand(q, p))
    BY <1>1 DEF Active, Waiting, On, AtHand, LaunchOf, OfBatch
  <2>2. batch[b] \notin {"none", "planned"}
    BY <1>1 DEF BatchHolds, NotYetHolds
  <2>3. NotYetHolds(b)'
    BY <1>1, <2>2 DEF NotYetHolds
  <2>4. WaitsHold(b)'
    BY <1>1, <2>1 DEF BatchHolds, WaitsHold
  <2>5. RunningHolds(b)' /\ ReviewingHolds(b)'
    BY <1>1, <2>1 DEF BatchHolds, RunningHolds, ReviewingHolds
  <2>6. Settled(b) => Settled(b)'
    BY <1>1, <2>1, SettledStays
  <2>7. InReach(b) => InReach(b)'
    <3> SUFFICES ASSUME InReach(b) PROVE InReach(b)'
      OBVIOUS
    <3>1. live[b] = r /\ live[b] # 0 /\ Active(r, b)
      BY <1>1 DEF InReach
    <3>2. run'[r].cancelled /\ Active(r, b)'
      BY <1>1, <2>1, <3>1 DEF Active
    <3>3. \A g \in Request : ~LaunchOf(g, b)'
      BY <2>1, <3>1 DEF InReach
    <3> QED BY <1>1, <2>1, <3>1, <3>2, <3>3 DEF InReach, Active
  <2>8. CancelHolds(b)'
    BY <1>1, <2>1, <2>6, <2>7, RacedStays DEF BatchHolds, CancelHolds
  <2> QED BY <2>3, <2>4, <2>5, <2>8 DEF BatchHolds
<1> QED BY <1>1, <1>2, <1>3, <1>4, <1>5, <1>6, RowsFrom

LEMMA CancelItemsStep ==
    ASSUME RowsInv, NEW h \in Request, CancelItems(h)
    PROVE  RowsInv'
<1> USE DEF RowsInv
<1>b. PICK b \in Batch : b = request[h].batch
  BY DEF RequestFits, CancelItems
<1>1. /\ OfBatch(h, b) /\ request[h].step = "stop" /\ batch[b] # "none"
      /\ item' \in [Batch -> [Pull -> ItemState]] /\ OnlyItems(b)
      /\ \A p \in Pull : item'[b][p] \notin Unfinished
      /\ raced \subseteq raced'
      /\ (\E r \in Run : run[r].batch = b /\ run[r].step \in {"next", "start"}) => <<"start", b>> \in raced'
      /\ request' \in [Request -> RequestRow] /\ OnlyRequest(h)
      /\ request'[h].step = "finish" /\ request'[h].batch = b
      /\ UNCHANGED <<batch, live, run, worker, unstored, cancelled, late>>
  <2>1. /\ request' \in [Request -> RequestRow] /\ OnlyRequest(h)
        /\ request'[h].step = "finish" /\ request'[h].batch = b
    BY <1>b, GoesOn DEF CancelItems, RequestStep
  <2>2. ItemsTo(b, Stopped(item[b]))
    BY <1>b, StoppedIs, ItemsToState DEF CancelItems
  <2> QED BY <1>b, <2>1, <2>2, StoppedIs DEF CancelItems, OfBatch, RequestFits, ItemsTo
<1> USE DEF OnlyRequest, OnlyItems
<1>2. RowsTypeOK'
  BY <1>1 DEF RowsTypeOK
<1>3. \A q \in Run : RunFits(q)'
  BY <1>1 DEF RunFits, AtHand, On
<1>4. \A g \in Request : RequestFits(g)'
  BY <1>1 DEF RequestFits
<1>5. ASSUME NEW c \in Batch, c # b PROVE BatchSame(c)
  BY <1>1, <1>5 DEF BatchSame, Active, On, OfBatch
<1>6. BatchHolds(b)'
  <2>1. /\ \A g \in Request : LaunchOf(g, b)' <=> LaunchOf(g, b)
        /\ \A g \in Request : OfBatch(g, b)' => (OfBatch(g, b) /\ request'[g] = request[g]) \/ g = h
        /\ \A q \in Run : Active(q, b)' <=> Active(q, b)
        /\ \A p \in Pull : ~Waiting(b, p)'
    BY <1>1 DEF Active, Waiting, LaunchOf, OfBatch, Unfinished
  <2>2. NotYetHolds(b)'
    BY <1>1, <2>1 DEF BatchHolds, NotYetHolds
  <2>3. WaitsHold(b)' /\ ReviewingHolds(b)'
    BY <1>1, <2>1 DEF WaitsHold, ReviewingHolds, Unfinished
  <2>4. RunningHolds(b)'
    BY <1>1, <2>1 DEF BatchHolds, RunningHolds
  <2>5. CancelRaced(b)' \/ Settled(b)'
    <3>1. CASE \E r \in Run : run[r].batch = b /\ run[r].step \in {"next", "start"}
      BY <1>1, <3>1 DEF CancelRaced
    <3>2. CASE ~\E r \in Run : run[r].batch = b /\ run[r].step \in {"next", "start"}
      <4>1. ASSUME NEW q \in Run, Active(q, b) PROVE run[q].todo = {}
        <5>1. run[q].step \in RunStep
          BY RowOf DEF RunRow
        <5> QED BY <3>2, <4>1, <5>1 DEF RunFits, Active, RunStep
      <4> QED BY <1>1, <2>1, <4>1 DEF Settled
    <3> QED BY <3>1, <3>2
  <2>6. CancelHolds(b)'
    BY <1>1, <2>5, RacedStays DEF BatchHolds, CancelHolds
  <2> QED BY <2>2, <2>3, <2>4, <2>6 DEF BatchHolds
<1> QED BY <1>1, <1>2, <1>3, <1>4, <1>5, <1>6, RowsFrom

LEMMA CancelFinishStep ==
    ASSUME RowsInv, NEW h \in Request, CancelFinish(h)
    PROVE  RowsInv'
<1> USE DEF RowsInv
<1>b. PICK b \in Batch : b = request[h].batch
  BY DEF RequestFits, CancelFinish
<1>n. PICK next \in RequestRow : next.step = "over" /\ RequestTo(h, next)
  BY AnsweredEffect DEF CancelFinish, Cancels
<1>1. /\ OfBatch(h, b) /\ request[h].step = "finish" /\ BatchTo(b, "cancelled")
      /\ request' \in [Request -> RequestRow] /\ OnlyRequest(h) /\ request'[h].step = "over"
      /\ cancelled' = cancelled \cup {b}
      /\ UNCHANGED <<item, live, run, worker, raced, unstored, late>>
  <2>1. BatchTo(b, "cancelled")
    BY <1>b, StatusTo DEF CancelFinish, Status, Ended
  <2> QED BY <1>b, <1>n, <2>1 DEF CancelFinish, Cancels, RequestTo, OfBatch
<1> USE DEF OnlyRequest, BatchTo, OnlyBatch
<1>2. RowsTypeOK'
  BY <1>1 DEF RowsTypeOK
<1>3. \A q \in Run : RunFits(q)'
  BY <1>1 DEF RunFits, AtHand, On
<1>4. \A g \in Request : RequestFits(g)'
  BY <1>1 DEF RequestFits
<1>5. ASSUME NEW c \in Batch, c # b PROVE BatchSame(c)
  BY <1>1, <1>5 DEF BatchSame, Active, On, OfBatch
<1>6. BatchHolds(b)'
  <2>1. /\ \A q \in Run : Active(q, b)' <=> Active(q, b)
        /\ \A q \in Run, p \in Pull : On(q, p)' <=> On(q, p)
        /\ \A p \in Pull : ~Waiting(b, p) /\ ~Waiting(b, p)'
    BY <1>1 DEF Active, Waiting, On, BatchHolds, WaitsHold
  <2>2. NotYetHolds(b)' /\ WaitsHold(b)' /\ RunningHolds(b)'
    BY <1>1, <2>1 DEF NotYetHolds, WaitsHold, RunningHolds
  <2>3. ReviewingHolds(b)'
    BY <1>1, <2>1 DEF BatchHolds, ReviewingHolds
  <2>4. Settled(b) => Settled(b)'
    BY <1>1, <2>1 DEF Settled
  <2>5. CancelHolds(b)'
    BY <1>1, <2>4, RacedStays DEF BatchHolds, CancelHolds
  <2> QED BY <2>2, <2>3, <2>5 DEF BatchHolds
<1> QED BY <1>1, <1>2, <1>3, <1>4, <1>5, <1>6, RowsFrom

\* A run ends, with the end status stored or a statement that failed.
LEMMA RunEndsHolds ==
    ASSUME RowsTypeOK, NEW r \in Run, NEW b \in Batch, BatchHolds(b), RunFits(r), Active(r, b),
           \A p \in Pull : ~On(r, p), RunEnds(r),
           \/ batch' = batch /\ b \in unstored'
           \/ BatchTo(b, run[r].step) /\ run[r].step \in {"done", "cancelled"},
           UNCHANGED <<item, worker, request, raced, cancelled, late>>, b \in unstored => b \in unstored'
    PROVE  BatchHolds(b)'
<1>1. /\ run' \in [Run -> RunRow] /\ OnlyRun(r) /\ run'[r].step = "over"
      /\ LiveTo(b, 0)
  <2> DEFINE new == [NoRun EXCEPT !.step = "over"]
  <2>1. new \in RunRow /\ new.step = "over"
    BY DEF RunRow, RunStep, NoRun
  <2>2. run' = [run EXCEPT ![r] = new]
    BY DEF RunEnds, GoRun, Over, Active
  <2> HIDE DEF new
  <2>3. RunTo(r, new)
    BY <2>1, <2>2, RunToRow
  <2>4. 0 \in 0 .. MaxRuns /\ live' = [live EXCEPT ![b] = 0]
    BY Constants DEF RunEnds, Active
  <2> QED BY <2>1, <2>3, <2>4, LiveToRun DEF RunTo
<1>2. /\ \A q \in Run : Active(q, b)' <=> Active(q, b) /\ q # r
      /\ \A q \in Run : q # r => run'[q] = run[q]
      /\ \A g \in Request : LaunchOf(g, b)' <=> LaunchOf(g, b)
      /\ \A p \in Pull : Waiting(b, p)' <=> Waiting(b, p)
      /\ \A q \in Run, p \in Pull : q # r => (On(q, p)' <=> On(q, p)) /\ (AtHand(q, p)' <=> AtHand(q, p))
  BY <1>1 DEF Active, LaunchOf, Waiting, On, AtHand, OnlyRun
<1>3. batch[b] \notin {"none", "planned"}
  BY DEF BatchHolds, NotYetHolds
<1>4. \/ batch'[b] = batch[b] /\ b \in unstored'
      \/ batch'[b] = run[r].step /\ run[r].step \in {"done", "cancelled"}
  BY DEF BatchTo
<1>5. NotYetHolds(b)' /\ RunningHolds(b)'
  BY <1>3, <1>4 DEF NotYetHolds, RunningHolds
<1>6. ReviewingHolds(b)'
  BY <1>2 DEF BatchHolds, ReviewingHolds
<1>7. \A p \in Pull : Waiting(b, p) => b \in unstored' /\ batch'[b] \notin {"cancelled", "stopped"}
  BY <1>4 DEF BatchHolds, WaitsHold, RunFits, AtHand
<1>8. WaitsHold(b)'
  BY <1>2, <1>7 DEF BatchHolds, WaitsHold, OfBatch
<1>9. Settled(b) => Settled(b)'
  <2>1. (\E p \in Pull : Waiting(b, p)) /\ Settled(b) => batch'[b] \in {"running", "done"}
    BY <1>4, <1>7 DEF Settled
  <2> QED BY <1>2, <2>1 DEF Settled
<1>10. InReach(b) => Settled(b)'
  <2> SUFFICES ASSUME InReach(b) PROVE Settled(b)'
    OBVIOUS
  <2>1. \A q \in Run : ~Active(q, b)'
    BY <1>2 DEF InReach
  <2>2. \A g \in Request : ~LaunchOf(g, b)'
    BY <1>2, Constants DEF InReach
  <2>3. (\E p \in Pull : Waiting(b, p)') => batch'[b] \in {"running", "done"}
    BY <1>2, <1>3, <1>4, <1>7 DEF InReach
  <2> QED BY <2>1, <2>2, <2>3 DEF Settled
<1>11. CancelHolds(b)'
  BY <1>9, <1>10, RacedStays DEF BatchHolds, CancelHolds, OfBatch
<1> QED BY <1>5, <1>6, <1>8, <1>11 DEF BatchHolds

LEMMA RunEndsStep ==
    ASSUME RowsInv, NEW r \in Run, NEW b \in Batch, Active(r, b),
           \A p \in Pull : ~On(r, p), RunEnds(r),
           \/ batch' = batch /\ b \in unstored'
           \/ BatchTo(b, run[r].step) /\ run[r].step \in {"done", "cancelled"},
           UNCHANGED <<item, worker, request, raced, cancelled, late>>, unstored \subseteq unstored'
    PROVE  RowsInv'
<1> USE DEF RowsInv
<1>1. /\ run' \in [Run -> RunRow] /\ OnlyRun(r) /\ run'[r].step = "over" /\ run'[r].todo = {}
      /\ LiveTo(b, 0)
  <2> DEFINE new == [NoRun EXCEPT !.step = "over"]
  <2>1. new \in RunRow /\ new.step = "over" /\ new.todo = {}
    BY DEF RunRow, RunStep, NoRun
  <2>2. run' = [run EXCEPT ![r] = new]
    BY DEF RunEnds, GoRun, Over, Active
  <2> HIDE DEF new
  <2>3. RunTo(r, new)
    BY <2>1, <2>2, RunToRow
  <2>4. 0 \in 0 .. MaxRuns /\ live' = [live EXCEPT ![b] = 0]
    BY Constants DEF RunEnds, Active
  <2> QED BY <2>1, <2>3, <2>4, LiveToRun DEF RunTo
<1>2. RowsTypeOK'
  BY <1>1 DEF RowsTypeOK, LiveTo, BatchTo
<1>3. \A q \in Run : RunFits(q)'
  BY <1>1 DEF RunFits, AtHand, On, OnlyRun
<1>4. batch[b] # "none" /\ \A c \in Batch : c # b => batch'[c] = batch[c]
  BY DEF BatchHolds, NotYetHolds, BatchTo, OnlyBatch
<1>5. batch'[b] # "none"
  BY <1>4 DEF BatchTo
<1>6. \A g \in Request : RequestFits(g)'
  BY <1>4, <1>5 DEF RequestFits
<1>7. ASSUME NEW c \in Batch, c # b PROVE BatchSame(c)
  BY <1>1, <1>4, <1>7 DEF BatchSame, Active, On, OfBatch, OnlyRun, LiveTo, OnlyLive
<1>8. BatchHolds(b)'
  BY RunEndsHolds
<1> QED BY <1>2, <1>3, <1>6, <1>7, <1>8, RowsFrom

LEMMA ExecuteListStep ==
    ASSUME RowsInv, NEW r \in Run, ExecuteList(r)
    PROVE  RowsInv'
<1> USE DEF RowsInv
<1>b. PICK b \in Batch : b = run[r].batch
  BY DEF RunFits, ExecuteList
<1>a. Active(r, b) /\ run[r].step = "list" /\ \A p \in Pull : ~On(r, p)
  BY <1>b DEF Active, ExecuteList, RunFits
<1>c. CASE RunEnds(r) /\ Unstored(run[r].batch)
  BY <1>a, <1>b, <1>c, RunEndsStep DEF ExecuteList, Unstored, rows
<1>d. CASE /\ GoRun(r, [run[r] EXCEPT !.step = "next", !.todo = {p \in Pull : item[run[r].batch][p] = "waiting"}])
           /\ UNCHANGED <<live, events, unstored>>
  <2>1. /\ run' \in [Run -> RunRow] /\ OnlyRun(r)
        /\ run'[r].step = "next" /\ run'[r].batch = b /\ run'[r].cancelled = run[r].cancelled
        /\ run'[r].todo = {p \in Pull : item[b][p] = "waiting"}
        /\ UNCHANGED <<item, batch, live, worker, request, raced, unstored, cancelled, late>>
    <3> DEFINE new == [run[r] EXCEPT !.step = "next", !.todo = {p \in Pull : item[b][p] = "waiting"}]
    <3>1. /\ new \in RunRow
          /\ new.step = "next" /\ new.batch = b /\ new.cancelled = run[r].cancelled
          /\ new.todo = {p \in Pull : item[b][p] = "waiting"}
      BY <1>b, RowOf DEF RunRow, RunStep
    <3>2. run' = [run EXCEPT ![r] = new]
      BY <1>b, <1>d DEF GoRun
    <3> HIDE DEF new
    <3>3. RunTo(r, new)
      BY <3>1, <3>2, RunToRow
    <3> QED BY <1>d, <3>1, <3>3 DEF ExecuteList, RunTo, rows
  <2> USE DEF OnlyRun
  <2>2. RowsTypeOK'
    BY <2>1 DEF RowsTypeOK
  <2>3. \A q \in Run : RunFits(q)'
    BY <1>a, <2>1 DEF RunFits, AtHand, On
  <2>4. \A g \in Request : RequestFits(g)'
    BY <2>1 DEF RequestFits
  <2>5. ASSUME NEW c \in Batch, c # b PROVE BatchSame(c)
    BY <1>a, <2>1, <2>5 DEF BatchSame, Active, On, OfBatch
  <2>6. BatchHolds(b)'
    <3>1. /\ \A g \in Request : LaunchOf(g, b)' <=> LaunchOf(g, b)
          /\ \A g \in Request : OfBatch(g, b)' <=> OfBatch(g, b)
          /\ \A q \in Run : Active(q, b)' <=> Active(q, b)
          /\ \A p \in Pull : Waiting(b, p)' <=> Waiting(b, p)
          /\ \A q \in Run, p \in Pull : (On(q, p)' <=> On(q, p)) /\ (q # r => (AtHand(q, p)' <=> AtHand(q, p)))
          /\ \A p \in Pull : Waiting(b, p) => AtHand(r, p)'
      BY <1>a, <2>1 DEF Active, Waiting, On, AtHand, LaunchOf, OfBatch
    <3>2. NotYetHolds(b)'
      BY <2>1, <3>1 DEF BatchHolds, NotYetHolds
    <3>3. WaitsHold(b)'
      BY <2>1, <3>1 DEF BatchHolds, WaitsHold
    <3>4. RunningHolds(b)' /\ ReviewingHolds(b)'
      BY <2>1, <3>1 DEF BatchHolds, RunningHolds, ReviewingHolds
    <3>5. Settled(b) => Settled(b)'
      <4>1. Settled(b) => run[r].cancelled \/ \A p \in Pull : ~Waiting(b, p)
        BY <1>a DEF Settled
      <4>2. Settled(b) => run'[r].cancelled \/ run'[r].todo = {}
        BY <2>1, <4>1 DEF Waiting
      <4> QED BY <2>1, <3>1, <4>2 DEF Settled
    <3>6. InReach(b) => InReach(b)'
      <4>1. InReach(b) => batch'[b] \in {"planned", "running"}
        BY <2>1 DEF InReach
      <4> QED BY <2>1, <3>1, <4>1, InReachStays
    <3>7. CancelHolds(b)'
      BY <2>1, <3>1, <3>5, <3>6, RacedStays DEF BatchHolds, CancelHolds
    <3> QED BY <3>2, <3>3, <3>4, <3>7 DEF BatchHolds
  <2> QED BY <2>1, <2>2, <2>3, <2>4, <2>5, <2>6, RowsFrom
<1> QED BY <1>c, <1>d DEF ExecuteList

LEMMA ExecuteCheckStep ==
    ASSUME RowsInv, NEW r \in Run, ExecuteCheck(r)
    PROVE  RowsInv'
<1> USE DEF RowsInv
<1>b. PICK b \in Batch : b = run[r].batch
  BY DEF RunFits, ExecuteCheck
<1>p. PICK p \in First(r) : GoRun(r, [run[r] EXCEPT !.step = "start", !.at = p, !.todo = @ \ {p}])
  BY DEF ExecuteCheck
<1>1. /\ run[r].step = "next" /\ Active(r, b) /\ ~run[r].cancelled /\ p \in run[r].todo /\ p \in Pull
      /\ run' \in [Run -> RunRow] /\ OnlyRun(r)
      /\ run'[r].step = "start" /\ run'[r].batch = b /\ run'[r].cancelled = run[r].cancelled
      /\ run'[r].todo = run[r].todo \ {p} /\ run'[r].at = p
      /\ late' = late \cup (cancelled \cap {b})
      /\ UNCHANGED <<item, batch, live, worker, request, raced, unstored, cancelled>>
  <2>0. p \in run[r].todo /\ p \in Pull
    BY <1>p, RowOf DEF RunRow, First
  <2> DEFINE new == [run[r] EXCEPT !.step = "start", !.at = p, !.todo = @ \ {p}]
  <2>1. /\ new \in RunRow
        /\ new.step = "start" /\ new.batch = b /\ new.cancelled = run[r].cancelled
        /\ new.todo = run[r].todo \ {p} /\ new.at = p
    BY <1>b, <2>0, RowOf DEF RunRow, RunStep
  <2>2. run' = [run EXCEPT ![r] = new]
    BY <1>p DEF GoRun
  <2> HIDE DEF new
  <2>3. RunTo(r, new)
    BY <2>1, <2>2, RunToRow
  <2> QED BY <1>b, <2>0, <2>1, <2>3 DEF ExecuteCheck, RunTo, Active, rows
<1> USE DEF OnlyRun
<1>2. RowsTypeOK'
  BY <1>1 DEF RowsTypeOK
<1>3. \A q \in Run : RunFits(q)'
  BY <1>1 DEF RunFits, AtHand, On, Active
<1>4. \A g \in Request : RequestFits(g)'
  BY <1>1 DEF RequestFits
<1>5. ASSUME NEW c \in Batch, c # b PROVE BatchSame(c)
  BY <1>1, <1>5 DEF BatchSame, Active, On, OfBatch
<1>6. BatchHolds(b)'
  <2>1. /\ \A g \in Request : LaunchOf(g, b)' <=> LaunchOf(g, b)
        /\ \A g \in Request : OfBatch(g, b)' <=> OfBatch(g, b)
        /\ \A q \in Run : Active(q, b)' <=> Active(q, b)
        /\ \A x \in Pull : Waiting(b, x)' <=> Waiting(b, x)
        /\ \A q \in Run, x \in Pull : (On(q, x)' <=> On(q, x)) /\ (AtHand(q, x)' <=> AtHand(q, x))
    BY <1>1 DEF Active, Waiting, On, AtHand, LaunchOf, OfBatch
  <2>2. NotYetHolds(b)'
    BY <1>1, <2>1 DEF BatchHolds, NotYetHolds
  <2>3. WaitsHold(b)'
    BY <1>1, <2>1 DEF BatchHolds, WaitsHold
  <2>4. RunningHolds(b)' /\ ReviewingHolds(b)'
    BY <1>1, <2>1 DEF BatchHolds, RunningHolds, ReviewingHolds
  <2>5. ~Settled(b)
    BY <1>1 DEF Settled
  <2>6. CASE CancelRaced(b)
    <3>1. CancelRaced(b)'
      BY <1>1, <2>6, RacedStays
    <3> QED BY <2>2, <2>3, <2>4, <3>1 DEF BatchHolds, CancelHolds
  <2>7. CASE ~CancelRaced(b)
    <3>1. InReach(b) /\ b \notin late /\ \A g \in Request : ~(OfBatch(g, b) /\ request[g].step = "finish")
      BY <2>5, <2>7 DEF BatchHolds, CancelHolds
    <3>2. b \notin cancelled
      BY <1>1, <3>1 DEF InReach
    <3>3. batch'[b] \in {"planned", "running"}
      BY <1>1, <3>1 DEF InReach
    <3>4. InReach(b)'
      BY <1>1, <2>1, <3>1, <3>3, InReachStays
    <3>5. b \notin late' /\ \A g \in Request : ~(OfBatch(g, b)' /\ request'[g].step = "finish")
      BY <1>1, <2>1, <3>1, <3>2
    <3> QED BY <2>2, <2>3, <2>4, <3>4, <3>5 DEF BatchHolds, CancelHolds
  <2> QED BY <2>6, <2>7
<1>7. late' \subseteq Batch
  BY <1>1
<1> QED BY <1>2, <1>3, <1>4, <1>5, <1>6, <1>7, RowsFrom

LEMMA ExecuteStartStep ==
    ASSUME RowsInv, worker \in [Run -> [Pull -> PostWork]], NEW r \in Run, ExecuteStart(r)
    PROVE  RowsInv'
<1> USE DEF RowsInv
<1>b. PICK b \in Batch : b = run[r].batch
  BY DEF RunFits, ExecuteStart
<1>p. PICK p \in Pull : p = run[r].at
  BY DEF ExecuteStart, RunFits
<1>1. /\ run[r].step = "start" /\ Active(r, b) /\ p = run[r].at /\ p \notin run[r].todo
      /\ run' \in [Run -> RunRow] /\ OnlyRun(r)
      /\ run'[r].step = "next" /\ run'[r].batch = b /\ run'[r].cancelled = run[r].cancelled /\ run'[r].todo = run[r].todo
      /\ item' \in [Batch -> [Pull -> ItemState]] /\ OnlyItems(b)
      /\ \A x \in Pull : item'[b][x] = item[b][x] \/ (x = p /\ item'[b][x] = "reviewing")
      /\ \A q \in Run, x \in Pull : On(q, x)' <=> On(q, x) \/ (q = r /\ x = p)
      /\ UNCHANGED <<batch, live, request, raced, unstored, cancelled, late>>
  <2> DEFINE new == [run[r] EXCEPT !.step = "next", !.at = ""]
  <2>1. /\ new \in RunRow
        /\ new.step = "next" /\ new.batch = b /\ new.cancelled = run[r].cancelled /\ new.todo = run[r].todo
    BY <1>b, RowOf DEF RunRow, RunStep
  <2>2. run' = [run EXCEPT ![r] = new]
    BY DEF GoRun, ExecuteStart
  <2> HIDE DEF new
  <2>3. RunTo(r, new)
    BY <2>1, <2>2, RunToRow
  <2>4. /\ item' \in [Batch -> [Pull -> ItemState]] /\ OnlyItems(b)
        /\ \A x \in Pull : item'[b][x] = item[b][x] \/ (x = p /\ item'[b][x] = "reviewing")
    <3>1. CASE item' = item
      BY <3>1 DEF RowsTypeOK, OnlyItems
    <3>2. CASE item' = [item EXCEPT ![b][p] = "reviewing"]
      <4> DEFINE items == [item[b] EXCEPT ![p] = "reviewing"]
      <4>1. items \in [Pull -> ItemState] /\ \A x \in Pull : items[x] = item[b][x] \/ (x = p /\ items[x] = "reviewing")
        BY RowOf DEF ItemState, Unfinished
      <4>2. item' = [item EXCEPT ![b] = items]
        BY <3>2 DEF RowsTypeOK
      <4> HIDE DEF items
      <4> QED BY <4>1, <4>2, ItemsToState DEF ItemsTo
    <3> QED BY <1>b, <1>p, <3>1, <3>2 DEF ExecuteStart
  <2>5. \A q \in Run, x \in Pull : On(q, x)' <=> On(q, x) \/ (q = r /\ x = p)
    BY <1>p DEF ExecuteStart, NoWork, On
  <2>6. run[r].step = "start" /\ Active(r, b) /\ p \notin run[r].todo
    BY <1>b, <1>p DEF ExecuteStart, RunFits, Active
  <2> QED BY <1>p, <2>1, <2>3, <2>4, <2>5, <2>6 DEF ExecuteStart, RunTo, history
<1> USE DEF OnlyRun, OnlyItems
<1>2. RowsTypeOK'
  BY <1>1 DEF RowsTypeOK
<1>3. \A q \in Run : RunFits(q)'
  BY <1>1 DEF RunFits, AtHand, Active
<1>4. \A g \in Request : RequestFits(g)'
  BY <1>1 DEF RequestFits
<1>5. ASSUME NEW c \in Batch, c # b PROVE BatchSame(c)
  BY <1>1, <1>5 DEF BatchSame, Active, OfBatch
<1>6. BatchHolds(b)'
  <2>1. /\ \A g \in Request : LaunchOf(g, b)' <=> LaunchOf(g, b)
        /\ \A g \in Request : OfBatch(g, b)' <=> OfBatch(g, b)
        /\ \A q \in Run : Active(q, b)' <=> Active(q, b)
        /\ \A x \in Pull : Waiting(b, x)' => Waiting(b, x)
        /\ \A q \in Run, x \in Pull : AtHand(q, x) => AtHand(q, x)' \/ On(q, x)'
        /\ \A q \in Run, x \in Pull : On(q, x) => On(q, x)'
        /\ \A q \in Run : run'[q].todo = run[q].todo /\ run'[q].cancelled = run[q].cancelled
        /\ \A q \in Run : q # r => run'[q] = run[q]
    BY <1>1 DEF Active, Waiting, AtHand, LaunchOf, OfBatch
  <2>2. NotYetHolds(b)'
    BY <1>1, <2>1 DEF BatchHolds, NotYetHolds
  <2>3. WaitsHold(b)'
    <3> SUFFICES ASSUME NEW x \in Pull, Waiting(b, x)'
                 PROVE  /\ batch'[b] \notin {"cancelled", "stopped"}
                        /\ \A q \in Run : Active(q, b)' => run'[q].step # "cancelled"
                        /\ \A h \in Request : OfBatch(h, b)' => request'[h].step # "finish"
                        /\ \/ b \in unstored'
                           \/ /\ batch'[b] # "done"
                              /\ \A q \in Run : Active(q, b)' => run'[q].step = "list" \/ AtHand(q, x)' \/ On(q, x)'
      BY DEF WaitsHold
    <3>1. Waiting(b, x)
      BY <2>1
    <3>2. \A q \in Run : Active(q, b) => run'[q].step # "cancelled"
      BY <1>1, <2>1, <3>1 DEF BatchHolds, WaitsHold
    <3>3. b \in unstored \/ \A q \in Run : Active(q, b) => run'[q].step = "list" \/ AtHand(q, x)' \/ On(q, x)'
      BY <1>1, <2>1, <3>1 DEF BatchHolds, WaitsHold
    <3> QED BY <1>1, <2>1, <3>1, <3>2, <3>3 DEF BatchHolds, WaitsHold
  <2>4. RunningHolds(b)'
    BY <1>1, <2>1 DEF BatchHolds, RunningHolds
  <2>5. ReviewingHolds(b)'
    BY <1>1, <2>1 DEF BatchHolds, ReviewingHolds
  <2>6. Settled(b) => Settled(b)'
    BY <1>1, <2>1, SettledStays
  <2>7. InReach(b) => InReach(b)'
    <3>1. InReach(b) => batch'[b] \in {"planned", "running"}
      BY <1>1 DEF InReach
    <3> QED BY <1>1, <2>1, <3>1, InReachStays
  <2>8. CancelHolds(b)'
    BY <1>1, <2>1, <2>6, <2>7, RacedStays DEF BatchHolds, CancelHolds
  <2> QED BY <2>2, <2>3, <2>4, <2>5, <2>8 DEF BatchHolds
<1> QED BY <1>1, <1>2, <1>3, <1>4, <1>5, <1>6, RowsFrom

LEMMA ExecuteSpentStep ==
    ASSUME RowsInv, NEW r \in Run, ExecuteSpent(r)
    PROVE  RowsInv'
<1> USE DEF RowsInv
<1>b. PICK b \in Batch : b = run[r].batch
  BY DEF RunFits, ExecuteSpent
<1>s. PICK some \in SUBSET (run[r].todo \cup {run[r].at}) :
        /\ item' = [item EXCEPT ![b] = [p \in Pull |-> IF p \in some THEN "left" ELSE @[p]]]
        /\ some = run[r].todo \cup {run[r].at} \/ b \in unstored'
  <2> DEFINE rest == run[r].todo \cup {run[r].at}
             Skip(some) == item' = [item EXCEPT ![b] = [p \in Pull |-> IF p \in some THEN "left" ELSE @[p]]]
  <2>1. Skip(rest) \/ ((\E some \in SUBSET rest \ {rest} : Skip(some)) /\ b \in unstored')
    BY <1>b DEF ExecuteSpent, Unstored
  <2>2. CASE Skip(rest)
    BY <2>2
  <2>3. CASE (\E some \in SUBSET rest \ {rest} : Skip(some)) /\ b \in unstored'
    BY <2>3
  <2> QED BY <2>1, <2>2, <2>3
<1>1. /\ run[r].step = "start" /\ Active(r, b)
      /\ run' \in [Run -> RunRow] /\ OnlyRun(r)
      /\ run'[r].step = "next" /\ run'[r].batch = b /\ run'[r].cancelled = run[r].cancelled /\ run'[r].todo = {}
      /\ item' \in [Batch -> [Pull -> ItemState]] /\ OnlyItems(b)
      /\ \A x \in Pull : item'[b][x] = item[b][x] \/ item'[b][x] = "left"
      /\ b \in unstored' \/ \A x \in Pull : AtHand(r, x) => item'[b][x] = "left"
      /\ unstored \subseteq unstored'
      /\ UNCHANGED <<batch, live, worker, request, raced, cancelled, late>>
  <2> DEFINE new == [run[r] EXCEPT !.step = "next", !.at = "", !.todo = {}]
             items == [x \in Pull |-> IF x \in some THEN "left" ELSE item[b][x]]
  <2>1. /\ new \in RunRow
        /\ new.step = "next" /\ new.batch = b /\ new.cancelled = run[r].cancelled /\ new.todo = {}
    BY <1>b, RowOf DEF RunRow, RunStep
  <2>2. run' = [run EXCEPT ![r] = new]
    BY DEF GoRun, ExecuteSpent
  <2> HIDE DEF new
  <2>3. RunTo(r, new)
    BY <2>1, <2>2, RunToRow
  <2>4. item' = [item EXCEPT ![b] = items]
    BY <1>s DEF RowsTypeOK
  <2>5. items \in [Pull -> ItemState]
    BY RowOf DEF ItemState, Final
  <2>6. \A x \in Pull : (items[x] = item[b][x] \/ items[x] = "left") /\ (x \in some => items[x] = "left")
    OBVIOUS
  <2> HIDE DEF items
  <2>7. ItemsTo(b, items)
    BY <2>4, <2>5, ItemsToState
  <2>8. run[r].step = "start" /\ Active(r, b)
    BY <1>b DEF ExecuteSpent, Active
  <2>9. b \in unstored' \/ \A x \in Pull : AtHand(r, x) => items[x] = "left"
    BY <1>s, <2>6 DEF AtHand
  <2>10. unstored \subseteq unstored' /\ UNCHANGED <<batch, live, worker, request, raced, cancelled, late>>
    BY DEF ExecuteSpent, Unstored
  <2> QED BY <2>1, <2>3, <2>6, <2>7, <2>8, <2>9, <2>10 DEF RunTo, ItemsTo
<1> USE DEF OnlyRun, OnlyItems
<1>2. RowsTypeOK'
  BY <1>1 DEF RowsTypeOK
<1>3. \A q \in Run : RunFits(q)'
  BY <1>1 DEF RunFits, AtHand, On
<1>4. \A g \in Request : RequestFits(g)'
  BY <1>1 DEF RequestFits
<1>5. ASSUME NEW c \in Batch, c # b PROVE BatchSame(c)
  BY <1>1, <1>5 DEF BatchSame, Active, On, OfBatch
<1>6. BatchHolds(b)'
  <2>1. /\ \A g \in Request : LaunchOf(g, b)' <=> LaunchOf(g, b)
        /\ \A g \in Request : OfBatch(g, b)' <=> OfBatch(g, b)
        /\ \A q \in Run : Active(q, b)' <=> Active(q, b)
        /\ \A x \in Pull : Waiting(b, x)' => Waiting(b, x)
        /\ \A x \in Pull : item'[b][x] = "reviewing" => item[b][x] = "reviewing"
        /\ \A q \in Run, x \in Pull : On(q, x)' <=> On(q, x)
        /\ \A q \in Run : q # r => run'[q] = run[q]
        /\ \A q \in Run, x \in Pull : q # r => (AtHand(q, x)' <=> AtHand(q, x))
    BY <1>1 DEF Active, Waiting, AtHand, On, LaunchOf, OfBatch
  <2>2. NotYetHolds(b)'
    BY <1>1, <2>1 DEF BatchHolds, NotYetHolds
  <2>3. WaitsHold(b)'
    <3> SUFFICES ASSUME NEW x \in Pull, Waiting(b, x)'
                 PROVE  /\ batch'[b] \notin {"cancelled", "stopped"}
                        /\ \A q \in Run : Active(q, b)' => run'[q].step # "cancelled"
                        /\ \A h \in Request : OfBatch(h, b)' => request'[h].step # "finish"
                        /\ \/ b \in unstored'
                           \/ /\ batch'[b] # "done"
                              /\ \A q \in Run : Active(q, b)' => run'[q].step = "list" \/ AtHand(q, x)' \/ On(q, x)'
      BY DEF WaitsHold
    <3>1. Waiting(b, x) /\ (b \in unstored' \/ ~AtHand(r, x))
      BY <1>1, <2>1 DEF Waiting
    <3> QED BY <1>1, <2>1, <3>1 DEF BatchHolds, WaitsHold
  <2>4. RunningHolds(b)' /\ ReviewingHolds(b)'
    BY <1>1, <2>1 DEF BatchHolds, RunningHolds, ReviewingHolds
  <2>5. Settled(b) => Settled(b)'
    BY <1>1, <2>1, SettledStays
  <2>6. InReach(b) => InReach(b)'
    <3>1. InReach(b) => batch'[b] \in {"planned", "running"}
      BY <1>1 DEF InReach
    <3> QED BY <1>1, <2>1, <3>1, InReachStays
  <2>7. CancelHolds(b)'
    BY <1>1, <2>1, <2>5, <2>6, RacedStays DEF BatchHolds, CancelHolds
  <2> QED BY <2>2, <2>3, <2>4, <2>7 DEF BatchHolds
<1> QED BY <1>1, <1>2, <1>3, <1>4, <1>5, <1>6, RowsFrom

LEMMA ExecuteStopStep ==
    ASSUME RowsInv, NEW r \in Run, ExecuteStop(r)
    PROVE  RowsInv'
<1> USE DEF RowsInv
<1>b. PICK b \in Batch : b = run[r].batch
  BY DEF RunFits, ExecuteStop
<1>a. Active(r, b) /\ run[r].step = "next" /\ (run[r].todo = {} \/ run[r].cancelled) /\ \A p \in Pull : ~On(r, p)
  BY <1>b DEF Active, ExecuteStop, Working, On
<1>c. CASE RunEnds(r) /\ Unstored(b) /\ UNCHANGED item
  BY <1>a, <1>c, RunEndsStep DEF ExecuteStop, Unstored
<1>d. CASE /\ item' = IF run[r].cancelled THEN [item EXCEPT ![b] = Stopped(@)] ELSE item
           /\ GoRun(r, [NoRun EXCEPT !.step = IF run[r].cancelled THEN "cancelled" ELSE "done", !.batch = b])
           /\ UNCHANGED <<live, events, unstored>>
  <2>1. /\ run' \in [Run -> RunRow] /\ OnlyRun(r)
        /\ run'[r].step = IF run[r].cancelled THEN "cancelled" ELSE "done"
        /\ run'[r].batch = b /\ run'[r].todo = {}
        /\ item' \in [Batch -> [Pull -> ItemState]] /\ OnlyItems(b)
        /\ run[r].cancelled => \A x \in Pull : item'[b][x] \notin Unfinished
        /\ ~run[r].cancelled => item' = item
        /\ UNCHANGED <<batch, live, worker, request, raced, unstored, cancelled, late>>
    <3> DEFINE new == [NoRun EXCEPT !.step = IF run[r].cancelled THEN "cancelled" ELSE "done", !.batch = b]
    <3>1. /\ new \in RunRow
          /\ new.step = IF run[r].cancelled THEN "cancelled" ELSE "done"
          /\ new.batch = b /\ new.todo = {}
      BY DEF RunRow, RunStep, NoRun
    <3>2. run' = [run EXCEPT ![r] = new]
      BY <1>d DEF GoRun
    <3> HIDE DEF new
    <3>3. RunTo(r, new)
      BY <3>1, <3>2, RunToRow
    <3>4. CASE run[r].cancelled
      <4>1. ItemsTo(b, Stopped(item[b]))
        BY <1>d, <3>4, StoppedIs, ItemsToState
      <4> QED BY <1>d, <3>1, <3>3, <3>4, <4>1, StoppedIs DEF ExecuteStop, RunTo, ItemsTo
    <3>5. CASE ~run[r].cancelled
      <4>1. item' = item /\ item' \in [Batch -> [Pull -> ItemState]] /\ OnlyItems(b)
        BY <1>d, <3>5 DEF RowsTypeOK, OnlyItems
      <4> QED BY <1>d, <3>1, <3>3, <3>5, <4>1 DEF ExecuteStop, RunTo
    <3> QED BY <3>4, <3>5
  <2> USE DEF OnlyRun, OnlyItems
  <2>2. RowsTypeOK'
    BY <2>1 DEF RowsTypeOK
  <2>3. \A q \in Run : RunFits(q)'
    BY <1>a, <2>1 DEF RunFits, AtHand, On
  <2>4. \A g \in Request : RequestFits(g)'
    BY <2>1 DEF RequestFits
  <2>5. ASSUME NEW c \in Batch, c # b PROVE BatchSame(c)
    BY <1>a, <2>1, <2>5 DEF BatchSame, Active, On, OfBatch
  <2>6. BatchHolds(b)'
    <3>1. /\ \A g \in Request : LaunchOf(g, b)' <=> LaunchOf(g, b)
          /\ \A g \in Request : OfBatch(g, b)' <=> OfBatch(g, b)
          /\ \A q \in Run : Active(q, b)' <=> Active(q, b)
          /\ \A x \in Pull : Waiting(b, x)' => Waiting(b, x) /\ ~run[r].cancelled
          /\ \A x \in Pull : item'[b][x] = "reviewing" => item[b][x] = "reviewing"
          /\ \A q \in Run, x \in Pull : On(q, x)' <=> On(q, x)
          /\ \A q \in Run : q # r => run'[q] = run[q]
          /\ \A q \in Run, x \in Pull : q # r => (AtHand(q, x)' <=> AtHand(q, x))
      BY <1>a, <2>1 DEF Active, Waiting, On, AtHand, LaunchOf, OfBatch, Unfinished
    <3>2. NotYetHolds(b)'
      BY <1>a, <2>1, <3>1 DEF BatchHolds, NotYetHolds
    <3>3. \A x \in Pull : Waiting(b, x)' => b \in unstored
      <4>1. \A x \in Pull : ~run[r].cancelled => ~AtHand(r, x)
        BY <1>a DEF AtHand
      <4> QED BY <1>a, <3>1, <4>1 DEF BatchHolds, WaitsHold
    <3>4. WaitsHold(b)'
      BY <2>1, <3>1, <3>3 DEF BatchHolds, WaitsHold
    <3>5. RunningHolds(b)' /\ ReviewingHolds(b)'
      BY <2>1, <3>1 DEF BatchHolds, RunningHolds, ReviewingHolds
    <3>6. Settled(b) => Settled(b)'
      BY <2>1, <3>1 DEF Settled
    <3>7. InReach(b) => Settled(b)'
      <4> SUFFICES ASSUME InReach(b) PROVE Settled(b)'
        OBVIOUS
      <4>1. \A q \in Run : Active(q, b)' => q = r
        BY <1>a, <3>1 DEF InReach
      <4>2. \A g \in Request : ~LaunchOf(g, b)'
        BY <1>a, <3>1, Constants DEF InReach
      <4>3. batch'[b] = "running"
        BY <1>a, <2>1 DEF InReach, BatchHolds, NotYetHolds
      <4> QED BY <2>1, <4>1, <4>2, <4>3 DEF Settled
    <3>8. CancelHolds(b)'
      BY <2>1, <3>1, <3>6, <3>7, RacedStays DEF BatchHolds, CancelHolds
    <3> QED BY <3>2, <3>4, <3>5, <3>8 DEF BatchHolds
  <2> QED BY <2>1, <2>2, <2>3, <2>4, <2>5, <2>6, RowsFrom
<1> QED BY <1>b, <1>c, <1>d DEF ExecuteStop

LEMMA ExecuteFinishStep ==
    ASSUME RowsInv, NEW r \in Run, ExecuteFinish(r)
    PROVE  RowsInv'
<1> USE DEF RowsInv
<1>b. PICK b \in Batch : b = run[r].batch
  BY DEF RunFits, ExecuteFinish
<1>a. Active(r, b) /\ run[r].step \in {"done", "cancelled"} /\ \A p \in Pull : ~On(r, p)
  BY <1>b DEF Active, ExecuteFinish, RunFits
<1>1. CASE SetStatus(b, run[r].step) /\ UNCHANGED unstored
  <2>1. BatchTo(b, run[r].step)
    BY <1>a, <1>1, StatusTo DEF Status, Ended
  <2> QED BY <1>a, <1>1, <2>1, RunEndsStep DEF ExecuteFinish
<1>2. CASE Unstored(b) /\ UNCHANGED batch
  BY <1>a, <1>2, RunEndsStep DEF ExecuteFinish, Unstored
<1> QED BY <1>b, <1>1, <1>2 DEF ExecuteFinish

LEMMA CreateStep ==
    ASSUME RowsInv, NEW b \in Batch, Create(b)
    PROVE  RowsInv'
<1> USE DEF RowsInv
<1> DEFINE planned == [p \in Pull |-> IF p \in Planned[b] THEN "waiting" ELSE "left"]
<1>1. /\ batch[b] = "none" /\ BatchTo(b, batch'[b]) /\ batch'[b] \in {"planned", "running"}
      /\ item' \in [Batch -> [Pull -> ItemState]] /\ OnlyItems(b)
      /\ \A x \in Pull : item'[b][x] # "reviewing"
      /\ \/ b \in unstored' /\ UNCHANGED <<live, run>>
         \/ batch'[b] = "planned" /\ UNCHANGED <<live, run>>
         \/ batch'[b] = "running" /\ \E r \in Run : Launched(r, b)
      /\ unstored \subseteq unstored'
      /\ run' \in [Run -> RunRow] /\ live' \in [Batch -> 0 .. MaxRuns]
      /\ UNCHANGED <<worker, request, raced, cancelled, late>>
  <2>1. PICK status \in {"planned", "running"} :
          BatchTo(b, status) /\ status = IF b \in Started THEN "running" ELSE "planned"
    BY StatusTo DEF Create, Status
  <2>2. CASE /\ item' = [item EXCEPT ![b] = planned]
             /\ IF b \in Started THEN Launch(b) ELSE UNCHANGED <<live, run>>
             /\ UNCHANGED <<events, unstored>>
    <3>1. planned \in [Pull -> ItemState] /\ \A x \in Pull : planned[x] # "reviewing"
      BY DEF ItemState, Final, Unfinished
    <3> HIDE DEF planned
    <3>2. ItemsTo(b, planned)
      BY <2>2, <3>1, ItemsToState
    <3>3. CASE b \in Started
      <4>1. \E r \in Run : Launched(r, b)
        BY <2>2, <3>3, LaunchEffect
      <4> QED BY <2>1, <2>2, <3>1, <3>2, <3>3, <4>1 DEF Create, BatchTo, ItemsTo, Launched, LiveTo
    <3>4. CASE b \notin Started
      BY <2>1, <2>2, <3>1, <3>2, <3>4 DEF Create, BatchTo, ItemsTo, RowsTypeOK
    <3> QED BY <3>3, <3>4
  <2>3. CASE /\ \E inserted \in SUBSET Pull \ {Pull} :
                  item' = [item EXCEPT ![b] = [p \in Pull |-> IF p \in inserted THEN planned[p] ELSE "none"]]
             /\ Unstored(b)
             /\ UNCHANGED <<live, run>>
    <3>1. PICK inserted \in SUBSET Pull :
            item' = [item EXCEPT ![b] = [p \in Pull |-> IF p \in inserted THEN planned[p] ELSE "none"]]
      BY <2>3
    <3> DEFINE items == [p \in Pull |-> IF p \in inserted THEN planned[p] ELSE "none"]
    <3>2. items \in [Pull -> ItemState] /\ \A x \in Pull : items[x] # "reviewing"
      BY DEF ItemState, Final, Unfinished
    <3>3. item' = [item EXCEPT ![b] = items]
      BY <3>1
    <3> HIDE DEF items
    <3>4. ItemsTo(b, items)
      BY <3>2, <3>3, ItemsToState
    <3> QED BY <2>1, <2>3, <3>2, <3>4 DEF Create, BatchTo, ItemsTo, RowsTypeOK, Unstored
  <2> QED BY <2>2, <2>3 DEF Create
<1> HIDE DEF planned
<1>a. /\ \A q \in Run : ~Active(q, b)
      /\ \A g \in Request : ~OfBatch(g, b) /\ ~LaunchOf(g, b)
      /\ live[b] = 0 /\ b \notin cancelled
  BY <1>1 DEF BatchHolds, NotYetHolds, RequestFits, OfBatch, LaunchOf
<1> USE DEF OnlyRun, OnlyItems, BatchTo, OnlyBatch, Launched, LiveTo, OnlyLive
<1>2. RowsTypeOK'
  BY <1>1 DEF RowsTypeOK
<1>3. \A q \in Run : RunFits(q)'
  <2>1. CASE UNCHANGED run
    BY <1>1, <2>1 DEF RunFits, AtHand, On
  <2>2. CASE \E r \in Run : Launched(r, b)
    BY <1>1, <2>2 DEF RunFits, AtHand, On
  <2> QED BY <1>1, <2>1, <2>2
<1>4. \A g \in Request : RequestFits(g)'
  BY <1>1 DEF RequestFits
<1>5. ASSUME NEW c \in Batch, c # b PROVE BatchSame(c)
  <2>1. batch'[c] = batch[c] /\ item'[c] = item[c] /\ live'[c] = live[c]
    BY <1>1, <1>5
  <2>2. /\ \A q \in Run : Active(q, c)' <=> Active(q, c)
        /\ \A q \in Run : Active(q, c) => run'[q] = run[q]
    BY <1>1, <1>5 DEF Active
  <2> QED BY <1>1, <2>1, <2>2 DEF BatchSame, On, OfBatch
<1>6. BatchHolds(b)'
  <2>1. /\ \A g \in Request : ~OfBatch(g, b)' /\ ~LaunchOf(g, b)'
        /\ \A q \in Run : Active(q, b)' => run'[q].step = "list" /\ live'[b] = q /\ run'[q].todo = {}
        /\ (\E q \in Run : Active(q, b)') \/ b \in unstored' \/ batch'[b] = "planned"
        /\ batch'[b] = "planned" => \A q \in Run : ~Active(q, b)'
        /\ batch'[b] = "planned" => live'[b] = 0
        /\ live'[b] # 0 => run'[live'[b]].step \notin {"off", "over"} /\ run'[live'[b]].batch = b
    <3>1. CASE UNCHANGED <<live, run>>
      BY <1>1, <1>a, <3>1 DEF Active, OfBatch, LaunchOf
    <3>2. ASSUME NEW r \in Run, Launched(r, b), batch'[b] = "running"
          PROVE  /\ \A q \in Run : Active(q, b)' => run'[q].step = "list" /\ live'[b] = q /\ run'[q].todo = {}
                 /\ Active(r, b)' /\ live'[b] = r
      BY <1>a, <3>2 DEF Active
    <3>3. ASSUME NEW r \in Run, Launched(r, b), batch'[b] = "running"
          PROVE  run'[live'[b]].step \notin {"off", "over"} /\ run'[live'[b]].batch = b
      BY <3>2, <3>3 DEF Active
    <3> QED BY <1>1, <1>a, <3>1, <3>2, <3>3 DEF OfBatch, LaunchOf
  <2>2. NotYetHolds(b)'
    BY <1>1, <1>a, <2>1 DEF NotYetHolds
  <2>3. WaitsHold(b)'
    BY <1>1, <2>1 DEF WaitsHold
  <2>4. RunningHolds(b)' /\ ReviewingHolds(b)'
    BY <1>1, <2>1 DEF RunningHolds, ReviewingHolds
  <2>5. InReach(b)'
    BY <1>1, <1>a, <2>1 DEF InReach, Active
  <2>6. CancelHolds(b)'
    BY <1>1, <2>1, <2>5, RacedStays DEF BatchHolds, CancelHolds
  <2> QED BY <2>2, <2>3, <2>4, <2>6 DEF BatchHolds
<1> QED BY <1>1, <1>2, <1>3, <1>4, <1>5, <1>6, RowsFrom

LEMMA EndItemStep ==
    ASSUME RowsInv, worker \in [Run -> [Pull -> PostWork]], NEW r \in Run, NEW p \in Pull, EndItem(r, p)
    PROVE  RowsInv'
<1> USE DEF RowsInv
<1>a. On(r, p) /\ run[r].step \in {"next", "start"} /\ ~AtHand(r, p)
  BY DEF EndItem, On, Final, RunFits
<1>b. PICK b \in Batch : b = run[r].batch
  BY <1>a DEF RunFits
<1>1. /\ Active(r, b)
      /\ \A q \in Run, x \in Pull : On(q, x)' <=> On(q, x) /\ ~(q = r /\ x = p)
      /\ item' \in [Batch -> [Pull -> ItemState]] /\ OnlyItems(b)
      /\ \A x \in Pull : item'[b][x] = item[b][x] \/ (x = p /\ item'[b][x] \in Final)
      /\ b \in unstored' \/ item'[b][p] \in Final
      /\ unstored \subseteq unstored'
      /\ UNCHANGED <<batch, live, run, request, raced, cancelled, late>>
  <2>1. \A q \in Run, x \in Pull : On(q, x)' <=> On(q, x) /\ ~(q = r /\ x = p)
    BY DEF EndItem, GoWork, NoWork, On
  <2>2. CASE item' = item /\ Unstored(b)
    BY <1>a, <1>b, <2>1, <2>2 DEF EndItem, Active, OnlyItems, Unstored, RowsTypeOK
  <2>3. CASE item' = [item EXCEPT ![b][p] = worker[r][p].step] /\ UNCHANGED unstored
    <3> DEFINE items == [item[b] EXCEPT ![p] = worker[r][p].step]
    <3>1. items \in [Pull -> ItemState] /\ items[p] \in Final /\ \A x \in Pull : x # p => items[x] = item[b][x]
      BY RowOf DEF ItemState, EndItem
    <3>2. item' = [item EXCEPT ![b] = items]
      BY <2>3 DEF RowsTypeOK
    <3> HIDE DEF items
    <3>3. ItemsTo(b, items)
      BY <3>1, <3>2, ItemsToState
    <3> QED BY <1>a, <1>b, <2>1, <2>3, <3>1, <3>3 DEF EndItem, Active, ItemsTo
  <2> QED BY <1>b, <2>2, <2>3 DEF EndItem
<1>2. RowsTypeOK'
  BY <1>1 DEF RowsTypeOK
<1>3. \A q \in Run : RunFits(q)'
  BY <1>1 DEF RunFits, AtHand
<1>4. \A g \in Request : RequestFits(g)'
  BY <1>1 DEF RequestFits
<1>5. ASSUME NEW c \in Batch, c # b PROVE BatchSame(c)
  BY <1>1, <1>5 DEF BatchSame, Active, OfBatch, OnlyItems
<1>6. BatchHolds(b)'
  <2>1. /\ \A g \in Request : LaunchOf(g, b)' <=> LaunchOf(g, b)
        /\ \A g \in Request : OfBatch(g, b)' <=> OfBatch(g, b)
        /\ \A q \in Run : Active(q, b)' <=> Active(q, b)
        /\ \A x \in Pull : Waiting(b, x)' => Waiting(b, x) /\ (x # p \/ b \in unstored')
        /\ \A x \in Pull : item'[b][x] = "reviewing" => item[b][x] = "reviewing" /\ (x # p \/ b \in unstored')
        /\ \A q \in Run, x \in Pull : AtHand(q, x)' <=> AtHand(q, x)
    BY <1>1 DEF Active, Waiting, AtHand, LaunchOf, OfBatch, Final
  <2>2. NotYetHolds(b)'
    BY <1>1, <2>1 DEF BatchHolds, NotYetHolds
  <2>3. WaitsHold(b)'
    BY <1>1, <2>1 DEF BatchHolds, WaitsHold
  <2>4. RunningHolds(b)' /\ ReviewingHolds(b)'
    BY <1>1, <2>1 DEF BatchHolds, RunningHolds, ReviewingHolds
  <2>5. Settled(b) => Settled(b)'
    BY <1>1, <2>1, SettledStays
  <2>6. InReach(b) => InReach(b)'
    <3>1. InReach(b) => batch'[b] \in {"planned", "running"}
      BY <1>1 DEF InReach
    <3> QED BY <1>1, <2>1, <3>1, InReachStays
  <2>7. CancelHolds(b)'
    BY <1>1, <2>1, <2>5, <2>6, RacedStays DEF BatchHolds, CancelHolds
  <2> QED BY <2>2, <2>3, <2>4, <2>7 DEF BatchHolds
<1> QED BY <1>1, <1>2, <1>3, <1>4, <1>5, <1>6, RowsFrom

LEMMA RestartStep ==
    ASSUME RowsInv, Restart
    PROVE  RowsInv'
<1> USE DEF RowsInv
<1> DEFINE orphan == {b \in Batch : batch[b] \in {"planned", "running"}}
<1>1. /\ \A b \in Batch : batch'[b] = IF b \in orphan THEN "stopped" ELSE batch[b]
      /\ batch' \in [Batch -> Status]
  BY RowOf DEF Restart, Status, Ended
<1>2. item' = [b \in Batch |-> IF b \in orphan THEN Stopped(item[b]) ELSE item[b]]
  BY DEF Restart
<1>3. \A b \in Batch, p \in Pull :
        /\ b \in orphan => item'[b][p] \notin Unfinished
        /\ b \notin orphan => item'[b][p] = item[b][p]
  BY <1>2, StoppedIs
<1>4. item' \in [Batch -> [Pull -> ItemState]]
  BY <1>2, StoppedIs, RowOf
<1>5. live' \in [Batch -> 0 .. MaxRuns] /\ \A b \in Batch : live'[b] = 0
  BY Constants DEF Restart
<1>6. run' \in [Run -> RunRow] /\ \A r \in Run : run'[r].step \in {"off", "over"}
  <2>1. NoRun \in RunRow /\ NoRun.step = "off"
    BY DEF NoRun, RunRow, RunStep
  <2>2. [NoRun EXCEPT !.step = "over"] \in RunRow /\ [NoRun EXCEPT !.step = "over"].step = "over"
    BY DEF NoRun, RunRow, RunStep
  <2> QED BY <2>1, <2>2 DEF Restart, Over
<1>7. request' \in [Request -> RequestRow] /\ \A h \in Request : request'[h].step \in {"idle", "over"}
  <2>0. 0 \in 0 .. MaxRuns
    BY Constants
  <2>1. Free \in RequestRow /\ Free.step = "idle"
    BY <2>0 DEF Free, RequestRow, RequestStep, Status
  <2>2. [Free EXCEPT !.step = "over"] \in RequestRow /\ [Free EXCEPT !.step = "over"].step = "over"
    BY <2>0 DEF Free, RequestRow, RequestStep, Status
  <2>3. \A h \in Request : request[h].step # "off"
    BY RowOf DEF RequestRow, RequestStep
  <2> QED BY <2>1, <2>2, <2>3 DEF Restart, Over
<1>8. \A r \in Run, p \in Pull : ~On(r, p)'
  BY DEF Restart, NoWork, On
<1>9. /\ raced \subseteq raced'
      /\ \A b \in Batch \ orphan : (\E r \in Run : run[r].batch = b) => <<"stopped", b>> \in raced'
      /\ \A b \in Batch \ orphan : b \in unstored => b \in unstored'
      /\ UNCHANGED <<cancelled, late>>
  BY DEF Restart
<1>10. \A b \in Batch, r \in Run : ~Active(r, b)'
  BY <1>6 DEF Active
<1>11. \A b \in Batch, h \in Request : ~LaunchOf(h, b)' /\ ~OfBatch(h, b)'
  BY <1>7 DEF LaunchOf, OfBatch
<1>12. \A b \in Batch : b \in orphan <=> batch[b] \in {"planned", "running"}
  OBVIOUS
<1> HIDE DEF orphan
<1>a. RowsTypeOK'
  BY <1>1, <1>4, <1>5, <1>6, <1>7 DEF RowsTypeOK
<1>b. (\A r \in Run : RunFits(r)') /\ \A h \in Request : RequestFits(h)'
  BY <1>6, <1>7, <1>8 DEF RunFits, RequestFits
<1>c. ASSUME NEW b \in Batch PROVE BatchHolds(b)'
  <2>1. batch'[b] \notin {"planned", "running"} /\ (batch'[b] = "none" => batch[b] = "none" /\ b \notin orphan)
    BY <1>1, <1>12
  <2>2. NotYetHolds(b)'
    BY <1>3, <1>5, <1>9, <1>10, <1>11, <2>1 DEF BatchHolds, NotYetHolds
  <2>3. ASSUME NEW p \in Pull, Waiting(b, p)'
        PROVE  batch'[b] = "done" /\ b \in unstored'
    <3>1. b \notin orphan /\ Waiting(b, p)
      BY <1>3, <2>3 DEF Waiting, Unfinished
    <3>2. batch[b] \in Status /\ batch[b] \notin {"none", "planned", "running", "cancelled", "stopped"}
      BY <1>12, <3>1, RowOf DEF BatchHolds, NotYetHolds, WaitsHold, Waiting
    <3>3. batch[b] = "done"
      BY <3>2 DEF Status, Ended
    <3>4. b \in unstored
      BY <3>1, <3>3 DEF BatchHolds, WaitsHold
    <3> QED BY <1>1, <1>9, <3>1, <3>3, <3>4
  <2>4. WaitsHold(b)'
    BY <1>10, <1>11, <2>3 DEF WaitsHold
  <2>5. RunningHolds(b)'
    BY <2>1 DEF RunningHolds
  <2>6. ASSUME NEW p \in Pull, item'[b][p] = "reviewing"
        PROVE  <<"stopped", b>> \in raced' \/ b \in unstored'
    <3>1. b \notin orphan /\ item[b][p] = "reviewing"
      BY <1>3, <2>6 DEF Unfinished
    <3>2. <<"stopped", b>> \in raced \/ b \in unstored \/ \E r \in Run : Active(r, b)
      BY <3>1 DEF BatchHolds, ReviewingHolds
    <3> QED BY <1>9, <3>1, <3>2 DEF Active
  <2>7. ReviewingHolds(b)'
    BY <2>6 DEF ReviewingHolds
  <2>8. Settled(b)'
    BY <1>10, <1>11, <2>3 DEF Settled
  <2>9. CancelHolds(b)'
    BY <1>9, <2>8, RacedStays DEF BatchHolds, CancelHolds
  <2> QED BY <2>2, <2>4, <2>5, <2>7, <2>9 DEF BatchHolds
<1> QED BY <1>9, <1>a, <1>b, <1>c

\* A step of a goroutine of a pull request before its last one, and any other step that leaves the
\* rows alone.
LEMMA RowsStay ==
    ASSUME RowsInv, \A r \in Run, p \in Pull : On(r, p)' <=> On(r, p), raced \subseteq raced',
           UNCHANGED <<batch, item, live, run, request, unstored, cancelled, late>>
    PROVE  RowsInv'
<1> USE DEF RowsInv
<1>1. RowsTypeOK'
  BY DEF RowsTypeOK
<1>2. (\A q \in Run : RunFits(q)') /\ \A g \in Request : RequestFits(g)'
  BY DEF RunFits, RequestFits, AtHand
<1>3. ASSUME NEW c \in Batch PROVE BatchSame(c)
  BY DEF BatchSame, Active, OfBatch
<1> QED BY <1>1, <1>2, <1>3, BatchFrame

PostRaced(p) == <<"together", p>> \in raced \/ <<"unmarked", p>> \in raced

\* The ids of a pull request grow, and a step keeps what it needs until it ends.
IdsGrow(p) ==
    /\ pending[p].review <= ids[p]
    /\ pending[p].review = 0 => pending[p].comments = {}
    /\ \A r \in Run : worker[r][p].step \in {"delete", "add"} => worker[r][p].review \in 1 .. ids[p]
    /\ \A r \in Run : worker[r][p].kept # {} => worker[r][p].step \in {"add", "keep"}

MarkOf(c) == [id |-> c.id, key |-> c.key]

\* The goroutine will write the mark of the comment.
MarkComes(r, p, c) ==
    \/ worker[r][p].step = "mark" /\ c.key \in worker[r][p].found
    \/ MarkOf(c) \in worker[r][p].kept

\* One post at a time, one comment of a finding, each with its mark there or to come, and no
\* comment of what the post is yet to add.
Tidy(p) ==
    /\ \A q, r \in Posting(p) : q = r
    /\ \A c, d \in pending[p].comments : c.key = d.key => c = d
    /\ \A c \in pending[p].comments :
         ~c.plain \/ MarkOf(c) \in marks[p] \/ \E r \in Run : MarkComes(r, p, c)
    /\ \A r \in Run : worker[r][p].step \in {"delete", "add"} /\ pending[p].review = worker[r][p].review =>
         \A c \in pending[p].comments : c.key \notin worker[r][p].add

PostHolds(p) == IdsGrow(p) /\ (PostRaced(p) \/ Tidy(p))

PostInv == \A p \in Pull : PostHolds(p)

\* The comments of a new review have an id each.
LEMMA Numbered ==
    ASSUME NEW found \in SUBSET Finding,
           NEW nth, nth = CHOOSE f \in [found -> 1 .. Cardinality(found)] : \A j, k \in found : f[j] = f[k] => j = k
    PROVE  nth \in [found -> 1 .. Cardinality(found)] /\ \A k \in found : nth[k] \in Nat
<1>1. IsFiniteSet(found)
  BY FindingAssumption, FS_Subset
<1>2. Cardinality(found) \in Nat /\ ExistsBijection(1 .. Cardinality(found), found)
  BY <1>1, FS_CardinalityType
<1>3. PICK g \in Bijection(1 .. Cardinality(found), found) : TRUE
  BY <1>2 DEF ExistsBijection
<1>4. \A k \in found : \E i \in 1 .. Cardinality(found) : g[i] = k
  BY <1>3 DEF Bijection, Surjection
<1> DEFINE f == [k \in found |-> CHOOSE i \in 1 .. Cardinality(found) : g[i] = k]
<1>5. \A k \in found : f[k] \in 1 .. Cardinality(found) /\ g[f[k]] = k
  BY <1>4
<1>6. f \in [found -> 1 .. Cardinality(found)] /\ \A j, k \in found : f[j] = f[k] => j = k
  BY <1>5
<1>7. nth \in [found -> 1 .. Cardinality(found)]
  BY <1>6
<1> HIDE DEF f
<1>8. ASSUME NEW F \in [found -> 1 .. Cardinality(found)], NEW k \in found
      PROVE  F[k] \in Nat
  <2>1. F[k] \in 1 .. Cardinality(found)
    OBVIOUS
  <2> QED BY <2>1, <1>2
<1> QED BY <1>7, <1>8

\* What a step of a goroutine of a pull request before its last one does to the rows.
ReviewEffect(r, p) ==
    /\ worker[r][p].step # "off"
    /\ \E next \in PostWork : next.step # "off" /\ worker' = [worker EXCEPT ![r][p] = next]
    /\ raced \subseteq raced'
    /\ UNCHANGED <<batch, item, live, run, request, unstored, cancelled, late>>

LEMMA EndedWork ==
    ASSUME NEW state \in Final
    PROVE  LET ended == [NoWork EXCEPT !.step = state] IN
           /\ ended \in PostWork /\ ended.step = state /\ ended.kept = {}
           /\ state # "off" /\ state \notin PostStep
BY DEF NoWork, PostWork, PostStep, Final

\* The comments that a delete leaves out, and the marks it leaves out with them.
LEMMA DeleteIs ==
    ASSUME PostTypeOK, NEW r \in Run, NEW p \in Pull, PostDelete(r, p)
    PROVE  /\ worker[r][p].step = "delete"
           /\ \E gone, unmarked :
                /\ unmarked \subseteq gone
                /\ pending' = [pending EXCEPT ![p].comments = {c \in @ : c.id \notin gone}]
                /\ marks' = [marks EXCEPT ![p] = {m \in @ : m.id \notin unmarked}]
           /\ GoWork(r, p, [worker[r][p] EXCEPT !.step = "add", !.stale = {}]) \/ EndWork(r, p, "left")
           /\ UNCHANGED <<ids, batch, item, live, run, request, raced, unstored, cancelled, late>>
<1> DEFINE w == worker[r][p]
           there == w.stale \cap {c.id : c \in pending[p].comments}
           Delete(gone, unmarked) ==
             /\ pending' = [pending EXCEPT ![p].comments = {c \in @ : c.id \notin gone}]
             /\ marks' = [marks EXCEPT ![p] = {m \in @ : m.id \notin unmarked}]
<1>1. w.step = "delete" /\ UNCHANGED <<ids, batch, item, live, run, request, raced, unstored, cancelled, late>>
  BY DEF PostDelete, rows, history
<1>2. \/ Delete(there, there) /\ GoWork(r, p, [w EXCEPT !.step = "add", !.stale = {}])
      \/ (\E gone \in SUBSET there : Delete(gone, gone)) /\ EndWork(r, p, "left")
      \/ (\E gone \in SUBSET there : \E last \in SUBSET gone : Delete(gone, gone \ last)) /\ EndWork(r, p, "left")
  BY DEF PostDelete
<1>3. /\ \E gone, unmarked : unmarked \subseteq gone /\ Delete(gone, unmarked)
      /\ GoWork(r, p, [w EXCEPT !.step = "add", !.stale = {}]) \/ EndWork(r, p, "left")
  <2> HIDE DEF there, Delete
  <2>1. ASSUME NEW gone, NEW last PROVE gone \ last \subseteq gone
    OBVIOUS
  <2> QED BY <1>2, <2>1
<1> QED BY <1>1, <1>3

LEMMA ReviewTypes ==
    ASSUME PostTypeOK, NEW r \in Run, NEW p \in Pull,
           \/ ReviewEnds(r, p) \/ RecordFails(r, p)
           \/ PostRead(r, p) \/ PostCreate(r, p) \/ PostMark(r, p) \/ PostDelete(r, p)
           \/ PostAdd(r, p) \/ PostKeep(r, p) \/ MarkFails(r, p) \/ PostTrouble(r, p)
    PROVE  PostTypeOK' /\ ReviewEffect(r, p)
<1> DEFINE w == worker[r][p]
<1>a. /\ w \in PostWork /\ NoWork \in PostWork
      /\ pending[p] \in [review : Nat, comments : SUBSET Comment] /\ pending[p].comments \in SUBSET Comment
      /\ ids[p] \in Nat /\ marks[p] \in SUBSET Mark
      /\ Plain(r) \in BOOLEAN
  BY DEF PostTypeOK, PostWork, NoWork, Plain
<1>b. ASSUME NEW next \in PostWork, GoWork(r, p, next)
      PROVE  worker' \in [Run -> [Pull -> PostWork]] /\ worker' = [worker EXCEPT ![r][p] = next]
  BY <1>b DEF PostTypeOK, GoWork
<1>c. ASSUME NEW state \in Final, EndWork(r, p, state)
      PROVE  /\ worker' \in [Run -> [Pull -> PostWork]]
             /\ \E next \in PostWork : next.step # "off" /\ worker' = [worker EXCEPT ![r][p] = next]
  <2>1. [NoWork EXCEPT !.step = state] \in PostWork /\ [NoWork EXCEPT !.step = state].step # "off"
    BY EndedWork
  <2> QED BY <1>b, <1>c, <2>1 DEF EndWork
<1>d. ASSUME NewReview(r, p), w.found \in SUBSET Finding
      PROVE  pending' \in [Pull -> [review : Nat, comments : SUBSET Comment]] /\ ids' \in [Pull -> Nat]
  <2> DEFINE found == w.found
             nth == CHOOSE f \in [found -> 1 .. Cardinality(found)] : \A j, k \in found : f[j] = f[k] => j = k
  <2>1. \A k \in found : nth[k] \in Nat
    BY <1>d, Numbered
  <2>2. Cardinality(found) \in Nat
    BY <1>d, FindingAssumption, FS_Subset, FS_CardinalityType
  <2>3. /\ pending' = [pending EXCEPT ![p] = [review |-> ids[p] + 1, comments |->
                     {[id |-> ids[p] + 1 + nth[k], key |-> k, plain |-> Plain(r)] : k \in found}]]
        /\ ids' = [ids EXCEPT ![p] = @ + 1 + Cardinality(found)]
    BY <1>d DEF NewReview
  <2> HIDE DEF nth
  <2>4. {[id |-> ids[p] + 1 + nth[k], key |-> k, plain |-> Plain(r)] : k \in found} \in SUBSET Comment
    BY <2>1, <1>a, <1>d DEF Comment
  <2> QED BY <2>2, <2>3, <2>4, <1>a DEF PostTypeOK
<1>e. ASSUME NEW key \in Finding, AddComment(r, p, key)
      PROVE  pending' \in [Pull -> [review : Nat, comments : SUBSET Comment]] /\ ids' \in [Pull -> Nat]
  <2>1. [id |-> ids[p] + 1, key |-> key, plain |-> Plain(r)] \in Comment
    BY <1>a DEF Comment
  <2> QED BY <2>1, <1>a, <1>e DEF PostTypeOK, AddComment
<1>s. "left" \in Final /\ "posted" \in Final
  BY DEF Final
<1>1. CASE ReviewEnds(r, p) \/ RecordFails(r, p)
  <2>1. /\ EndWork(r, p, "left") /\ w.step # "off"
        /\ UNCHANGED <<pending, ids, marks, raced>>
        /\ UNCHANGED <<batch, item, live, run, request, unstored, cancelled, late>>
    BY <1>1 DEF ReviewEnds, RecordFails, github, rows, history
  <2>2. /\ worker' \in [Run -> [Pull -> PostWork]]
        /\ \E next \in PostWork : next.step # "off" /\ worker' = [worker EXCEPT ![r][p] = next]
    BY <2>1, <1>c, <1>s
  <2> QED BY <2>1, <2>2 DEF ReviewEffect, PostTypeOK
<1>2. CASE PostRead(r, p)
  <2>1. PICK found \in SUBSET Findings[p] : \E gone \in {{}, Findings[p] \ found} :
         LET stale == {c.id : c \in {n \in Named(p) : n.key \in gone}} IN
         IF pending[p].review = 0
           THEN /\ marks' = [marks EXCEPT ![p] = {}]
                /\ GoWork(r, p, [NoWork EXCEPT !.step = "create", !.found = found])
           ELSE /\ GoWork(r, p, [NoWork EXCEPT !.step = IF stale = {} THEN "add" ELSE "delete",
                                   !.review = pending[p].review, !.stale = stale,
                                   !.add = found \ {c.key : c \in Named(p)}])
                /\ UNCHANGED marks
    BY <1>2 DEF PostRead
  <2>2. PICK gone \in {{}, Findings[p] \ found} :
         LET stale == {c.id : c \in {n \in Named(p) : n.key \in gone}} IN
         IF pending[p].review = 0
           THEN /\ marks' = [marks EXCEPT ![p] = {}]
                /\ GoWork(r, p, [NoWork EXCEPT !.step = "create", !.found = found])
           ELSE /\ GoWork(r, p, [NoWork EXCEPT !.step = IF stale = {} THEN "add" ELSE "delete",
                                   !.review = pending[p].review, !.stale = stale,
                                   !.add = found \ {c.key : c \in Named(p)}])
                /\ UNCHANGED marks
    BY <2>1
  <2> DEFINE stale == {c.id : c \in {n \in Named(p) : n.key \in gone}}
  <2>3. stale \in SUBSET Nat
    <3>1. \A c \in Named(p) : c.id \in Nat
      BY <1>a DEF Named, Comment
    <3> QED BY <3>1
  <2> DEFINE new == IF pending[p].review = 0
                      THEN [NoWork EXCEPT !.step = "create", !.found = found]
                      ELSE [NoWork EXCEPT !.step = IF stale = {} THEN "add" ELSE "delete",
                                   !.review = pending[p].review, !.stale = stale,
                                   !.add = found \ {c.key : c \in Named(p)}]
  <2>4. new \in PostWork /\ new.step # "off"
    <3> HIDE DEF stale
    <3>1. found \in SUBSET Finding
      BY FindingAssumption
    <3> QED BY <2>3, <3>1, <1>a DEF PostWork, PostStep, NoWork
  <2>5. GoWork(r, p, new) /\ (marks' = marks \/ marks' = [marks EXCEPT ![p] = {}])
    BY <2>2
  <2> HIDE DEF new
  <2>6. worker' \in [Run -> [Pull -> PostWork]] /\ worker' = [worker EXCEPT ![r][p] = new]
    BY <2>4, <2>5, <1>b
  <2>7. /\ w.step # "off" /\ raced \subseteq raced'
        /\ UNCHANGED <<pending, ids, batch, item, live, run, request, unstored, cancelled, late>>
    BY <1>2 DEF PostRead, github, rows
  <2>8. marks' \in [Pull -> SUBSET Mark]
    BY <2>5 DEF PostTypeOK
  <2> QED BY <2>4, <2>6, <2>7, <2>8 DEF ReviewEffect, PostTypeOK
<1>3. CASE PostCreate(r, p)
  <2>1. w.step = "create" /\ w.found \in SUBSET Finding /\ [w EXCEPT !.step = "mark"] \in PostWork
    BY <1>3, <1>a DEF PostCreate, PostWork, PostStep
  <2>2. UNCHANGED <<marks, batch, item, live, run, request, raced, unstored, cancelled, late>>
    BY <1>3 DEF PostCreate, rows, history
  <2>3. pending' \in [Pull -> [review : Nat, comments : SUBSET Comment]] /\ ids' \in [Pull -> Nat]
    BY <1>3, <2>1, <1>d DEF PostCreate, github, PostTypeOK
  <2>4. CASE GoWork(r, p, [w EXCEPT !.step = "mark"])
    <3>1. worker' \in [Run -> [Pull -> PostWork]] /\ worker' = [worker EXCEPT ![r][p] = [w EXCEPT !.step = "mark"]]
      BY <2>1, <2>4, <1>b
    <3>2. [w EXCEPT !.step = "mark"].step = "mark"
      BY <1>a DEF PostWork
    <3> QED BY <3>1, <3>2, <2>1, <2>2, <2>3, <2>4 DEF ReviewEffect, PostTypeOK
  <2>5. ASSUME NEW state \in Final, EndWork(r, p, state)
        PROVE  PostTypeOK' /\ ReviewEffect(r, p)
    BY <2>1, <2>2, <2>3, <2>5, <1>c DEF ReviewEffect, PostTypeOK
  <2> QED BY <1>3, <1>s, <2>4, <2>5 DEF PostCreate
<1>m. New(r, p) \in SUBSET Mark
  BY <1>a DEF New, MarksOf, Comment, Mark
<1>4. CASE PostMark(r, p)
  <2>1. /\ w.step = "mark" /\ EndWork(r, p, "posted") /\ marks' \in [Pull -> SUBSET Mark]
        /\ UNCHANGED <<pending, ids, raced>>
        /\ UNCHANGED <<batch, item, live, run, request, unstored, cancelled, late>>
    BY <1>4, <1>a, <1>m DEF PostMark, PostTypeOK, github, rows, history
  <2>2. /\ worker' \in [Run -> [Pull -> PostWork]]
        /\ \E next \in PostWork : next.step # "off" /\ worker' = [worker EXCEPT ![r][p] = next]
    BY <2>1, <1>c, <1>s
  <2> QED BY <2>1, <2>2 DEF ReviewEffect, PostTypeOK
<1>5. CASE PostDelete(r, p)
  <2>1. PICK gone, unmarked :
          /\ unmarked \subseteq gone
          /\ pending' = [pending EXCEPT ![p].comments = {c \in @ : c.id \notin gone}]
          /\ marks' = [marks EXCEPT ![p] = {m \in @ : m.id \notin unmarked}]
    BY <1>5, DeleteIs
  <2>2. /\ w.step = "delete"
        /\ GoWork(r, p, [w EXCEPT !.step = "add", !.stale = {}]) \/ EndWork(r, p, "left")
        /\ UNCHANGED <<ids, raced>>
        /\ UNCHANGED <<batch, item, live, run, request, unstored, cancelled, late>>
    BY <1>5, DeleteIs
  <2>3. pending' \in [Pull -> [review : Nat, comments : SUBSET Comment]] /\ marks' \in [Pull -> SUBSET Mark]
    BY <2>1, <1>a DEF PostTypeOK
  <2>4. /\ worker' \in [Run -> [Pull -> PostWork]]
        /\ \E next \in PostWork : next.step # "off" /\ worker' = [worker EXCEPT ![r][p] = next]
    <3>1. [w EXCEPT !.step = "add", !.stale = {}] \in PostWork /\ [w EXCEPT !.step = "add", !.stale = {}].step # "off"
      BY <1>a DEF PostWork, PostStep
    <3> QED BY <3>1, <2>2, <1>b, <1>c, <1>s
  <2> QED BY <2>2, <2>3, <2>4 DEF ReviewEffect, PostTypeOK
<1>6. CASE PostAdd(r, p)
  <2>1. PICK key \in w.add :
         /\ AddComment(r, p, key)
         /\ GoWork(r, p, [w EXCEPT !.add = @ \ {key}, !.kept =
                IF Plain(r) THEN @ \cup {[id |-> ids[p] + 1, key |-> key]} ELSE @])
    BY <1>6 DEF PostAdd
  <2> DEFINE new == [w EXCEPT !.add = @ \ {key}, !.kept =
                IF Plain(r) THEN @ \cup {[id |-> ids[p] + 1, key |-> key]} ELSE @]
  <2>2. key \in Finding /\ new \in PostWork /\ new.step = "add"
    <3>1. w.step = "add" /\ key \in Finding
      BY <1>6, <1>a DEF PostAdd, PostWork
    <3>2. [id |-> ids[p] + 1, key |-> key] \in Mark
      BY <3>1, <1>a DEF Mark
    <3>3. (IF Plain(r) THEN w.kept \cup {[id |-> ids[p] + 1, key |-> key]} ELSE w.kept) \in SUBSET Mark
      BY <3>2, <1>a DEF PostWork
    <3>4. new = [w EXCEPT !.add = w.add \ {key}, !.kept =
                IF Plain(r) THEN w.kept \cup {[id |-> ids[p] + 1, key |-> key]} ELSE w.kept]
      BY <1>a DEF PostWork
    <3> QED BY <3>1, <3>3, <3>4, <1>a DEF PostWork, PostStep
  <2>3. worker' \in [Run -> [Pull -> PostWork]] /\ worker' = [worker EXCEPT ![r][p] = new]
    BY <2>1, <2>2, <1>b
  <2>4. pending' \in [Pull -> [review : Nat, comments : SUBSET Comment]] /\ ids' \in [Pull -> Nat]
    BY <2>1, <2>2, <1>e
  <2> HIDE DEF new
  <2> QED BY <2>2, <2>3, <2>4, <1>6 DEF PostAdd, ReviewEffect, PostTypeOK, rows, history
<1>7. CASE PostKeep(r, p)
  <2>1. PICK state \in Final : EndWork(r, p, state)
    BY <1>7, <1>s DEF PostKeep
  <2>2. /\ w.step # "off" /\ marks' \in [Pull -> SUBSET Mark] /\ UNCHANGED <<pending, ids, raced>>
        /\ UNCHANGED <<batch, item, live, run, request, unstored, cancelled, late>>
    BY <1>7, <1>a DEF PostKeep, Keeps, PostTypeOK, PostWork, github, rows, history
  <2>3. /\ worker' \in [Run -> [Pull -> PostWork]]
        /\ \E next \in PostWork : next.step # "off" /\ worker' = [worker EXCEPT ![r][p] = next]
    BY <2>1, <1>c
  <2> QED BY <2>2, <2>3 DEF ReviewEffect, PostTypeOK
<1>8. CASE MarkFails(r, p)
  <2>1. PICK some \in SUBSET IF w.step = "mark" THEN New(r, p) ELSE w.kept : marks' = [marks EXCEPT ![p] = @ \cup some]
    BY <1>8 DEF MarkFails
  <2>2. some \in SUBSET Mark
    BY <1>a, <1>m DEF PostWork
  <2>3. marks' \in [Pull -> SUBSET Mark]
    BY <2>1, <2>2, <1>a DEF PostTypeOK
  <2>4. /\ EndWork(r, p, "left") /\ w.step # "off" /\ UNCHANGED <<pending, ids>> /\ raced \subseteq raced'
        /\ UNCHANGED <<batch, item, live, run, request, unstored, cancelled, late>>
    BY <1>8 DEF MarkFails, Keeps, github, rows
  <2>5. /\ worker' \in [Run -> [Pull -> PostWork]]
        /\ \E next \in PostWork : next.step # "off" /\ worker' = [worker EXCEPT ![r][p] = next]
    BY <2>4, <1>c, <1>s
  <2> QED BY <2>3, <2>4, <2>5 DEF ReviewEffect, PostTypeOK
<1>9. CASE PostTrouble(r, p)
  <2>1. w.step \in {"create", "mark", "add"} /\ [w EXCEPT !.step = "keep"] \in PostWork
         /\ w.found \in SUBSET Finding /\ w.add \in SUBSET Finding /\ [w EXCEPT !.step = "keep"].step = "keep"
    BY <1>9, <1>a DEF PostTrouble, PostWork, PostStep
  <2>2. UNCHANGED <<marks, batch, item, live, run, request, unstored, cancelled, late>> /\ raced \subseteq raced'
    BY <1>9 DEF PostTrouble, rows
  <2>3. pending' \in [Pull -> [review : Nat, comments : SUBSET Comment]] /\ ids' \in [Pull -> Nat]
    BY <1>9, <2>1, <1>d, <1>e DEF PostTrouble, github, PostTypeOK
  <2>4. /\ worker' \in [Run -> [Pull -> PostWork]]
        /\ \E next \in PostWork : next.step # "off" /\ worker' = [worker EXCEPT ![r][p] = next]
    <3>1. CASE GoWork(r, p, [w EXCEPT !.step = "keep"])
      BY <2>1, <3>1, <1>b
    <3>2. CASE EndWork(r, p, "left")
      BY <3>2, <1>c, <1>s
    <3> QED BY <1>9, <3>1, <3>2 DEF PostTrouble
  <2> QED BY <2>1, <2>2, <2>3, <2>4 DEF ReviewEffect, PostTypeOK
<1> QED BY <1>1, <1>2, <1>3, <1>4, <1>5, <1>6, <1>7, <1>8, <1>9
\* Nothing of what the posts of a pull request keep changes.
PostSame(p) ==
    /\ pending'[p] = pending[p] /\ ids'[p] = ids[p] /\ marks'[p] = marks[p]
    /\ \A r \in Run : worker'[r][p] = worker[r][p]
    /\ raced \subseteq raced'

LEMMA PostFrame ==
    ASSUME NEW p \in Pull, PostHolds(p), PostSame(p)
    PROVE  PostHolds(p)'
<1> USE DEF PostSame
<1>1. Posting(p)' = Posting(p)
  BY DEF Posting
<1>2. PostRaced(p) => PostRaced(p)'
  BY DEF PostRaced
<1>3. IdsGrow(p)'
  BY DEF PostHolds, IdsGrow
<1>4. Tidy(p) => Tidy(p)'
  BY <1>1 DEF Tidy, MarkComes, MarkOf
<1> QED BY <1>2, <1>3, <1>4 DEF PostHolds

\* A goroutine of a pull request goes to another step.
WorkTo(r, p, next) ==
    /\ worker'[r][p] = next
    /\ \A q \in Run : q # r => worker'[q][p] = worker[q][p]

LEMMA GoesTo ==
    ASSUME PostTypeOK, NEW r \in Run, NEW p \in Pull, NEW next, GoWork(r, p, next)
    PROVE  WorkTo(r, p, next) /\ \A q \in Run, x \in Pull : x # p => worker'[q][x] = worker[q][x]
BY DEF GoWork, WorkTo, PostTypeOK

LEMMA EndsWith ==
    ASSUME PostTypeOK, NEW r \in Run, NEW p \in Pull, NEW state, EndWork(r, p, state)
    PROVE  WorkTo(r, p, [NoWork EXCEPT !.step = state])
BY GoesTo DEF EndWork

LEMMA WorkOf ==
    ASSUME PostTypeOK, NEW p \in Pull
    PROVE  /\ \A r \in Run : worker[r][p] \in PostWork
           /\ pending[p].review \in Nat /\ pending[p].comments \in SUBSET Comment
           /\ ids[p] \in Nat /\ marks[p] \in SUBSET Mark
BY DEF PostTypeOK

LEMMA NoWorkIs == NoWork.step = "off" /\ NoWork.kept = {}
BY DEF NoWork

\* The step of a goroutine leaves the other pull requests alone.
LEMMA Elsewhere ==
    ASSUME PostTypeOK, NEW r \in Run, NEW p \in Pull, NEW x \in Pull, x # p,
           \/ PostRead(r, p) \/ PostCreate(r, p) \/ PostMark(r, p) \/ PostDelete(r, p)
           \/ PostAdd(r, p) \/ PostKeep(r, p) \/ MarkFails(r, p) \/ PostTrouble(r, p)
    PROVE  PostSame(x)
<1>1. ReviewEffect(r, p)
  BY ReviewTypes
<1>2. (\A q \in Run : worker'[q][x] = worker[q][x]) /\ raced \subseteq raced'
  BY <1>1 DEF ReviewEffect, PostTypeOK
<1>3. CASE PostDelete(r, p)
  <2>1. PICK gone, unmarked :
          /\ unmarked \subseteq gone
          /\ pending' = [pending EXCEPT ![p].comments = {c \in @ : c.id \notin gone}]
          /\ marks' = [marks EXCEPT ![p] = {m \in @ : m.id \notin unmarked}]
    BY <1>3, DeleteIs
  <2>2. ids' = ids
    BY <1>3, DeleteIs
  <2> QED BY <1>2, <2>1, <2>2 DEF PostSame, PostTypeOK
<1>4. CASE ~PostDelete(r, p)
  <2>1. pending'[x] = pending[x] /\ ids'[x] = ids[x]
    BY <1>4 DEF PostTypeOK, PostRead, PostCreate, PostMark, PostAdd, PostKeep, MarkFails, PostTrouble,
                NewReview, AddComment, github
  <2>2. marks'[x] = marks[x]
    BY <1>4 DEF PostTypeOK, PostRead, PostCreate, PostMark, PostAdd, PostKeep, MarkFails, PostTrouble
  <2> QED BY <1>2, <2>1, <2>2 DEF PostSame
<1> QED BY <1>3, <1>4

\* A goroutine that does not post takes no part in what the others keep.
LEMMA Alone ==
    ASSUME NEW p \in Pull, Tidy(p), IdsGrow(p), NEW r \in Run, worker[r][p].step \in PostStep
    PROVE  \A q \in Run : q # r =>
             worker[q][p].step \notin PostStep /\ worker[q][p].kept = {} /\ \A c : ~MarkComes(q, p, c)
<1> SUFFICES ASSUME NEW q \in Run, q # r
             PROVE  worker[q][p].step \notin PostStep /\ worker[q][p].kept = {} /\ \A c : ~MarkComes(q, p, c)
  OBVIOUS
<1>1. worker[q][p].step \notin PostStep
  BY DEF Tidy, Posting, PostStep
<1>2. worker[q][p].kept = {}
  BY <1>1 DEF IdsGrow, PostStep
<1> QED BY <1>1, <1>2 DEF MarkComes, PostStep

\* A goroutine that posts nothing before or after the step: it starts, ends or reviews.
LEMMA QuietPost ==
    ASSUME PostTypeOK, PostInv, NEW r \in Run, NEW p \in Pull, worker[r][p].step \notin PostStep,
           NEW new \in PostWork, worker' = [worker EXCEPT ![r][p] = new], new.step \notin PostStep, new.kept = {},
           UNCHANGED <<pending, ids, marks, raced>>
    PROVE  PostTypeOK' /\ PostInv'
<1>1. PostTypeOK'
  BY DEF PostTypeOK
<1>2. \A q \in Run, x \in Pull : worker'[q][x] = IF q = r /\ x = p THEN new ELSE worker[q][x]
  BY DEF PostTypeOK
<1>3. ASSUME NEW x \in Pull, x # p PROVE PostHolds(x)'
  <2>1. PostSame(x)
    BY <1>2, <1>3 DEF PostSame
  <2> QED BY <2>1, PostFrame DEF PostInv
<1>4. PostHolds(p)'
  <2>1. IdsGrow(p)'
    BY <1>2 DEF PostInv, PostHolds, IdsGrow, PostStep
  <2>2. ASSUME Tidy(p) PROVE Tidy(p)'
    <3>1. Posting(p)' = Posting(p)
      BY <1>2 DEF Posting, PostStep
    <3>2. \A c : ~MarkComes(r, p, c)
      BY DEF MarkComes, PostStep, PostInv, PostHolds, IdsGrow
    <3>3. \A q \in Run : \A c : MarkComes(q, p, c) => MarkComes(q, p, c)'
      BY <1>2, <3>2 DEF MarkComes, MarkOf
    <3>4. \A q \in Run : worker'[q][p].step \in {"delete", "add"} => worker'[q][p] = worker[q][p]
      BY <1>2 DEF PostStep
    <3> QED BY <2>2, <3>1, <3>3, <3>4 DEF Tidy, MarkOf
  <2> QED BY <2>1, <2>2 DEF PostInv, PostHolds, PostRaced
<1> QED BY <1>1, <1>3, <1>4 DEF PostInv

\* The steps before and after the post.
LEMMA EndsQuietly ==
    ASSUME PostTypeOK, PostInv, NEW r \in Run, NEW p \in Pull,
           ReviewEnds(r, p) \/ RecordFails(r, p) \/ EndItem(r, p)
    PROVE  PostTypeOK' /\ PostInv'
<1>1. worker[r][p].step \notin PostStep /\ UNCHANGED <<pending, ids, marks, raced>>
  BY DEF ReviewEnds, RecordFails, EndItem, PostStep, Final, github, history
<1>2. \E new \in PostWork : GoWork(r, p, new) /\ new.step \notin PostStep /\ new.kept = {}
  <2>1. NoWork \in PostWork /\ NoWork.step \notin PostStep /\ NoWork.kept = {}
    BY DEF NoWork, PostWork, PostStep
  <2>2. "left" \in Final
    BY DEF Final
  <2>3. ASSUME EndWork(r, p, "left") PROVE \E new \in PostWork : GoWork(r, p, new) /\ new.step \notin PostStep /\ new.kept = {}
    <3> DEFINE new == [NoWork EXCEPT !.step = "left"]
    <3>1. new \in PostWork /\ new.step \notin PostStep /\ new.kept = {}
      BY <2>2, EndedWork
    <3>2. GoWork(r, p, new)
      BY <2>3 DEF EndWork
    <3> HIDE DEF new
    <3> QED BY <3>1, <3>2
  <2> QED BY <2>1, <2>3 DEF ReviewEnds, RecordFails, EndItem
<1> QED BY <1>1, <1>2, QuietPost DEF GoWork

LEMMA PostReadPost ==
    ASSUME PostTypeOK, NEW r \in Run, NEW p \in Pull, PostHolds(p), PostRead(r, p)
    PROVE  PostHolds(p)'
<1>1. PICK found \in SUBSET Findings[p] : \E gone \in {{}, Findings[p] \ found} :
         LET stale == {c.id : c \in {n \in Named(p) : n.key \in gone}} IN
         IF pending[p].review = 0
           THEN /\ marks' = [marks EXCEPT ![p] = {}]
                /\ GoWork(r, p, [NoWork EXCEPT !.step = "create", !.found = found])
           ELSE /\ GoWork(r, p, [NoWork EXCEPT !.step = IF stale = {} THEN "add" ELSE "delete",
                                   !.review = pending[p].review, !.stale = stale,
                                   !.add = found \ {c.key : c \in Named(p)}])
                /\ UNCHANGED marks
  BY DEF PostRead
<1>2. PICK stale :
         IF pending[p].review = 0
           THEN /\ marks' = [marks EXCEPT ![p] = {}]
                /\ GoWork(r, p, [NoWork EXCEPT !.step = "create", !.found = found])
           ELSE /\ GoWork(r, p, [NoWork EXCEPT !.step = IF stale = {} THEN "add" ELSE "delete",
                                   !.review = pending[p].review, !.stale = stale,
                                   !.add = found \ {c.key : c \in Named(p)}])
                /\ UNCHANGED marks
  BY <1>1
<1> DEFINE new == IF pending[p].review = 0
                    THEN [NoWork EXCEPT !.step = "create", !.found = found]
                    ELSE [NoWork EXCEPT !.step = IF stale = {} THEN "add" ELSE "delete",
                                   !.review = pending[p].review, !.stale = stale,
                                   !.add = found \ {c.key : c \in Named(p)}]
<1>3. /\ new.kept = {} /\ new.step \in {"create", "delete", "add"}
      /\ new.step \in {"delete", "add"} =>
           /\ pending[p].review # 0 /\ new.review = pending[p].review
           /\ \A c \in Named(p) : c.key \notin new.add
  BY DEF NoWork
<1>4. GoWork(r, p, new) /\ (marks'[p] = marks[p] \/ pending[p].review = 0)
  BY <1>2, WorkOf
<1> HIDE DEF new
<1>5. WorkTo(r, p, new)
  BY <1>4, GoesTo
<1>6. /\ worker[r][p].step = "review" /\ UNCHANGED <<pending, ids>>
      /\ raced \subseteq raced' /\ (Posting(p) # {} => <<"together", p>> \in raced')
  BY DEF PostRead, github
<1>7. IdsGrow(p)'
  <2>1. \A q \in Run : worker'[q][p] = new \/ worker'[q][p] = worker[q][p]
    BY <1>5 DEF WorkTo
  <2>2. pending[p].review # 0 => pending[p].review \in 1 .. ids[p]
    BY WorkOf DEF PostHolds, IdsGrow
  <2> QED BY <1>3, <1>6, <2>1, <2>2 DEF PostHolds, IdsGrow
<1>8. CASE Posting(p) # {} \/ PostRaced(p)
  BY <1>6, <1>7, <1>8 DEF PostHolds, PostRaced
<1>9. CASE Posting(p) = {} /\ ~PostRaced(p)
  <2>1. Tidy(p)
    BY <1>9 DEF PostHolds
  <2>2. \A q \in Run : \A c : ~MarkComes(q, p, c)
    BY <1>9 DEF Posting, MarkComes, PostHolds, IdsGrow
  <2>3. \A c \in pending[p].comments : ~c.plain \/ MarkOf(c) \in marks[p]
    BY <2>1, <2>2 DEF Tidy
  <2>4. \A c \in pending[p].comments : c \in Named(p)
    BY <2>3 DEF Named, MarkOf
  <2>5. \A q \in Run : q # r => worker'[q][p].step \notin PostStep
    BY <1>5, <1>9 DEF WorkTo, Posting, PostStep
  <2>6. \A q, s \in Posting(p)' : q = s
    BY <2>5 DEF Posting, PostStep
  <2>7. \A c \in pending[p].comments : ~c.plain \/ MarkOf(c) \in marks'[p]
    BY <1>4, <2>3 DEF PostHolds, IdsGrow
  <2>8. ASSUME NEW q \in Run, worker'[q][p].step \in {"delete", "add"}
        PROVE  \A c \in pending[p].comments : c.key \notin worker'[q][p].add
    <3>1. q = r
      BY <2>5, <2>8 DEF PostStep
    <3> QED BY <1>3, <1>5, <2>4, <2>8, <3>1 DEF WorkTo
  <2>9. Tidy(p)'
    BY <1>6, <2>1, <2>6, <2>7, <2>8 DEF Tidy, MarkOf
  <2> QED BY <1>7, <2>9 DEF PostHolds
<1> QED BY <1>8, <1>9

LEMMA NewReviewIs ==
    ASSUME PostTypeOK, NEW r \in Run, NEW p \in Pull, NewReview(r, p), worker[r][p].found \in SUBSET Finding
    PROVE  /\ pending[p].review = 0
           /\ pending'[p].review \in 1 .. ids'[p] /\ ids[p] < pending'[p].review /\ ids[p] <= ids'[p] /\ ids'[p] \in Nat
           /\ \A c \in pending'[p].comments : c.key \in worker[r][p].found /\ c.plain = Plain(r)
           /\ \A c, d \in pending'[p].comments : c.key = d.key => c = d
<1> DEFINE found == worker[r][p].found
           nth == CHOOSE f \in [found -> 1 .. Cardinality(found)] : \A j, k \in found : f[j] = f[k] => j = k
<1>1. /\ pending' = [pending EXCEPT ![p] = [review |-> ids[p] + 1, comments |->
                     {[id |-> ids[p] + 1 + nth[k], key |-> k, plain |-> Plain(r)] : k \in found}]]
      /\ ids' = [ids EXCEPT ![p] = @ + 1 + Cardinality(found)]
      /\ pending[p].review = 0
  BY DEF NewReview
<1> HIDE DEF nth
<1>2. Cardinality(found) \in Nat
  BY FindingAssumption, FS_Subset, FS_CardinalityType
<1>3. /\ pending'[p].review = ids[p] + 1
      /\ pending'[p].comments = {[id |-> ids[p] + 1 + nth[k], key |-> k, plain |-> Plain(r)] : k \in found}
      /\ ids'[p] = ids[p] + 1 + Cardinality(found) /\ ids[p] \in Nat
  BY <1>1 DEF PostTypeOK
<1>4. \A c \in pending'[p].comments : \E k \in found : c = [id |-> ids[p] + 1 + nth[k], key |-> k, plain |-> Plain(r)]
  BY <1>3
<1>5. \A c \in pending'[p].comments : c.key \in found /\ c.plain = Plain(r)
  BY <1>4
<1>6. \A c, d \in pending'[p].comments : c.key = d.key => c = d
  <2> SUFFICES ASSUME NEW c \in pending'[p].comments, NEW d \in pending'[p].comments, c.key = d.key PROVE c = d
    OBVIOUS
  <2>1. PICK j \in found : c = [id |-> ids[p] + 1 + nth[j], key |-> j, plain |-> Plain(r)]
    BY <1>4
  <2>2. PICK k \in found : d = [id |-> ids[p] + 1 + nth[k], key |-> k, plain |-> Plain(r)]
    BY <1>4
  <2>3. j = k
    BY <2>1, <2>2
  <2> QED BY <2>1, <2>2, <2>3
<1> QED BY <1>1, <1>2, <1>3, <1>5, <1>6

LEMMA PostCreatePost ==
    ASSUME PostTypeOK, NEW r \in Run, NEW p \in Pull, PostHolds(p), PostCreate(r, p)
    PROVE  PostHolds(p)'
<1> DEFINE w == worker[r][p]
<1>1. w.step = "create" /\ UNCHANGED <<marks, raced>> /\ w.found \in SUBSET Finding
  BY WorkOf DEF PostCreate, history, PostWork
<1>2. w.kept = {}
  BY <1>1 DEF PostHolds, IdsGrow
<1>3. PICK new :
        /\ WorkTo(r, p, new) /\ new.kept = {}
        /\ \/ NewReview(r, p) /\ new.step \in {"mark", "posted"} /\ (Plain(r) => new.step = "mark" /\ new.found = w.found)
           \/ new.step = "left" /\ UNCHANGED github
  <2>1. CASE NewReview(r, p) /\ Plain(r) /\ GoWork(r, p, [w EXCEPT !.step = "mark"])
    <3>1. w \in PostWork
      BY WorkOf
    <3>2. LET new == [w EXCEPT !.step = "mark"] IN new.step = "mark" /\ new.found = w.found /\ new.kept = {}
      BY <1>2, <3>1 DEF PostWork
    <3> QED BY <2>1, <3>2, GoesTo
  <2>2. CASE NewReview(r, p) /\ ~Plain(r) /\ EndWork(r, p, "posted")
    <3>1. "posted" \in Final
      BY DEF Final
    <3> QED BY <2>2, <3>1, EndsWith, EndedWork
  <2>3. CASE EndWork(r, p, "left") /\ UNCHANGED github
    <3>1. "left" \in Final
      BY DEF Final
    <3> QED BY <2>3, <3>1, EndsWith, EndedWork
  <2> QED BY <2>1, <2>2, <2>3 DEF PostCreate
<1>4. new.step \in {"mark", "posted", "left"}
  BY <1>3
<1>5. \A q \in Run : worker'[q][p] = IF q = r THEN new ELSE worker[q][p]
  BY <1>3 DEF WorkTo
<1>6. CASE NewReview(r, p) /\ new.step \in {"mark", "posted"} /\ (Plain(r) => new.step = "mark" /\ new.found = w.found)
  <2>1. /\ pending'[p].review \in 1 .. ids'[p] /\ ids[p] < pending'[p].review /\ ids[p] <= ids'[p] /\ ids'[p] \in Nat
        /\ \A c \in pending'[p].comments : c.key \in w.found /\ c.plain = Plain(r)
        /\ \A c, d \in pending'[p].comments : c.key = d.key => c = d
    BY <1>1, <1>6, NewReviewIs
  <2>2. IdsGrow(p)'
    <3>1. \A q \in Run : worker'[q][p].step \in {"delete", "add"} => worker'[q][p].review \in 1 .. ids[p]
      BY <1>3, <1>4, <1>5 DEF PostHolds, IdsGrow
    <3>2. \A q \in Run : worker'[q][p].kept # {} => worker'[q][p].step \in {"add", "keep"}
      BY <1>3, <1>4, <1>5 DEF PostHolds, IdsGrow
    <3>3. ids[p] \in Nat
      BY WorkOf
    <3> QED BY <2>1, <3>1, <3>2, <3>3 DEF IdsGrow
  <2>3. ASSUME Tidy(p) PROVE Tidy(p)'
    <3>1. \A q \in Run : q # r => worker[q][p].step \notin PostStep
      BY <1>1, <2>3, Alone DEF PostHolds, PostStep
    <3>2. \A q, s \in Posting(p)' : q = s
      BY <1>5, <3>1 DEF Posting, PostStep
    <3>3. \A q \in Run : worker'[q][p].step \notin {"delete", "add"}
      BY <1>4, <1>5, <3>1 DEF PostStep
    <3>4. ASSUME NEW c \in pending'[p].comments
          PROVE  ~c.plain \/ MarkComes(r, p, c)'
      BY <1>4, <1>5, <1>6, <2>1 DEF MarkComes
    <3> QED BY <2>1, <3>2, <3>3, <3>4 DEF Tidy
  <2> QED BY <1>1, <2>2, <2>3 DEF PostHolds, PostRaced
<1>7. CASE new.step = "left" /\ UNCHANGED github
  <2>1. IdsGrow(p)'
    BY <1>3, <1>4, <1>5, <1>7 DEF PostHolds, IdsGrow, github
  <2>2. ASSUME Tidy(p) PROVE Tidy(p)'
    <3>1. \A c : ~MarkComes(r, p, c)
      BY <1>1, <1>2 DEF MarkComes
    <3>2. \A q \in Run : \A c : MarkComes(q, p, c) => MarkComes(q, p, c)'
      BY <1>5, <3>1 DEF MarkComes, MarkOf
    <3>3. \A q, s \in Posting(p)' : q = s
      BY <1>5, <1>7, <2>2 DEF Posting, Tidy
    <3>4. \A q \in Run : worker'[q][p].step \in {"delete", "add"} => worker'[q][p] = worker[q][p]
      BY <1>4, <1>5
    <3> QED BY <1>1, <1>7, <2>2, <3>2, <3>3, <3>4 DEF Tidy, MarkOf, github
  <2> QED BY <1>1, <2>1, <2>2 DEF PostHolds, PostRaced
<1> QED BY <1>3, <1>6, <1>7


LEMMA AddCommentIs ==
    ASSUME PostTypeOK, NEW r \in Run, NEW p \in Pull, NEW key, AddComment(r, p, key)
    PROVE  LET new == [id |-> ids[p] + 1, key |-> key, plain |-> Plain(r)] IN
           /\ pending[p].review = worker[r][p].review /\ pending'[p].review = pending[p].review
           /\ pending'[p].comments = pending[p].comments \cup {new}
           /\ ids'[p] = ids[p] + 1
BY DEF AddComment, PostTypeOK

\* The pull request after a step of a goroutine that posts: it left comments out of the pending
\* review or wrote marks, and may have ended.
LEMMA PostLeaves ==
    ASSUME PostTypeOK, NEW r \in Run, NEW p \in Pull, PostHolds(p), worker[r][p].step \in PostStep,
           NEW new, WorkTo(r, p, new), new.step \in {"posted", "left", "add", "keep"},
           new.step \in {"posted", "left"} => new.kept = {},
           new.step = "add" => new.review = worker[r][p].review /\ new.add \subseteq worker[r][p].add
                               /\ worker[r][p].step \in {"delete", "add"},
           pending'[p].review = pending[p].review, pending'[p].comments \subseteq pending[p].comments,
           ids'[p] = ids[p], raced \subseteq raced',
           PostRaced(p)' \/ \A c \in pending'[p].comments :
             c.plain /\ (MarkOf(c) \in marks[p] \/ MarkComes(r, p, c)) => MarkOf(c) \in marks'[p] \/ MarkOf(c) \in new.kept
    PROVE  PostHolds(p)'
<1>1. \A q \in Run : worker'[q][p] = IF q = r THEN new ELSE worker[q][p]
  BY DEF WorkTo
<1>2. PostRaced(p) => PostRaced(p)'
  BY DEF PostRaced
<1>3. IdsGrow(p)'
  <2>1. \A q \in Run : worker'[q][p].step \in {"delete", "add"} => worker'[q][p].review \in 1 .. ids[p]
    BY <1>1 DEF PostHolds, IdsGrow
  <2>2. \A q \in Run : worker'[q][p].kept # {} => worker'[q][p].step \in {"add", "keep"}
    BY <1>1 DEF PostHolds, IdsGrow
  <2> QED BY <2>1, <2>2 DEF PostHolds, IdsGrow
<1>4. ASSUME Tidy(p), ~PostRaced(p)' PROVE Tidy(p)'
  <2>1. \A q \in Run : q # r => worker[q][p].step \notin PostStep /\ \A c : ~MarkComes(q, p, c)
    BY <1>4, Alone DEF PostHolds
  <2>2. \A q, s \in Posting(p)' : q = s
    BY <1>1, <2>1 DEF Posting, PostStep
  <2>3. ASSUME NEW c \in pending'[p].comments
        PROVE  ~c.plain \/ MarkOf(c) \in marks'[p] \/ \E q \in Run : MarkComes(q, p, c)'
    <3>1. ~c.plain \/ MarkOf(c) \in marks[p] \/ MarkComes(r, p, c)
      BY <1>4, <2>1 DEF Tidy
    <3>2. ~c.plain \/ MarkOf(c) \in marks'[p] \/ MarkOf(c) \in new.kept
      BY <1>4, <3>1
    <3>3. MarkOf(c) \in new.kept => MarkComes(r, p, c)'
      BY <1>1 DEF MarkComes, MarkOf
    <3> QED BY <3>2, <3>3
  <2>4. ASSUME NEW q \in Run, worker'[q][p].step \in {"delete", "add"}, pending'[p].review = worker'[q][p].review
        PROVE  \A c \in pending'[p].comments : c.key \notin worker'[q][p].add
    <3>1. q = r
      BY <1>1, <2>1, <2>4 DEF PostStep
    <3>2. worker[r][p].step \in {"delete", "add"} /\ pending[p].review = worker[r][p].review
          /\ worker'[q][p].add \subseteq worker[r][p].add
      BY <1>1, <2>4, <3>1
    <3> QED BY <1>4, <3>2 DEF Tidy
  <2> QED BY <1>4, <2>2, <2>3, <2>4 DEF Tidy, MarkOf
<1> QED BY <1>2, <1>3, <1>4 DEF PostHolds

LEMMA PostMarkPost ==
    ASSUME PostTypeOK, NEW r \in Run, NEW p \in Pull, PostHolds(p), PostMark(r, p)
    PROVE  PostHolds(p)'
<1> DEFINE w == worker[r][p]
           new == [NoWork EXCEPT !.step = "posted"]
<1>1. w.step = "mark" /\ WorkTo(r, p, new) /\ UNCHANGED <<pending, ids, raced>>
  BY EndsWith DEF PostMark, github, history
<1>2. marks'[p] = marks[p] \cup New(r, p)
  BY DEF PostMark, PostTypeOK
<1>3. ASSUME NEW c \in pending'[p].comments, c.plain, MarkOf(c) \in marks[p] \/ MarkComes(r, p, c)
      PROVE  MarkOf(c) \in marks'[p]
  <2>1. CASE MarkOf(c) \in marks[p]
    BY <1>2, <2>1
  <2>2. CASE MarkComes(r, p, c)
    <3>1. w.kept = {}
      BY <1>1 DEF PostHolds, IdsGrow
    <3>2. c \in {d \in pending[p].comments : d.plain /\ d.key \in w.found}
      BY <1>1, <1>3, <2>2, <3>1 DEF MarkComes
    <3>3. MarkOf(c) \in New(r, p)
      BY <3>2 DEF New, MarksOf, MarkOf
    <3> QED BY <1>2, <3>3
  <2> QED BY <1>3, <2>1, <2>2
<1>4. new.step = "posted" /\ new.kept = {}
  BY EndedWork DEF Final
<1> HIDE DEF new
<1> QED BY <1>1, <1>3, <1>4, PostLeaves DEF PostStep

LEMMA PostDeletePost ==
    ASSUME PostTypeOK, NEW r \in Run, NEW p \in Pull, PostHolds(p), PostDelete(r, p)
    PROVE  PostHolds(p)'
<1> DEFINE w == worker[r][p]
<1>1. w \in PostWork /\ w.step = "delete" /\ w.kept = {} /\ UNCHANGED <<ids, raced>>
  <2>1. w.step = "delete" /\ UNCHANGED <<ids, raced>>
    BY DeleteIs
  <2> QED BY <2>1, WorkOf DEF PostHolds, IdsGrow
<1>2. PICK gone, unmarked :
        /\ unmarked \subseteq gone
        /\ pending' = [pending EXCEPT ![p].comments = {c \in @ : c.id \notin gone}]
        /\ marks' = [marks EXCEPT ![p] = {m \in @ : m.id \notin unmarked}]
  BY DeleteIs
<1>3. /\ pending'[p].review = pending[p].review
      /\ pending'[p].comments = {c \in pending[p].comments : c.id \notin gone}
      /\ marks'[p] = {m \in marks[p] : m.id \notin unmarked}
  BY <1>2 DEF PostTypeOK
<1>4. PICK new :
        /\ WorkTo(r, p, new) /\ new.step \in {"add", "left"} /\ (new.step = "left" => new.kept = {})
        /\ new.step = "add" => new.review = w.review /\ new.add \subseteq w.add
  <2>1. CASE GoWork(r, p, [w EXCEPT !.step = "add", !.stale = {}])
    <3>1. LET new == [w EXCEPT !.step = "add", !.stale = {}] IN
          new.step = "add" /\ new.review = w.review /\ new.add \subseteq w.add
      BY <1>1 DEF PostWork
    <3> QED BY <2>1, <3>1, GoesTo
  <2>2. CASE EndWork(r, p, "left")
    <3>1. "left" \in Final
      BY DEF Final
    <3> QED BY <2>2, <3>1, EndsWith, EndedWork
  <2> QED BY <2>1, <2>2, DeleteIs
<1>5. ASSUME NEW c \in pending'[p].comments, c.plain, MarkOf(c) \in marks[p] \/ MarkComes(r, p, c)
      PROVE  MarkOf(c) \in marks'[p]
  <2>1. ~MarkComes(r, p, c)
    BY <1>1 DEF MarkComes
  <2> QED BY <1>2, <1>3, <1>5, <2>1 DEF MarkOf
<1> QED BY <1>1, <1>3, <1>4, <1>5, PostLeaves DEF PostStep

LEMMA PostKeepPost ==
    ASSUME PostTypeOK, NEW r \in Run, NEW p \in Pull, PostHolds(p), PostKeep(r, p)
    PROVE  PostHolds(p)'
<1> DEFINE w == worker[r][p]
<1>1. PICK state \in Final : w.step \in {"add", "keep"} /\ EndWork(r, p, state)
  BY DEF PostKeep, Keeps, Final
<1>2. UNCHANGED <<pending, ids, raced>> /\ marks'[p] = marks[p] \cup w.kept
  BY DEF PostKeep, PostTypeOK, github, history
<1>3. PICK new : WorkTo(r, p, new) /\ new.step = state /\ new.kept = {}
  BY <1>1, EndsWith, EndedWork
<1>4. ASSUME NEW c \in pending'[p].comments, c.plain, MarkOf(c) \in marks[p] \/ MarkComes(r, p, c)
      PROVE  MarkOf(c) \in marks'[p]
  BY <1>1, <1>2, <1>4 DEF MarkComes
<1> QED BY <1>1, <1>2, <1>3, <1>4, PostLeaves DEF PostStep, Final

LEMMA MarkFailsPost ==
    ASSUME PostTypeOK, NEW r \in Run, NEW p \in Pull, PostHolds(p), MarkFails(r, p)
    PROVE  PostHolds(p)'
<1>1. /\ worker[r][p].step \in {"mark", "add", "keep"} /\ EndWork(r, p, "left")
      /\ UNCHANGED <<pending, ids>> /\ raced \subseteq raced' /\ <<"unmarked", p>> \in raced'
  BY DEF MarkFails, Keeps, github
<1>2. PICK new : WorkTo(r, p, new) /\ new.step = "left" /\ new.kept = {}
  <2>1. "left" \in Final
    BY DEF Final
  <2> QED BY <1>1, <2>1, EndsWith, EndedWork
<1> QED BY <1>1, <1>2, PostLeaves DEF PostStep, PostRaced

\* A comment is added, and its mark is to come or not needed.
LEMMA PostAdds ==
    ASSUME PostTypeOK, NEW r \in Run, NEW p \in Pull, PostHolds(p), worker[r][p].step = "add",
           NEW key \in worker[r][p].add, AddComment(r, p, key),
           NEW new, WorkTo(r, p, new), new.step \in {"add", "keep"},
           new.step = "add" => new.review = worker[r][p].review /\ new.add = worker[r][p].add \ {key},
           worker[r][p].kept \subseteq new.kept, marks'[p] = marks[p], raced \subseteq raced',
           PostRaced(p)' \/ (Plain(r) => [id |-> ids[p] + 1, key |-> key] \in new.kept)
    PROVE  PostHolds(p)'
<1> DEFINE w == worker[r][p]
           comment == [id |-> ids[p] + 1, key |-> key, plain |-> Plain(r)]
<1>1. \A q \in Run : worker'[q][p] = IF q = r THEN new ELSE worker[q][p]
  BY DEF WorkTo
<1>2. PostRaced(p) => PostRaced(p)'
  BY DEF PostRaced
<1>3. /\ pending[p].review = w.review /\ pending'[p].review = pending[p].review
      /\ pending'[p].comments = pending[p].comments \cup {comment}
      /\ ids'[p] = ids[p] + 1 /\ ids[p] \in Nat
  BY AddCommentIs, WorkOf
<1>4. comment.key = key /\ comment.plain = Plain(r) /\ MarkOf(comment) = [id |-> ids[p] + 1, key |-> key]
  BY DEF MarkOf
<1> HIDE DEF comment
<1>5. IdsGrow(p)'
  <2>1. \A q \in Run : worker'[q][p].step \in {"delete", "add"} => worker'[q][p].review \in 1 .. ids[p]
    BY <1>1 DEF PostHolds, IdsGrow
  <2>2. \A q \in Run : worker'[q][p].kept # {} => worker'[q][p].step \in {"add", "keep"}
    BY <1>1 DEF PostHolds, IdsGrow
  <2>3. pending'[p].review # 0 /\ pending'[p].review <= ids[p]
    BY <1>3 DEF PostHolds, IdsGrow
  <2>4. pending'[p].review \in Nat
    BY <1>3, WorkOf
  <2>5. pending'[p].review <= ids'[p] /\ \A q \in Run : worker'[q][p].step \in {"delete", "add"} => worker'[q][p].review \in 1 .. ids'[p]
    BY <1>3, <2>1, <2>3, <2>4
  <2> QED BY <2>2, <2>3, <2>5 DEF IdsGrow
<1>6. ASSUME Tidy(p), ~PostRaced(p)' PROVE Tidy(p)'
  <2>1. \A q \in Run : q # r => worker[q][p].step \notin PostStep /\ \A c : ~MarkComes(q, p, c)
    BY <1>6, Alone DEF PostHolds, PostStep
  <2>2. \A q, s \in Posting(p)' : q = s
    BY <1>1, <2>1 DEF Posting, PostStep
  <2>3. \A c \in pending[p].comments : c.key \notin w.add
    BY <1>3, <1>6 DEF Tidy
  <2>4. \A c, d \in pending'[p].comments : c.key = d.key => c = d
    BY <1>3, <1>4, <1>6, <2>3 DEF Tidy
  <2>5. ASSUME NEW c \in pending'[p].comments
        PROVE  ~c.plain \/ MarkOf(c) \in marks'[p] \/ MarkComes(r, p, c)'
    <3>1. MarkOf(c) \in new.kept => MarkComes(r, p, c)'
      BY <1>1 DEF MarkComes, MarkOf
    <3>2. CASE c = comment
      BY <1>4, <1>6, <3>1, <3>2
    <3>3. CASE c \in pending[p].comments
      BY <1>6, <2>1, <3>1, <3>3 DEF Tidy, MarkComes
    <3> QED BY <1>3, <3>2, <3>3
  <2>6. ASSUME NEW q \in Run, worker'[q][p].step \in {"delete", "add"}
        PROVE  \A c \in pending'[p].comments : c.key \notin worker'[q][p].add
    <3>1. q = r /\ worker'[q][p].add = w.add \ {key}
      BY <1>1, <2>1, <2>6 DEF PostStep
    <3> QED BY <1>3, <1>4, <2>3, <3>1
  <2> QED BY <2>2, <2>4, <2>5, <2>6 DEF Tidy, MarkOf
<1> QED BY <1>2, <1>5, <1>6 DEF PostHolds

LEMMA PostAddPost ==
    ASSUME PostTypeOK, NEW r \in Run, NEW p \in Pull, PostHolds(p), PostAdd(r, p)
    PROVE  PostHolds(p)'
<1> DEFINE w == worker[r][p]
<1>1. w \in PostWork /\ w.step = "add" /\ marks' = marks /\ raced' = raced
  BY WorkOf DEF PostAdd, history
<1>2. PICK key \in w.add :
         /\ AddComment(r, p, key)
         /\ GoWork(r, p, [w EXCEPT !.add = @ \ {key}, !.kept =
                IF Plain(r) THEN @ \cup {[id |-> ids[p] + 1, key |-> key]} ELSE @])
  BY DEF PostAdd
<1> DEFINE new == [w EXCEPT !.add = @ \ {key}, !.kept =
                IF Plain(r) THEN @ \cup {[id |-> ids[p] + 1, key |-> key]} ELSE @]
<1>3. /\ new.step = "add" /\ new.review = w.review /\ new.add = w.add \ {key}
      /\ w.kept \subseteq new.kept /\ (Plain(r) => [id |-> ids[p] + 1, key |-> key] \in new.kept)
  BY <1>1 DEF PostWork
<1> HIDE DEF new
<1>4. WorkTo(r, p, new)
  BY <1>2, GoesTo DEF new
<1> QED BY <1>1, <1>2, <1>3, <1>4, PostAdds

LEMMA PostTroublePost ==
    ASSUME PostTypeOK, NEW r \in Run, NEW p \in Pull, PostHolds(p), PostTrouble(r, p)
    PROVE  PostHolds(p)'
<1> DEFINE w == worker[r][p]
<1>1. w \in PostWork /\ w.step \in {"create", "mark", "add"} /\ marks' = marks /\ raced \subseteq raced'
  BY WorkOf DEF PostTrouble
<1>2. PICK new :
        /\ WorkTo(r, p, new)
        /\ w.step = "add" => new.step = "keep" /\ new.kept = w.kept
        /\ w.step # "add" => new.step = "left" /\ new.kept = {}
  <2>1. CASE w.step = "add"
    <3>1. [w EXCEPT !.step = "keep"].step = "keep" /\ [w EXCEPT !.step = "keep"].kept = w.kept
      BY <1>1 DEF PostWork
    <3> QED BY <2>1, <3>1, GoesTo DEF PostTrouble
  <2>2. CASE w.step # "add"
    <3>1. "left" \in Final
      BY DEF Final
    <3> QED BY <2>2, <3>1, EndsWith, EndedWork DEF PostTrouble
  <2> QED BY <2>1, <2>2
<1>3. w.step # "add" => w.kept = {}
  BY <1>1 DEF PostHolds, IdsGrow
<1>4. \/ /\ UNCHANGED github
         /\ w.step = "mark" => <<"unmarked", p>> \in raced'
      \/ /\ \/ w.step = "create" /\ NewReview(r, p)
            \/ w.step = "add" /\ \E key \in w.add : AddComment(r, p, key)
         /\ Plain(r) => <<"unmarked", p>> \in raced'
  BY DEF PostTrouble
<1>5. CASE UNCHANGED github /\ (w.step = "mark" => <<"unmarked", p>> \in raced')
  <2>1. PostRaced(p)' \/ \A c : MarkComes(r, p, c) => MarkOf(c) \in new.kept
    BY <1>1, <1>2, <1>3, <1>5 DEF PostRaced, MarkComes
  <2> QED BY <1>1, <1>2, <1>3, <1>5, <2>1, PostLeaves DEF PostStep, github
<1>6. CASE w.step = "add" /\ (\E key \in w.add : AddComment(r, p, key)) /\ (Plain(r) => <<"unmarked", p>> \in raced')
  BY <1>1, <1>2, <1>3, <1>6, PostAdds DEF PostRaced
<1>7. CASE w.step = "create" /\ NewReview(r, p) /\ (Plain(r) => <<"unmarked", p>> \in raced')
  <2>1. \A q \in Run : worker'[q][p] = IF q = r THEN new ELSE worker[q][p]
    BY <1>2 DEF WorkTo
  <2>2. w.found \in SUBSET Finding
    BY <1>1 DEF PostWork
  <2>3. /\ pending'[p].review \in 1 .. ids'[p] /\ ids[p] < pending'[p].review /\ ids[p] <= ids'[p] /\ ids'[p] \in Nat
        /\ \A c \in pending'[p].comments : c.plain = Plain(r)
        /\ \A c, d \in pending'[p].comments : c.key = d.key => c = d
    BY <1>7, <2>2, NewReviewIs
  <2>4. IdsGrow(p)'
    <3>1. \A q \in Run : worker'[q][p].step \in {"delete", "add"} => worker'[q][p].review \in 1 .. ids[p]
      BY <1>2, <1>7, <2>1 DEF PostHolds, IdsGrow
    <3>2. \A q \in Run : worker'[q][p].kept # {} => worker'[q][p].step \in {"add", "keep"}
      BY <1>2, <1>7, <2>1 DEF PostHolds, IdsGrow
    <3>3. ids[p] \in Nat
      BY WorkOf
    <3> QED BY <2>3, <3>1, <3>2, <3>3 DEF IdsGrow
  <2>5. ASSUME Tidy(p), ~PostRaced(p)' PROVE Tidy(p)'
    <3>1. \A q \in Run : q # r => worker[q][p].step \notin PostStep
      BY <1>1, <2>5, Alone DEF PostHolds, PostStep
    <3>2. \A q \in Run : worker'[q][p].step \notin PostStep
      BY <1>2, <1>7, <2>1, <3>1 DEF PostStep
    <3>3. \A c \in pending'[p].comments : ~c.plain
      BY <1>7, <2>3, <2>5 DEF PostRaced
    <3> QED BY <2>3, <3>2, <3>3 DEF Tidy, Posting, PostStep
  <2>6. PostRaced(p) => PostRaced(p)'
    BY <1>1 DEF PostRaced
  <2> QED BY <2>4, <2>5, <2>6 DEF PostHolds
<1> QED BY <1>4, <1>5, <1>6, <1>7

LEMMA ReviewsPost ==
    ASSUME PostTypeOK, PostInv, NEW r \in Run, NEW p \in Pull,
           \/ PostRead(r, p) \/ PostCreate(r, p) \/ PostMark(r, p) \/ PostDelete(r, p)
           \/ PostAdd(r, p) \/ PostKeep(r, p) \/ MarkFails(r, p) \/ PostTrouble(r, p)
    PROVE  PostInv'
<1>1. PostHolds(p)
  BY DEF PostInv
<1>2. PostHolds(p)'
  BY <1>1, PostReadPost, PostCreatePost, PostMarkPost, PostDeletePost, PostAddPost,
     PostKeepPost, MarkFailsPost, PostTroublePost
<1>3. ASSUME NEW x \in Pull, x # p PROVE PostHolds(x)'
  <2>1. PostSame(x)
    BY <1>3, Elsewhere
  <2> QED BY <2>1, PostFrame DEF PostInv
<1> QED BY <1>2, <1>3 DEF PostInv

\* A goroutine of a pull request starts; it posts nothing before it has read the pending review.
LEMMA ExecuteStartPost ==
    ASSUME PostTypeOK, RowsInv, PostInv, NEW r \in Run, ExecuteStart(r)
    PROVE  PostTypeOK' /\ PostInv'
<1> DEFINE new == [NoWork EXCEPT !.step = "review"]
<1>1. new \in PostWork /\ new.step \notin PostStep /\ new.kept = {}
  BY DEF PostWork, NoWork, PostStep
<1>2. PICK p \in Pull : p = run[r].at
  BY DEF ExecuteStart, RowsInv, RunFits
<1>3. worker[r][p].step \notin PostStep
  BY <1>2 DEF ExecuteStart, RowsInv, RunFits, AtHand, On, PostStep
<1>4. worker' = [worker EXCEPT ![r][p] = new] /\ UNCHANGED <<pending, ids, marks, raced>>
  BY <1>2 DEF ExecuteStart, github, history
<1> HIDE DEF new
<1> QED BY <1>1, <1>3, <1>4, QuietPost

LEMMA ReviewerPost ==
    ASSUME PostTypeOK, PostInv, NEW p \in Pull, ReviewerActs(p)
    PROVE  PostTypeOK' /\ PostInv'
<1>1. UNCHANGED <<marks, worker, raced>>
  BY DEF ReviewerActs, history
<1>2. \/ /\ pending[p].review = 0
         /\ pending' = [pending EXCEPT ![p].review = ids[p] + 1]
         /\ ids' = [ids EXCEPT ![p] = @ + 1]
      \/ pending' = [pending EXCEPT ![p] = NoReview] /\ UNCHANGED ids
  BY DEF ReviewerActs
<1>3. PostTypeOK'
  <2>1. /\ pending[p] \in [review : Nat, comments : SUBSET Comment]
        /\ pending \in [Pull -> [review : Nat, comments : SUBSET Comment]]
        /\ ids \in [Pull -> Nat] /\ ids[p] + 1 \in Nat
    BY WorkOf DEF PostTypeOK
  <2>2. [pending[p] EXCEPT !.review = ids[p] + 1] \in [review : Nat, comments : SUBSET Comment]
    BY <2>1
  <2>3. NoReview \in [review : Nat, comments : SUBSET Comment]
    BY DEF NoReview
  <2>4. /\ pending' \in [Pull -> [review : Nat, comments : SUBSET Comment]]
        /\ ids' \in [Pull -> Nat]
    BY <1>2, <2>1, <2>2, <2>3
  <2> QED BY <1>1, <2>4 DEF PostTypeOK
<1>4. /\ pending'[p].comments = {}
      /\ \/ pending'[p].review = 0 /\ ids'[p] = ids[p]
         \/ pending'[p].review = ids[p] + 1 /\ ids'[p] = ids[p] + 1
  BY <1>2 DEF PostTypeOK, NoReview, PostInv, PostHolds, IdsGrow
<1>5. IdsGrow(p)'
  <2>1. ids[p] \in Nat
    BY WorkOf
  <2>2. \A q \in Run : worker[q][p].step \in {"delete", "add"} => worker[q][p].review \in 1 .. ids'[p]
    BY <1>4, <2>1 DEF PostInv, PostHolds, IdsGrow
  <2> QED BY <1>1, <1>4, <2>1, <2>2 DEF PostInv, PostHolds, IdsGrow
<1>6. Tidy(p) => Tidy(p)'
  BY <1>1, <1>4 DEF Tidy, Posting
<1>7. PostHolds(p)'
  BY <1>1, <1>5, <1>6 DEF PostInv, PostHolds, PostRaced
<1>8. ASSUME NEW x \in Pull, x # p PROVE PostHolds(x)'
  <2>1. PostSame(x)
    BY <1>1, <1>2, <1>8 DEF PostSame, PostTypeOK
  <2> QED BY <2>1, PostFrame DEF PostInv
<1> QED BY <1>3, <1>7, <1>8 DEF PostInv

LEMMA RestartPost ==
    ASSUME PostTypeOK, PostInv, Restart
    PROVE  PostTypeOK' /\ PostInv'
<1>1. UNCHANGED <<pending, ids, marks>>
  BY DEF Restart, github
<1>2. worker' \in [Run -> [Pull -> PostWork]] /\ \A r \in Run, p \in Pull : worker'[r][p] = NoWork
  <2>1. NoWork \in PostWork
    BY DEF NoWork, PostWork
  <2> QED BY <2>1 DEF Restart
<1>3. raced \subseteq raced' /\ \A p \in Unmarked : <<"unmarked", p>> \in raced'
  BY DEF Restart
<1>4. ASSUME NEW p \in Pull PROVE PostHolds(p)'
  <2>1. IdsGrow(p)'
    BY <1>1, <1>2, <1>4, NoWorkIs DEF PostInv, PostHolds, IdsGrow
  <2>2. PostRaced(p) => PostRaced(p)'
    BY <1>3 DEF PostRaced
  <2>3. p \in Unmarked => PostRaced(p)'
    BY <1>3 DEF PostRaced
  <2>4. ASSUME Tidy(p), p \notin Unmarked PROVE Tidy(p)'
    <3>1. \A r \in Run : \A c : ~MarkComes(r, p, c)
      BY <2>4 DEF MarkComes, Unmarked
    <3>2. \A c \in pending[p].comments : ~c.plain \/ MarkOf(c) \in marks[p]
      BY <2>4, <3>1 DEF Tidy
    <3>3. \A r \in Run : worker'[r][p].step = "off"
      BY <1>2, NoWorkIs
    <3> QED BY <1>1, <2>4, <3>2, <3>3 DEF Tidy, Posting, MarkOf
  <2> QED BY <2>1, <2>2, <2>3, <2>4 DEF PostInv, PostHolds
<1> QED BY <1>1, <1>2, <1>4 DEF PostTypeOK, PostInv

\* What the handlers and the runs themselves do is not seen on GitHub.
LEMMA UnseenPost ==
    ASSUME PostTypeOK, PostInv, UNCHANGED <<pending, ids, marks, worker>>, raced \subseteq raced'
    PROVE  PostTypeOK' /\ PostInv'
<1>1. PostTypeOK'
  BY DEF PostTypeOK
<1>2. \A p \in Pull : PostSame(p)
  BY DEF PostSame
<1> QED BY <1>1, <1>2, PostFrame DEF PostInv
-----------------------------------------------------------------------------
BatchInv == PostTypeOK /\ RowsInv /\ PostInv

LEMMA BatchInitially ==
    ASSUME BatchInit
    PROVE  BatchInv
<1> USE DEF BatchInit
<1>1. NoWork \in PostWork /\ NoReview \in [review : Nat, comments : SUBSET Comment]
  BY DEF NoWork, PostWork, NoReview
<1>2. PostTypeOK
  BY <1>1 DEF PostTypeOK
<1>0. 0 \in 0 .. MaxRuns
  BY Constants
<1>3. NoRun \in RunRow /\ NoRun.step = "off" /\ Free \in RequestRow /\ Free.step = "idle"
  BY <1>0 DEF NoRun, RunRow, RunStep, Free, RequestRow, RequestStep, Status
<1>4. RowsTypeOK
  BY <1>0, <1>3 DEF RowsTypeOK, Status, ItemState
<1>5. /\ \A b \in Batch : batch[b] = "none" /\ live[b] = 0 /\ \A p \in Pull : item[b][p] = "none"
      /\ \A r \in Run : run[r].step = "off" /\ \A p \in Pull : worker[r][p] = NoWork
      /\ \A h \in Request : request[h].step = "idle"
      /\ cancelled = {} /\ late = {}
  BY <1>3
<1>6. \A r \in Run, p \in Pull : ~On(r, p)
  BY <1>5, NoWorkIs DEF On
<1>7. (\A r \in Run : RunFits(r)) /\ \A h \in Request : RequestFits(h)
  BY <1>5, <1>6 DEF RunFits, RequestFits
<1>8. ASSUME NEW b \in Batch PROVE BatchHolds(b)
  <2>1. /\ \A r \in Run : ~Active(r, b)
        /\ \A h \in Request : ~LaunchOf(h, b) /\ ~OfBatch(h, b)
        /\ \A p \in Pull : ~Waiting(b, p)
    BY <1>5 DEF Active, LaunchOf, OfBatch, Waiting
  <2>2. NotYetHolds(b) /\ WaitsHold(b) /\ RunningHolds(b) /\ ReviewingHolds(b)
    BY <1>5, <2>1 DEF NotYetHolds, WaitsHold, RunningHolds, ReviewingHolds
  <2>3. CancelHolds(b)
    BY <1>5, <2>1 DEF CancelHolds, Settled
  <2> QED BY <2>2, <2>3 DEF BatchHolds
<1>9. RowsInv
  BY <1>4, <1>5, <1>7, <1>8 DEF RowsInv
<1>10. ASSUME NEW p \in Pull PROVE PostHolds(p)
  <2>1. pending[p].review = 0 /\ pending[p].comments = {} /\ ids[p] = 0
    BY DEF NoReview
  <2>2. IdsGrow(p)
    BY <1>5, <2>1, NoWorkIs DEF IdsGrow
  <2>3. Tidy(p)
    BY <1>5, <2>1, NoWorkIs DEF Tidy, Posting
  <2> QED BY <2>2, <2>3 DEF PostHolds
<1> QED BY <1>2, <1>9, <1>10 DEF BatchInv, PostInv

LEMMA HandlersKeep ==
    ASSUME BatchInv, Handlers
    PROVE  BatchInv'
<1> USE DEF BatchInv
<1>1. ASSUME NEW b \in Batch, Create(b) PROVE BatchInv'
  <2>1. UNCHANGED <<pending, ids, marks, worker, raced>>
    BY <1>1 DEF Create, github
  <2> QED BY <1>1, <2>1, CreateStep, UnseenPost
<1>2. ASSUME NEW b \in Batch, NEW h \in Request, NEW call \in {"start", "cancel"}, Read(h, b, call) PROVE BatchInv'
  <2>1. UNCHANGED <<pending, ids, marks, worker, raced>>
    BY <1>2 DEF Read, github, history
  <2> QED BY <1>2, <2>1, ReadStep, UnseenPost
<1>3. ASSUME NEW h \in Request,
             \/ StartSet(h) \/ StartLaunch(h) \/ RequestFails(h)
             \/ CancelLook(h) \/ CancelReach(h) \/ CancelItems(h) \/ CancelFinish(h)
      PROVE  BatchInv'
  <2>1. UNCHANGED <<pending, ids, marks, worker>> /\ raced \subseteq raced'
    BY <1>3 DEF StartSet, StartLaunch, RequestFails, CancelLook, CancelReach, CancelItems, CancelFinish, github, history
  <2>2. RowsInv'
    BY <1>3, StartSetStep, StartLaunchStep, RequestFailsStep, CancelLookStep, CancelReachStep, CancelItemsStep,
       CancelFinishStep
  <2> QED BY <2>1, <2>2, UnseenPost
<1> QED BY <1>1, <1>2, <1>3 DEF Handlers, Request, StartRead, CancelRead

LEMMA RunsKeep ==
    ASSUME BatchInv, Runs
    PROVE  BatchInv'
<1> USE DEF BatchInv
<1>1. ASSUME NEW r \in Run, ExecuteStart(r) PROVE BatchInv'
  <2>1. worker \in [Run -> [Pull -> PostWork]]
    BY DEF PostTypeOK
  <2> QED BY <1>1, <2>1, ExecuteStartStep, ExecuteStartPost
<1>2. ASSUME NEW r \in Run,
             \/ ExecuteList(r) \/ ExecuteCheck(r)
             \/ ExecuteSpent(r) \/ ExecuteStop(r) \/ ExecuteFinish(r)
      PROVE  BatchInv'
  <2>1. RowsInv'
    BY <1>2, ExecuteListStep, ExecuteCheckStep, ExecuteSpentStep, ExecuteStopStep, ExecuteFinishStep
  <2>2. UNCHANGED <<pending, ids, marks, worker, raced>>
    BY <1>2 DEF ExecuteList, ExecuteCheck, ExecuteSpent, ExecuteStop, ExecuteFinish, github
  <2> QED BY <2>1, <2>2, UnseenPost
<1> QED BY <1>1, <1>2 DEF Runs

LEMMA ReviewsKeep ==
    ASSUME BatchInv, Reviews
    PROVE  BatchInv'
<1> USE DEF BatchInv
<1>w. worker \in [Run -> [Pull -> PostWork]]
  BY DEF PostTypeOK
<1>1. ASSUME NEW r \in Run, NEW p \in Pull, EndItem(r, p) PROVE BatchInv'
  BY <1>w, <1>1, EndItemStep, EndsQuietly
<1>2. ASSUME NEW r \in Run, NEW p \in Pull,
             \/ ReviewEnds(r, p) \/ RecordFails(r, p)
             \/ PostRead(r, p) \/ PostCreate(r, p) \/ PostMark(r, p) \/ PostDelete(r, p)
             \/ PostAdd(r, p) \/ PostKeep(r, p) \/ MarkFails(r, p) \/ PostTrouble(r, p)
      PROVE  BatchInv'
  <2>1. PostTypeOK' /\ ReviewEffect(r, p)
    BY <1>2, ReviewTypes
  <2>2. \A q \in Run, x \in Pull : On(q, x)' <=> On(q, x)
    BY <1>w, <2>1 DEF ReviewEffect, On
  <2>3. RowsInv'
    BY <2>1, <2>2, RowsStay DEF ReviewEffect
  <2>4. PostInv'
    BY <1>2, ReviewsPost, EndsQuietly
  <2> QED BY <2>1, <2>3, <2>4
<1> QED BY <1>1, <1>2 DEF Reviews

LEMMA BatchStep ==
    ASSUME BatchInv, [BatchNext]_batchVars
    PROVE  BatchInv'
<1> USE DEF BatchInv
<1>1. ASSUME NEW p \in Pull, ReviewerActs(p) PROVE BatchInv'
  <2>1. UNCHANGED <<worker, batch, item, live, run, request, raced, unstored, cancelled, late>>
    BY <1>1 DEF ReviewerActs, rows, history
  <2>2. RowsInv'
    BY <2>1, RowsStay DEF On
  <2> QED BY <1>1, <2>2, ReviewerPost
<1>2. CASE Restart
  BY <1>2, RestartStep, RestartPost
<1>3. CASE UNCHANGED batchVars
  <2>1. UNCHANGED <<pending, ids, marks, worker, batch, item, live, run, request, raced, unstored, cancelled, late>>
    BY <1>3 DEF batchVars, github, rows, history
  <2>2. RowsInv'
    BY <2>1, RowsStay DEF On
  <2> QED BY <2>1, <2>2, UnseenPost
<1> QED BY <1>1, <1>2, <1>3, HandlersKeep, RunsKeep, ReviewsKeep DEF BatchNext

\* The rows, the requests and what is known of GitHub keep to the invariant above, also after
\* statements and calls that fail (CreatePrBatch, launch, execute, reviewItem, post).
THEOREM BatchInvariance == BatchSpec => []BatchInv
<1>1. BatchInit => BatchInv
  BY BatchInitially
<1>2. BatchInv /\ [BatchNext]_batchVars => BatchInv'
  BY BatchStep
<1> QED BY <1>1, <1>2, PTL DEF BatchSpec

\* The pending review of a pull request holds one comment of a finding, also after a failure, a
\* restart or a submit, unless two posts ran at once or a mark was not written (Merge, keep).
THEOREM OneComment == BatchSpec => []OneCommentOfAFinding
<1>1. BatchInv => OneCommentOfAFinding
  BY DEF BatchInv, PostInv, PostHolds, PostRaced, Tidy, OneCommentOfAFinding
<1> QED BY <1>1, BatchInvariance, PTL

\* After CancelPrBatch answered, no pull request of the batch passes the check of its run, unless
\* two starts launched the batch, the cancel came before the launch, or a start launched and
\* listed the items between the look for a run and the stop of the items (CancelPrBatch, execute).
THEOREM CancelFinal == BatchSpec => []CancelIsFinal
<1>1. BatchInv => CancelIsFinal
  BY DEF BatchInv, RowsInv, BatchHolds, CancelHolds, CancelRaced, CancelIsFinal
<1> QED BY <1>1, BatchInvariance, PTL

\* A batch that nothing works on has an end status and no unfinished pull request, unless its
\* status had ended before the process stopped under one of its runs, or one of its statements
\* failed and EndOrphans has not run since (finish, reviewItem, EndOrphans).
THEOREM ItemsEnd == BatchSpec => []EndsItsItems
<1>1. ASSUME BatchInv, NEW b \in Batch, batch[b] \notin {"none", "planned"}, ~Underway(b),
             <<"stopped", b>> \notin raced, b \notin unstored
      PROVE  batch[b] \in Ended /\ \A p \in Pull : item[b][p] \notin Unfinished
  <2>1. BatchHolds(b) /\ batch[b] \in Status
    BY <1>1, RowOf DEF BatchInv, RowsInv
  <2>2. \A r \in Run : ~Active(r, b)
    BY <1>1 DEF Underway, Active
  <2>3. \A h \in Request : ~LaunchOf(h, b)
    BY <1>1 DEF Underway, Launching, LaunchOf
  <2>4. batch[b] \in Ended
    <3>1. batch[b] # "running"
      BY <1>1, <2>1, <2>2, <2>3 DEF BatchHolds, RunningHolds
    <3> QED BY <1>1, <2>1, <3>1 DEF Status
  <2>5. ASSUME NEW p \in Pull PROVE item[b][p] \notin Unfinished
    <3>1. item[b][p] # "waiting"
      BY <1>1, <2>1, <2>4 DEF BatchHolds, WaitsHold, Waiting, Ended
    <3>2. item[b][p] # "reviewing"
      BY <1>1, <2>1, <2>2 DEF BatchHolds, ReviewingHolds
    <3> QED BY <3>1, <3>2 DEF Unfinished
  <2> QED BY <2>4, <2>5
<1>2. BatchInv => EndsItsItems
  BY <1>1 DEF EndsItsItems
<1> QED BY <1>2, BatchInvariance, PTL

=============================================================================
