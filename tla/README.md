# Tator: specifications, model checks and proofs

TLA+ modules about the parts of Tator (a web application for storing and annotating video)
whose correctness depends on the order in which requests, nightly commands, database
triggers, the object store and, in the browser, the user and the answers act.  TLC checks them on small instances; TLAPS proves the
theorems for every size.  `PROJECT.json` maps each definition to the lines it stands for.

All paths below are under `src/api/main/` unless they start with `src/`; `js/` is `src/ui/src/js/`.

## 1. The system

Clients (the web front end and scripts) call a REST service.  Every request is a Django view
that runs in one of many workers against PostgreSQL, at the isolation level READ COMMITTED
and without a transaction around the view: each ORM call commits by itself, except where the
code opens `transaction.atomic()`.  Files live in object stores (S3 and the like); the
browser uploads them with presigned URLs.  Cron (`src/compose/gunicorn.cron`) starts
management commands that prune, back up, archive and restore.  Transcodes and algorithms run
as Argo workflows and come back as ordinary clients.

| Component | State | Operations | Hard behaviour | What makes it correct |
|---|---|---|---|---|
| Annotation revisions (`models.py` triggers, `rest/localization.py`, `rest/state.py`, `rest/_util.py`) | rows of Localization and State: `elemental_id`, `version`, `mark`, `latest_mark`, `deleted`, `variant_deleted` | POST, PATCH, PATCH in place, DELETE, prune, each for one row and for lists | handlers read in one statement and write in another; triggers number the rows; a list PATCH saves a row twice | a mark names one revision; `latest_mark` is the highest; history is not rewritten; an element never vanishes; edits accumulate |
| Media files and resources (`models.py` Resource, `rest/*_file.py`, `rest/clone_media.py`, `rest/media.py`, `prunemedia`) | `Media.media_files`, Resource rows, the many-to-many table, objects in the store | register, replace, delete a file; clone, hide, rewrite, prune a media | several transactions per request; deletion of an object cannot be rolled back; reference counting by a COUNT that nothing locks | a file in use is in the store; the last user deletes it; the count matches `media_files` |
| Archival and restoration (`rest/media.py`, `util.py`, `archivemedia`, `requestrestoration`, `finishrestoration`) | `archive_state` of a media and of its clones, the storage class of objects | user requests, three nightly commands | the commands decide on a queryset read early and write at the end; a clone waits for its original | live media have live objects; every request to archive or restore is carried out in the end |
| Backups (`backup.py`, `backupresources`, `movebackups`) | `Resource.backed_up`, objects in the backup bucket | copy, move, fall back on read | one file of several fails; deletion during a copy | `backed_up` only if the copy is there |
| States and their localizations (`rest/state.py`, `models.py` `calc_segments`) | many-to-many rows of a State with Localization; `segments` | create, edit, merge, trim, delete with children, prune | revisions share children; DELETE is several transactions | no localization of a track that is shown is deleted; the children of a deleted track go if nobody else had them; segments cover the frames |
| Undo buffer (`js/annotation/undo-buffer.js`, `annotation-data.js`) | lists of forward and backward operations, a position, the list of annotations shown, the mask on editing | do, undo, redo, answers of the server | answers arrive after the user moved on | undo restores what was there and takes back only the user's own revisions; the list is that of the server; editing comes back |
| Project page (`js/project-detail/`, `js/components/entity-gallery/`) | section, filter, page, cards, selection, dialogs and dimmer, URL | browse, select, move, delete, edit in bulk | overlapping loads; the keyboard works under a dialog; a dialog per request | cards, ticks, URL and dimmer agree with what is to be shown once all is answered |
| Jobs and transcodes (`rest/job.py`, `kube.py`) | in the cluster | submit, cancel, list | | outside this code |
| Uploads and temporary files, generic files | objects, TemporaryFile, File rows | presigned uploads, expiry | | |
| Permissions (`_permission_util.py`, `rest/_permissions.py`) | row protections, groups | compute a bit mask in SQL | no concurrency of its own | |
| Search and attribute queries (`search.py`, `rest/*_query.py`) | indices | translate to SQL | no concurrency of its own | |
| Projects, memberships, versions, sections, types; accounts, tokens | configuration rows | CRUD | one statement each | |
| Folders (`js/project-detail/folder-dialog.js`, `js/util/section-utilities.js`) | paths of sections | add, rename, move, hide | one PATCH for each folder directly inside; deeper ones keep the old path | |
| Presentation, the other pages of the front end, deployment | | | | |

How they interact.  An annotation belongs to a media and to a version, but its revisions are
kept without reference to either; the triggers are called by every INSERT and every UPDATE
of `deleted`.  Media, Resource and the store are coupled by the calls `add_resource`,
`drop_media_from_resource` and `delete_resource`, and by the `post_delete` signal of a media.
Archival and backup act on the resources of a media and read the same many-to-many rows.
States refer to localizations row by row, not by element, so that each revision of a state has
associations of its own.  In the browser the undo buffer turns what the user does to annotations
into requests, files what would take each of them back when the answer comes, and tells the page
by events; the project page loads counts and lists of media, and its dialogs and the bulk edit
panel send the requests that change them.

The hazards are listed in `PROJECT.json`, at the line where each one bites.

## 2. Modules

| Module | What it is |
|---|---|
| `RevisionLog` | abstract: one log of numbered entries per element and version; append at the end or withdraw one |
| `Marks` | the table of rows, the two triggers, the requests on annotations, statement by statement; instantiates `RevisionLog` with a refinement mapping |
| `MCMarks` | instances of `Marks` |
| `MarksProofs` | theorems about `Marks`, and that it implements `RevisionLog` |
| `Resources` | media, `media_files`, resources, many-to-many rows, store; requests and `prunemedia` transaction by transaction |
| `MCResources` | instances of `Resources` |
| `ResourcesProofs` | theorems about `Resources` under any operations and crashes |
| `ResourcesSoundProofs` | theorems about `Resources` on the paths where no request died or got in the way of another |
| `States` | revisions of states with their localizations and segments, merge, trim, deletion with children |
| `MCStates` | instance of `States` |
| `StatesProofs` | theorems about `States` |
| `ShownLists` | operators: the list of annotations of a page, as `annotation-data.js` changes it |
| `UndoBuffer` | the undo buffer, its requests and answers, the page's list (`ShownLists`) and the table of revisions |
| `UndoBufferProofs` | theorems about `UndoBuffer`: whose revisions are pruned, types, and what disables and enables editing |
| `UndoExactProofs` | theorems about `UndoBuffer`: undo and redo are exact, the page's list is the server's, editing comes back |
| `ProjectPage` | the project page, its requests and answers, the media behind it |
| `MCProjectPage` | instance of `ProjectPage` |
| `ProjectPageProofs` | theorems about `ProjectPage` |
| `Archive` | `archive_state` of media, clones and multis, the places of their objects, the requests and the three commands |
| `MCArchive` | instances of `Archive` |
| `ArchiveProofs` | theorems about `Archive` |

### Marks

State: `used` are the rows that are committed, `row[i]` the columns of row `i`, and `job[p]`
the local variables of a request: its stage, the operation, the primary key and the object it
has read.  A *key* is a pair (`elemental_id`, `version`).  The attributes of an annotation
are abstracted to the set of edits that it contains (`val`), an edit being named by the
request that made it: this is enough to say that one revision lacks another's edit.

| Code | Actions |
|---|---|
| POST | `Post`, then `Insert` |
| PATCH of one row | `PatchLatest`, or `PatchEarlier` and `Resolve` when the row is not the latest mark; then `Insert`, or `Save` if `in_place` |
| DELETE of one localization | `Delete` (pedantic check), `DeleteReread`, `Insert` |
| DELETE of one state | `DeleteState`, `Insert`, `Refetch`, `Save`, `SaveAgain` |
| DELETE with `prune` | `Prune`, `Save` |
| list PATCH, list DELETE | `BulkCopy`, `Insert`, and for PATCH `Refetch`, `Save` |
| list PATCH in place, DELETE in place, prune | `BulkSelect`, `BulkWrite` |
| BEFORE trigger | `NextMark` in `Insert`, or `InsertFirst` |
| AFTER trigger | `AfterTrigger` in `Insert` and `SaveRow`, or `FirstMeetsOthers`, `FirstAlone` |
| a failing request | `Abort` |

An `Insert` is one step although it is a statement with two triggers: the BEFORE trigger
locks the rows of its key with `SELECT ... FOR UPDATE` until the commit, so a second INSERT
into the key waits and then counts with a new snapshot.  For a key without rows there is
nothing to lock, and there the trigger, the second trigger and the commit are steps of their
own.

A list request is modelled for one row at a time: it handles its rows one after the other and
shares nothing between them but the list of ids.  A list request that is not in place but has
`show_all_marks` is not modelled.

### Resources

State: `media[m]` says whether the row exists, is hidden (`deleted = TRUE`) or is pruned;
`files[m]` are the entries of `media_files` as pairs of a slot (role and index) and a path;
`stored` the objects; `res[r]` the path of a Resource row; `link` the many-to-many rows;
`job[p]` the local variables of a request and the rows that its open transaction has deleted
(`cut`, `rows`), which stay visible to others, and locked, until the commit.

| Code | Actions |
|---|---|
| upload with a presigned URL | `Upload` |
| POST, PATCH, DELETE of a video, audio, image or auxiliary file | `PostFile`, `PatchFile`, `DeleteFile` |
| `CloneMedia` | `Clone`, then `Attach` for every file |
| DELETE of a media; PATCH with `multi` or `live` | `ReadMedia`, `SaveMedia` |
| `prunemedia` and the `post_delete` signal | `PruneMedia`, then `FindRow` ... `Commit` in one transaction |
| `drop_media_from_resource` | `Detach` |
| `delete_resource` | `FindRow` (`objects.get`), `Count`, `Cascade`, `Remove`, `Commit` |
| `add_resource` | `Attach` (`get_or_create`), `LinkNew` or `LinkFound` |
| `safe_delete`, when the database ends the deletion as one of several that wait for each other | `Victim` |
| a worker that is killed | `Abort` |

`Remove` deletes the object in the store at once, while the rows disappear only at `Commit`:
that order is the point of the module.  `Commit` checks the foreign keys; when it fails,
`safe_delete` logs the error and the object is gone all the same.  An entry may be a link to
elsewhere (`URLs`), registered with `reference_only`: it is attached to nothing.

`delete_resource` has a transaction of its own, which inside `prunemedia` is a savepoint.  When
the database ends it to break a deadlock, just what it did is undone (`BeforeSavepoint`), the bare
`except` of `safe_delete` swallows the error, and a prune goes on to its next path with the
locks that it had before.  Only a worker that is killed rolls back a whole prune.

`spoilt` is a history variable.  It collects the paths, of those in `Watched`, that a request had
still to deal with when it died or failed (`Concern`), on which one request attaches while
another leaves or both create the row (`Collisions`), which a client names again on one media, which a
stale `SaveMedia` adds or removes, and at which two prunes count each other (`Count`).  All
of these happen in the model; `Sound`, the other paths, is what `EntryIsStored`, `CountsAreRight` and
`NothingLeaks` speak of.

Simplifications.  An entry has one path; `segment_info`, the second path of a streaming file,
is treated by the code as the first.  The list DELETE of media is `ReadMedia` directly
followed by `SaveMedia`.  A slot stands for the roles that a rewrite lets pass.  `prunemedia`
takes only media hidden for 30 days, which outlasts every request on them: `PruneMedia` has
the guard `~WorkedOn(m)`.  Backups of a resource and generic files are left out.

### Archive

State: `row[m]` says whether a media exists, is hidden or pruned; `state[m]` and
`requested[m]` are `archive_state` and `restoration_requested`; `object[o]` is where an object
is in the store; `job[p]` the local variables of a PATCH or of a command: the media it has
still to visit, the objects of the one at hand, the ids for its last UPDATE.

| Code | Actions |
|---|---|
| PATCH of `archive_state` | `ReadState`, `WriteState` (with `NextState` for `_get_next_archive_state`) |
| `CloneMedia`, DELETE, `prunemedia` | `Clone`, `Delete`, `Prune` |
| start of a command | `Begin`, with the filter `Selects` |
| `update_queryset_archive_state`, one media | `VisitEmpty` (`media_files` is empty: `Bare`), `VisitUnmoved` (files, a thumbnail say, but none that is moved), `VisitOrphan` (`get_clone_info` raises), `VisitClone`, `VisitOriginal`, `VisitMulti` |
| `update_media_archive_state`, one object | `MoveObject`, `GiveUp`; `Moved` and `Works` stand for `archive_resource`, `request_restoration`, `restore_resource` |
| the UPDATE at the end, for singles and then for multis | `EndSingles`, `EndMultis` |
| a process that dies | `Die` |
| external: the rule of the bucket, a restoration | `RuleArchives`, `Restored` |

A *tagged* object is one that `_put_archive_tag` has marked and that the rule of the bucket
has not moved yet: it is still in the live storage class.

Simplifications.  The store is S3 without a backup bucket.  A request to archive is due at once
(`--min_age_days 0`).  A list PATCH is a sequence of PATCHes, as it handles the states one
after the other and a media once.  A clone is visited in one step, although the code reads its
original and saves the clone in two statements.  A restored copy does not expire (the
default is 30 days).  The notification of project owners is left out.

### States

State: `rows`, the table of revisions by primary key, each with its element, mark, associations
(`parts`) and `segments`; `latest`, the `latest_mark` of an element; `alive`, the localizations
that are not deleted; `doomed[p]`, the ids a DELETE has collected and not deleted yet.

| Code | Actions |
|---|---|
| POST | `Post`, segments by `SplitSegments` (`np.split`) |
| PATCH of a state, in place or not | `Patch`, to the row `EndOf`; segments by `CalcSegments` (the `m2m_changed` receiver) |
| DELETE | `DeleteState` or `PruneState`, with `Children` for those that nobody else has; then `DeleteChildren`, or `Die` |
| list DELETE | `BulkDelete` |
| `MergeStates`, `TrimStateEnd` | `Merge`, `Trim` |

PATCH, merge and trim are single steps.  Merge and trim are transactions in the code; a PATCH is
not, and what two at a time do to marks and attributes is in `Marks`, so that here it is one step.
The media and the versions of states are left out, and a localization is one row.
Merge takes any two rows that are there, as the code does: superseded revisions that a stale page
still shows, deleted and pruned ones, two of one state, or a row and itself.

### UndoBuffer

State: `fw`, `bw`, `index` are `_forwardOps`, `_backwardOps`, `_index`; `shown` is the list of
one type in `annotation-data.js`; `masked` says that `temporarilyMaskEdits` disabled editing;
`asked` are the requests under way, each of which is served and then answered, in any order;
`rows` the table of revisions at the server.

| Code | Actions |
|---|---|
| `patch` | `StartPatch` (the GET of the original), `PatchRead`, `Serve`, `AnswerPatch` |
| `post` | `StartPost`, `Serve`, `AnswerPost` |
| `delete_metadata` | `StartRemove`, `Serve`, `AnswerRemove` |
| `del` | `StartPatch` (the GET), `DelRead`, `Serve`, `AnswerQuiet` |
| `undo` | `Undo`, the answers of a re-creation `AnswerRecreated`, functors `RunFunctor` |
| `redo` | `Redo`, `AnswerPost`, `AnswerQuiet` |
| `updateTypeLocal`, `updateType` | `WithEntry`, `WithPatch`, `WithoutEntry`; `ServeRefetch`, `AnswerRefetch` |
| external: another user, a failing request, the lock button | `OtherPatches`, `Fail`, `ClickLock` |

A value of an annotation stands for all its attributes: its history is what `View`, the set of
current values, is compared with.  `Kinds` says which operations the page offers for a type.  A
creation pushes the parts of its backward operation one by one (`push(...extra_bw_ops)`), so an
undo finds words where operations should be: `Stray`.

When an undo has created an annotation anew, every operation that has the old id gets the new one
(`Readdressed`).  A user who does not wait may have a creation where the answer looks for the old id:
its first argument is the project, so that the project of every creation in the buffer becomes the id of
the annotation, and these creations fail from then on (`Answered`: no such project).

`sure` is a history variable: the user has waited for every answer before the next operation,
nobody else edited, nothing failed, no undo addressed a row that was pruned or went past an
operation that cannot be undone (`frail`).  The precise properties are about such users; the
other property, `OnlyOwnPruned`, and the type are for all.

### ProjectPage

State: `place`, `attr`, `folders` at the server; `sec`, `filter`, `start`, `stop`, `psize`,
`pager` what is to be shown; `els` the cards; `edit`, `sel` select mode and the selection;
`dialog`, `dim`, `fading` the dialogs; `url`; `asked` the requests under way.

| Code | Actions |
|---|---|
| `selectSection`, `init` of the media section | `SelectSection`, `Select` |
| paginators | `PrevPage`, `NextPage`, `GoToPage`, `ChangeSize`, all `SetPage` |
| `updateFilterResults`; the reload button | `ChangeFilter`, `FilterDone`; `ClickReload` |
| `reload`, `_loadMedia`, `_makeCards` | `Reload`, `AnswerCount`, `LoadMedia`, `AnswerList`, `MakeCards` |
| select mode | `EnterSelectMode`, `Pick`, `SelectAll`, `Escape`, `LeaveSelectMode` |
| dialogs | `OpenDelete`, `OpenMove`, `OpenSection`, `OpenConfirm`, `Cancel`, `Fade` |
| what they send, and the answers | `AcceptDelete`, `AcceptMove`, `AcceptSection`, `AcceptEdit`; `AnswerDelete`, `AnswerMove`, `AnswerSection`, `AnswerSections`, `AnswerEdit` |
| external: the server | `Read`, `Write`, `Fail` |

A read is served at the moment of its answer unless a write comes between the two (`Read`), which
is the only case where it matters.  The mouse does not reach a dimmed page (`Clicks`), the
keyboard does.  The model starts after the first load, on All Media.

## 3. Runs

Passing runs.

| Run | Instance | Shows |
|---|---|---|
| `MarksAppend` | two keys with a row each, two more rows, two requests at a time, retargeting; the operations that append or prune | `UniqueLiveMarks`, `LatestMarkCorrect`, `HistoryIsImmutable`, `TypeOK`, and that the table implements `RevisionLog` (`ImplementsLog`) |
| `MarksInPlace` | one key that is empty at first, three rows, two requests at a time; everything but pruning | `ElementVisible`, `EndOfBranchResolves`, also through the race of two first revisions, stale saves and list updates |
| `ResourcesTogether` | a media, a clone, a file and a link, two requests at a time, all operations, crashes | `EntryIsStored`, `CountsAreRight`, `NothingLeaks` on the file, as long as it is `Sound` |
| `ResourcesTearDown` | two media that share two files, two requests or commands that take away, crashes | `TypeOK`, `AttachedIsStored`, `Completion` (liveness) |
| `ArchiveAlone` | a media with two objects, its clone, a second media, a media whose `media_files` is empty; one process at a time, deletions, one death or failure | `TypeOK`, `StateMatchesObjects`, `ClonesFollow` |
| `ArchiveCarriedOut` | a multi and its two members, a media with files none of which is moved; one process at a time, one death or failure anywhere | `ArchiveIsCarriedOut`, `RestoreIsCarriedOut` (liveness), `MultisWaitForMembers` |
| `UndoBuffer` | states or localizations, one to begin with; five operations, undos and redos (three once the user is not `sure`), two requests at a time, one failure, one edit of another user | `TypeOK`, `OnlyOwnPruned`, `UndoIsExact`, `ShownIsCurrent`, `EditingComesBack` |
| `ProjectPage` | two media of different types, a folder, a filter, two page sizes; four acts of the user, two requests under way when one acts, one failing write | `TypeOK`, `CardsAreCurrent`, `SelectionIsShown`, `UrlTellsView`, `LoadingEnds`, `DimmerGoes` |
| `States` | two states, three localizations on frames 1, 2 and 4, three rows, two requests that add none, one deletion under way | `TypeOK`, `PartsStayAlive`, `ChildrenGo`, `SegmentsCover` |

Runs that end with a counterexample, each of which is a finding in `PROJECT.json`.

| Run | What happens |
|---|---|
| `MarksBulkRace` | a list PATCH inserts a revision, fetches it and saves it again; another revision is appended between the last two steps, and the save writes the older `latest_mark` back |
| `ResourcesCloneRace` | a clone attaches itself between the count and the deletion of the object |
| `ArchiveTagged` | a media is asked back before the rule of the bucket has moved its object: the request finds the object in the live storage class and counts it as done; then the rule archives it, and the restoration can never be finished |

Behaviours the models have as well, which no run is kept for: two pedantic PATCHes read the
same latest revision, both pass the check, and the second appends without the edit of the first
(`EditsAccumulate`, with `PedanticChoices = {TRUE}`); the latest revision is pruned and another
takes its mark, so that the query for the end of the branch, which does not leave out pruned rows,
finds two of them and raises (`EndOfBranchResolves`, with `Prune` among the operations); a clone of a media with a file that is
only referenced stops attaching at that file, and its other files are deleted with the original
(`Attach`, which spoils the files it leaves); two POSTs of one new
`elemental_id` both become mark 0 (so `UniqueLiveMarks` needs keys with a row); a PATCH in
place that read a row before it was pruned brings it back; two prunes of media that share a file
each count the other and nobody deletes the file; a path registered twice on
a media has one many-to-many row, so the deletion of one entry deletes the other's object; a
registration and a clone can create two Resource rows for a path.  Each shows as soon as the
instance or the property admits it: `SeedRows = {}` with the property `UniqueLiveMarks`, `Ops` with
`PatchInPlace` and `Prune`, `Repost = TRUE`, and the three properties of `ResourcesTogether` with
`Watched` in place of `Sound`.

In `Archive`, with two `Procs`: the last UPDATE of a command overwrites a request that was made
or withdrawn while it ran.  With a fault: a request that is withdrawn after its command has
tagged an object and died leaves a live media with an object the rule will archive.  Through a
multi: its PATCH rewrites a member that is archived already, and withdrawn it leaves that member
live.  With deletions: a clone whose original was pruned makes `get_clone_info` raise, and the
command ends every night before its UPDATE, for all media: what it had moved until then is
archived, and is said to be live.  A media whose `media_files` is empty never
leaves `to_live`, nor does a multi that contains one.  The properties name these exceptions
(`faults = 0`, `NoOrphans`, `Rewritten`, `Movers`, `Filed`) or the instance leaves them out (`Deletable`).

In `Resources`, with crashes: a request that dies after it deleted some rows of the
many-to-many table leaves resources without users, and two `prunemedia` that reach two of these in
different orders wait for each other; PostgreSQL fails the deletion of one (`Deadlocked`, `Victim`),
and that prune goes on: it commits without having deleted that resource, which then has no user.

In `States`: a PATCH changes the associations of the old revision before it copies it, so that an
undo that prunes the new revision takes back neither the change nor, on the old row, the segments
(`SegmentsCover` leaves out the states with a pruned revision, `spoiled`).  Both revisions
then refer to the children, so that after one PATCH `delete_child_localizations` deletes nothing
(`ChildrenGo` speaks of states without a second revision; the schema says that localizations are
only deleted "if they are not associated with another state").  A list DELETE makes a revision
without associations and deletes no children.  A merge into a revision that is not the latest
leaves the localizations of the other state in none that is shown; a merge that takes from a deletion
does not bring the children back, and one that takes the only row with a mark lets the mark be used
again.  A pruned deletion does not bring the children back,
and a localization attached while a DELETE is under way is deleted with the rest (`excused`).

In `UndoBuffer`: a creation is never undone, since an undo finds the parts of its backward
operation; the undo or redo of a PATCH tells the list nothing and never releases the mask, although
the comment at `js/annotation/annotation-page.js:916` says that edits are disabled "only during a
network operation" (`silent`); an edit after it records the stale entry as the original.  A redo
makes a revision with a new id, which nothing files, so that the next undo prunes one that is gone.
With answers out of order, what takes an operation back is filed under another one.  The redo
of an edit from the frame panel, which is undone by a PATCH, mixes with the prunes of the entity
browser: pruning an older revision then changes nothing that is seen (`frail`).

In `ProjectPage`: with overlapping loads the cards are those of the answer that came last
(`latest`).  A load in select mode that meets a selected media ends in an exception: the cards
are cut off there, and `Loading...` stays if it was shown (`broken`); a filter whose load ended so
is not in the URL (`skipped`).  `selectSection` passes no page, which becomes NaN: Prev and Next
before the answer make a range that is not asked for (`Ranged`), and with a page size that is not
the default the URL says `page=NaN`.  After a deletion of several media the cards stay until the
reload and the selection stays for good.  Escape during a bulk edit empties the selection for which
the page would be loaded again, and a section whose media were deleted but which was not
itself leaves the page as it was (`missed`).  The message of a success closes, when it fades,
whatever the modal shows by then.  Any dialog that ends lights the page while others are
open.  The properties name each of these exceptions.

**Bounds, and why they are enough.**  The bound on rows (`Ids`) bounds the inserts, `MaxMark`
is never below the number of rows that can get a mark, `Rids` bounds the creations of
resources.  Two requests at a time are enough for every race named in the hazards: each is
between a reader that writes later and one writer.  Rows that pass from one request to the
next accumulate, so that a run contains sequences of up to as many requests as there are rows
to insert.  Two keys are needed for retargeting (`new_version`, `new_elemental_id`), and
nothing couples three.  In `ResourcesTogether` the properties
watch one file, as nothing couples two but the order in which one request attaches or drops them, which
the link beside it has already; the proofs are for any number.  Two files are needed for locks taken in opposite orders and for a
clone that stops half way; two media for sharing.  In `MarksAppend` the parameter `pedantic`
is left at 0, which admits every behaviour that `pedantic = 1` does (it only refuses);
`MarksInPlace` has both.  In `Archive`, media interact only as clones or as
members of a multi, or by ending a command in which both are due, and one of each, with the two
members that tell `any` from `all`, are enough; two objects for a media that is done half; `MaxFaults = 1` as a second fault can only
repeat what the first one left.  `MarksAppend` starts from keys that have a row and excludes
in-place edits, because the properties fail without either, as said above.  In `States` three rows
are two states, one with a second revision, or one with a revision and its deletion, and three
localizations on frames with and without a gap; an unbounded number of each is what the proofs are
for.  In `UndoBuffer` five acts are two operations with their undos and a redo, or three
operations, an undo and a fourth that cuts the rest off, two requests under way are an operation
and one that overtakes it; a user who does not wait needs only three acts to have two operations
filed in the wrong order and one undone.  In `ProjectPage` one media per page makes two pages of
two media, the other size one page; four acts reach a selection, its edit or deletion, and a change
of page or folder meanwhile.

**Fairness.**  `Completion` needs `SF(Continue(p))` for each request.  A worker that
runs goes on to its next statement, and a statement that waits for a row lock gets it in the
order of arrival, because PostgreSQL queues waiters; so a step that is enabled again and again
is taken.  Requests that wait for each other's rows are found by PostgreSQL's deadlock detection,
which fails one of their deletions: `WF(Victim(p))`.  A request that dies is not obliged to,
and clients and cron are not assumed to do anything.
The liveness of `Archive` needs `SF(Begin(cmd))` for each command, since the cron table starts
each once a day whatever users do, so a command that is due again and again is started; `WF` of
every step of a process, which nothing blocks as no lock is held between steps; and `WF` of the
store's restorations.  The rule of the bucket is not assumed to act at any time.
`UndoBuffer`, `ProjectPage` and `States` need no fairness: what they promise is said of the moments
when nothing is under way.
`CHECK_DEADLOCK FALSE` is set for `Archive`, which may rest with all media pruned, for
`Resources`, where when all media are pruned and all operations used up the system may stop (a
deadlock of locks would show as a violation of `Completion`), and for `UndoBuffer`, `ProjectPage`
and `States`, which rest when the bounds on acts, rows and edits are used up.

## 4. Proofs

`MarksProofs` (for any sets of rows, keys and requests, and any `MaxMark`)

* `TypeCorrect`: `Spec => []TypeOK`, for every operation.
* `MarksAreUnique`, `LatestIsRight`, `HistoryStays`: the properties of `MarksAppend`, under
  the assumption `AppendOnly`: clients use the operations that append or prune, and every key
  has a row to begin with.  The runs and the list above show why both are needed.
* The argument.  Neither property is inductive.  `UniqueLiveMarks` follows from the mark of
  an insert being above every live mark; `LatestMarkCorrect` from the AFTER trigger rewriting
  the whole key.  A `Save` writes back all the columns that the request has read, so it must
  be known that those of a prune are still what the row holds but for `deleted` and
  `latest_mark`: a prune that wrote back an old `latest_mark` is right only since the trigger
  then repairs it; and a second prune of a row that is already pruned writes on a dead row.
  `Settled` says this of every request under way (`JobSettled`), with the two properties and
  that no key is empty (which keeps `InsertFirst` disabled).
  `InitSettled`, `StepSettled` and `AlwaysSettled` prove it inductive; a step changes the table
  by one insert or one prune (`TableStep`), whose effects are `InsertKeeps` and `PruneKeeps`.
* `ElementsStayVisible`, `BranchEndsResolve`: the properties of `MarksInPlace`, under `RowsStay`:
  nothing is pruned and no edit moves a row to another element, the two operations that the list
  above shows to break them.  Here requests save copies that are arbitrarily old over newer
  rows, and two first revisions both take mark 0, so neither `UniqueLiveMarks` nor
  `LatestMarkCorrect` holds.  What does is `Orderly`: no row is deleted; the `latest` of a row
  names a mark that is there and not below its own (`RowKept`), and so does that of any copy a
  request still holds (`HoldsRow`); marks above the first are unique (`UniqueAboveFirst`).  A row
  with the greatest mark of its element is then visible, whatever `latest` says in the others.
* `MaxIsGreatest` is needed as the greatest of a set of marks is a `CHOOSE`; it comes from the
  well-foundedness of the naturals, without induction.
* `AppendersImplementLog`: under `AppendOnly`, `Spec => ImplementsLog`.  The log of a key is
  the set of its live revisions.  An `Insert` is an `Append` since its mark is above all others
  (`EndIsNextMark`), or a stutter if the row it copies is pruned by then; the `Save` of a prune
  is a `Withdraw`, and takes exactly one entry away as marks are unique (`Settled`); every other
  step stutters.

`ResourcesProofs` (for any media, paths, slots, rows and requests)

* `TypeCorrect`: `Spec => []TypeOK`.
* `LinksStayValid`: no media is attached to a resource that is gone, under all operations and
  crashes.  The invariant `LinkInv` adds that a request which is about to attach to a row
  knows a row that was once in use (`LinkKnown`): it is deleted or still has its path.
* `TearDownIsSafe`: under `OnlyTearDown` (no POST, PATCH of a file, or clone) an object
  is never deleted while an undeleted media is attached to it.  The invariant `TearInv` says
  that links only shrink, that a path has one row, and that a request that is past the count
  has a resource that no undeleted media uses any more.

`ResourcesSoundProofs` (the same parameters, all operations, crashes, deadlocks, any number of requests)

* `EntriesStayStored`, `CountsStayRight`, `NothingEverLeaks`: the three properties of
  `ResourcesTogether`, from the specification alone: nothing is assumed of how requests follow each
  other, how many there are, or which of them die.  What cannot be had is in the property: a path
  of `spoilt` is excepted from the moment it is spoiled.  `SeedsMatch` in `Resources` says of the
  tables at the start what every POST makes of them.
* The argument.  Between the statements of a request the tables disagree about a path, by what the
  requests at work on it have still to do.  `PathOK(a)` says how, for one sound path.  `Apart`:
  nobody leaves it while another attaches it, and two attach it only for different media when it has its
  row.  So either several requests leave it, or several clones attach it.  `Settled`, `Linked` and `DetachKnown`: a
  media is attached if it names the path, but for those that have still to attach or to detach.
  `RowKnown`, `SoleRow`: there is one row.  Deletion goes by the count: `DecidedKnown` says that
  who has decided to delete the row has seen or deletes every link to it, and `Held` that a row
  has a link which nobody is deleting, or somebody who has still to count or has decided; the last of any
  number of leavers therefore finds none.  `Kept`: the object is there until then.
* `WorkInv` is what holds of every request whatever its paths: what it has at each stage (`Shape`),
  and that a prune has its media for itself (`PruneAlone`).  Each lemma `...Step` describes one action
  once, for the requests, the rows and the links; the conjuncts of `PathOK` are then proved from these.

`StatesProofs` (for any states, localizations, frames, rows and deletions under way)

* `ShownPartsStay`: `Spec => []PartsStayAlive`.  A deletion decides on children that only its own
  row has, and deletes them when any number of requests have come between.  The invariant `Inv`
  adds to the types (`Typed`) that whoever has a localization is on record as a holder
  (`HoldersKnown`), and `LostIsSealed`: a state that has a localization which is deleted, or about
  to be, and not excused, has a deletion as the latest revision, and every revision made from that one is
  a deletion too, so that no state shows the localization.  `StepInv` goes through the operations; each operation on the
  table is an insert, an edit in place, a merge or a prune, whose effect on `Top`, the greatest mark,
  is stated by lemmas.
* `OwnChildrenGo`: `Spec => []ChildrenGo`.  The property speaks of a state that has one row and its
  deletion.  `Once` adds to `Inv` that the localizations of such a row, if only this state
  ever had them, are deleted, about to be, or excused (`OwnIsAway`), and why no later request
  gives it more of them: the deletion is the end of its branch (`DeletionIsLast`), so a PATCH
  or a merge reaches the deletion and not the row.
* `SegmentsAreRight`: `Spec => []SegmentsCover`.  `Cover` adds to `Once` that the segments of a shown
  row are what one of the two algorithms made of its localizations (`Segmented`): a PATCH that
  leaves the associations alone keeps the segments of POST, everything else that touches the
  associations runs `calc_segments`, and a row that is not shown and may have others is never shown
  again.  That both algorithms are right is proved of every finite set of localizations,
  with any number of them on one frame: `OrderedSeq` says that `Ordered` returns every value, in order; `RunsCover`
  that `calc_segments`, after so many frames, has covered just these and is in the run that ends with
  the last of them; `SplitCovers` that the pieces of `np.split` cover the frames, as between two
  starts the frames follow one another.  The inductions are by least counterexample (`LeastOf`),
  and `RunsAre` shows in this way that the recursive function `Runs` is what it says.  The assumption
  that `Locs` is finite is that of a database table.
* `TypeCorrect`: `Spec => []TypeOK`, which needs the same lemmas for the type of `segments`.

`UndoBufferProofs` (for any annotations, operations under way, failures and edits of others)

* `PrunesAreOwn`: `Spec => []OnlyOwnPruned`, for every user, also one who does not wait.  That an
  undo prunes by a primary key that an answer brought is not enough: the key is read from a
  buffer that answers in the wrong order have filled.  `OwnInv` says that each key that a prune in
  `fw`, in `bw`, or in a request under way can name is one of a revision made by this page
  (`OwnLists`, `OwnRequests`), and that what takes a PATCH back is the id of the
  revision which that PATCH made.  It does not matter which operation the key is filed under.
* What `EditingReturns` rests on.  The invariant `EditInv` is about a `sure` user: an
  edit is under way alone (`Alone`), and while editing is disabled, either the answer of some request
  under way will enable it (`Unmasks`: a creation, or an edit of a row that is there), or a PATCH was
  repeated and what is under way will not touch the list (`Still`).  The step of an undo or redo
  (`PerformEdit`) needs from `OwnInv` that a functor is always filed with a prune and never with a PATCH or a
  POST (`Paired`): else an undo could end with editing disabled and nothing to come.
* `TypesHold`: `Spec => []TypeOK`.  The invariant `TypeInv` adds the requests under way: what an answer
  brings is an id, and the answer to a question for the list is a set of entries whose ids
  differ (`Keyed`), which is what makes of it a list without duplicates and without holes (`ByIdIs`, by
  the rank of each entry).  The lemmas on `Place`, `WithEntry`, `WithPatch`, `WithoutEntry` and `ListAfter`
  say what each event does to a list.

`UndoExactProofs` (the same parameters, and any history of operations, undos and redos)

* `UndosAreExact`: `Spec => []UndoIsExact`; `ListIsCurrent`: `Spec => []ShownIsCurrent`.  Both are about a
  user who is still `sure`, and come from one invariant, `ExactInv`.
* The difficulty is that what an undo does is decided when its operation is made, and what it
  finds is decided by all the operations after that one and by how each of those was taken back: a
  prune takes a revision away, a PATCH adds one and leaves the older ones behind it, a POST gives the
  annotation another id, which `past` and all the operations are then told.  The invariant therefore
  speaks of what is due: the lists `f` and `b` and the table `t` that there will be when what is
  under way has been answered.
* `Core` says that these are in order.  It has a list `c` of what was there after each operation
  (`Contents` ties it to `past`).  Each operation that is not frail has a `Form`: it leads from
  one element of `c` to the next (`Step`), and its backward operation leads back.  Prunes that are
  to come are a chain: made from the position down, they leave in the table, without the revisions
  they take (`Rids`), what `c` says was there (`Below`), and each takes the latest revision
  of its annotation (`Tops`), so that none brings back anything but what the operation found.
  `Ahead` is about what can be repeated: its prunes were made, and the revision that a repeated
  deletion addresses is the latest of its annotation, or is pruned and cannot be found.
* The lemmas on `Core` are its life: a new operation (`NewOp`), a prune (`Below` is one shorter), a PATCH
  (`PlainUndone`), a POST (`DeletionUndone`, with `Renamed` for the new id), and a repeated operation
  (`Redone`).  After a PATCH the operations below are frail if a prune takes any of them back, as
  that prune would no longer hide the latest revision; after a POST they all are.  This is why a user
  who undoes one of those is no longer `sure`.
* `Stage` says how far the page is from what is due: a row is read first and may be gone when it
  arrives (`Reading`); a write is under way (`Writing`), a functor is to run, or the list is asked for.
  `Sees` says the same of the list.  Every step moves the stage on or leaves it (`StepExact`, from
  one lemma for each action; `UndoExact` and `RedoExact` are the long ones).
* `EditingReturns`: `Spec => []EditingComesBack`, from `EditInv` of `UndoBufferProofs` and `ExactInv`:
  what a `sure` user takes back or repeats is made in the project of the page (`PlainSent`), also
  after the creations in the buffer were given another address (`Readdressed`).

`ProjectPageProofs` (for any media, folders, page sizes and bounds)

* `DimmerIsLifted`, `LoadingIsOver`, `UrlIsTrue`: three properties of `ProjectPage`, with any number of
  loads, writes and dialogs that overlap.
* The argument.  Each says something of the moments when every request is answered, so the invariant
  says which request under way will see to it: a dimmed page has a dialog, or a request whose
  answer lights it (`Dimmed`); `Loading...` has a load (`Loading`); a filter that is not in the URL
  has the load that will put it there (`FilterTold`), which is a count first and then its list.  An answer that
  takes one away leaves another or does the work itself.  That a number is found for a new
  request (`Asking`) is not needed: the requests are a set, and the invariant counts none of them.
* `CardsKeepUp`: the cards are those of the server, for any order in which counts, lists,
  deletions, moves and edits are served and answered.  `Current` says why: a change was not followed by a
  load (`missed`); or a request under way will load once more (`Renews`: a count, a deletion,
  a write that the server has carried out), or is the newest list and asks for what is to be shown now, with
  today's answer if it has been served (`AsksNow`); or there is no newest list under way and the
  cards are those of the server.  A write changes the server under a list that was served before,
  and is itself the request that renews.  There is one newest list at most (`OneNewest`), so that the answer
  of another one, which may well be older, sets `latest` to false.
* `SelectionKeepsUp`: the ticks are those of the selection.  `Selection` needs three more facts:
  nothing is selected or ticked out of select mode (`Unpicked`), cards of one media are equal, so that
  one click ticks them all (`OneCard`), and a list says the same of a media wherever it has
  it (`Lists`), also one that was served before an edit.
* `TypesHold`: `Spec => []TypeOK`.  `Typed` adds what requests carry: a list is asked for with a
  range that is one, and what is moved goes to a folder.  The `n`-th number of a finite set is
  in it (`NthIsThere`: the ranks are an injection into as many numbers, so a surjection), which
  gives the pages and the cards their types, and says that all the cards of a load are that load
  (`OnlyAll`).

`ArchiveProofs` (for any media, objects, clones and multis, and any `MaxFaults`)

* `TypeCorrect`: `Spec => []TypeOK`, for any set of requests and commands under way.
* `AloneMatches`, `AloneClones`, `AloneMultis`: the three safety properties of the runs, under the
  assumption `Procs = {p}`: requests and commands come one after the other.  With two
  of them an UPDATE by ids that were read before breaks each, as said above.
* The argument.  What a command will write is decided long before it writes, so the invariant
  `Inv` follows the media through its hands (`Underway`): one still to come is due and its objects
  are where its state says (`Settled`); of one at hand the objects that are done are where the
  command brings them (`After`), the others where it found them (`Before`); one down for the
  UPDATE has all of them there, and no other media has been touched.  `CommandPlaces` says
  that the places after a command are those of the state it writes, `PlacesDrift` that the store
  keeps to them.  For clones, `Pairs` says that an original and its clones are in the
  same UPDATE; for multis, `RunFits` that a multi down for an UPDATE to live has no member that is
  not.  `InvStep` goes through the actions, one lemma for each.

Only model-checked: the liveness properties (`Completion`, `ArchiveIsCarriedOut`,
`RestoreIsCarriedOut`), which are beyond the prover.

## 5. Not modelled

In the modelled parts: the age-based physical removal of pruned rows; the media of a state;
`segment_info`, generic files and a backup bucket; in the browser, the extra operations of track edits,
PATCH of media by the undo buffer, several versions; on the project page the first load from
the URL, sorting, uploads, algorithms, bookmarks, saved searches, applets, and folders within
folders, whose rename is a sequence of PATCHes that reaches only the folders directly inside.

Backups (`backup.py`) have state of their own and come next; of their hazards only the storage
classes are in `Archive`.  Jobs, uploads and generic files are calls to the cluster and to the
store with little state in this code.  Permissions, search and attribute queries are functions of
stored rows, computed in SQL.  Configuration rows and accounts are changed by one statement each.
The other pages of the front end (players, timelines, forms, exports), which make up most of its
lines, draw and collect input; `annotation-page.js` is modelled where it couples the undo buffer
with the lists and the mask.  `PROJECT.json` gives the reason for each component.
