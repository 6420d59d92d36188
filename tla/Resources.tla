----------------------------- MODULE Resources -----------------------------
(***************************************************************************)
(* Files of media: the entries in Media.media_files, the Resource rows     *)
(* that count who uses an object, and the objects in the store.            *)
(*                                                                         *)
(* A Resource names one object by its path and is attached to every media  *)
(* that uses it (clones share objects).  A request edits media_files in a  *)
(* transaction of its own and afterwards detaches, deletes or attaches     *)
(* resources in others; deleting the object in the store takes effect at   *)
(* once and is not undone when the transaction around it rolls back.       *)
(* Under READ COMMITTED every statement sees what is committed by then and *)
(* what its own transaction did; foreign keys are checked at the commit.   *)
(*                                                                         *)
(* One entry has one path here (`segment_info' of a streaming file is a    *)
(* second one, treated alike), no resource is backed up, and generic files *)
(* (File rows), which share the code, are left out.                        *)
(***************************************************************************)
EXTENDS Integers, FiniteSets

CONSTANTS
    Media,      \* the media there are or may be cloned
    Paths,      \* what an entry may name: keys in the object store, and
    URLs,       \* those of them that are links to somewhere else
    Owner,      \* Owner[a]: the media whose id is in the path a
    Slots,      \* places in media_files: a role and an index
    Rids,       \* primary keys of Resource rows; how many there are bounds the creations
    NoRid,
    Unused,     \* res[r] of a key not used yet
    Deleted,    \* res[r] of a deleted row
    Procs,      \* requests and commands being served
    Ops,        \* the operations in use, a subset of AllOps
    Crash,      \* may a request or a command die under way?
    Repost,     \* do clients register a path twice on one media?
    Watched,    \* the paths of which `spoilt' is kept
    SeedFiles,  \* SeedFiles[m]: the entries of m to begin with; no media, if it has none
    SeedRes     \* the Resource rows to begin with

AllOps == {"Post", "Patch", "DeleteFile", "Clone", "Hide", "Rewrite", "Prune"}

\* Those that attach nothing.
TearDownOps == {"DeleteFile", "Hide", "Rewrite", "Prune"}

Entries == Slots \X Paths

ASSUME ResourcesConstants ==
    /\ URLs \subseteq Paths
    /\ Owner \in [Paths -> Media]
    /\ NoRid \notin Rids
    /\ Unused \notin Paths /\ Deleted \notin Paths /\ Unused # Deleted
    /\ Ops \subseteq AllOps
    /\ Watched \subseteq Paths \ URLs
    /\ Crash \in BOOLEAN /\ Repost \in BOOLEAN
    /\ SeedFiles \in [Media -> SUBSET Entries]
    /\ SeedRes \in [Rids -> (Paths \ URLs) \cup {Unused}]
    /\ \A r, s \in Rids : SeedRes[r] = SeedRes[s] /\ SeedRes[r] # Unused => r = s

\* The media there are to begin with name no file twice; what they name has a
\* resource, and there is no resource that no media names.
ASSUME SeedsMatch ==
    /\ \A m \in Media : \A e, f \in SeedFiles[m] : e[2] = f[2] => e = f
    /\ \A m \in Media : \A e \in SeedFiles[m] : e[2] \notin URLs => \E r \in Rids : SeedRes[r] = e[2]
    /\ \A r \in Rids : SeedRes[r] # Unused =>
          \E m \in Media : \E e \in SeedFiles[m] : e[2] = SeedRes[r]

VARIABLES
    media,   \* media[m]: "free" (no row yet), "live", "hidden" (deleted = TRUE), "pruned"
    files,   \* files[m]: the entries in media_files
    stored,  \* the objects in the store
    res,     \* res[r]: the path of Resource row r
    link,    \* the many-to-many rows <<resource, media>>
    job,     \* job[p]: where the request p stands
    spoilt   \* history: watched paths on which a request died or got in another's way

vars == <<media, files, stored, res, link, job, spoilt>>

Stages == {"save", "detach", "find", "count", "cascade", "remove", "commit", "attach", "link"}

Idle == [stage |-> "idle", cut |-> {}, rows |-> {}]

Links == Rids \X Media

Job == [stage : Stages,
        op    : AllOps,
        media : Media,
        old   : SUBSET Entries,         \* media_files as the request read it
        drop  : SUBSET Paths,           \* the resources it has still to delete
        add   : SUBSET Paths,           \* the resources it has still to attach
        path  : Paths \cup {Unused},     \* the one at hand, with its row
        rid   : Rids \cup {NoRid},
        cut   : SUBSET Links,           \* what its open transaction has deleted
        rows  : SUBSET Rids]

TypeOK ==
    /\ media \in [Media -> {"free", "live", "hidden", "pruned"}]
    /\ files \in [Media -> SUBSET Entries]
    /\ stored \subseteq Paths
    /\ res \in [Rids -> Paths \cup {Unused, Deleted}]
    /\ link \subseteq Links
    /\ job \in [Procs -> {Idle} \cup Job]
    /\ \A p \in Procs : job[p].stage \in {"count", "cascade", "remove"} => job[p].rid \in Rids
    /\ spoilt \subseteq Watched

PathsIn(entries) == {e[2] : e \in entries}

Init ==
    /\ files = SeedFiles
    /\ media = [m \in Media |-> IF SeedFiles[m] = {} THEN "free" ELSE "live"]
    /\ res = SeedRes
    /\ link = {l \in Links : SeedRes[l[1]] \in PathsIn(SeedFiles[l[2]])}
    /\ stored = {SeedRes[r] : r \in Rids} \ {Unused}
    /\ job = [p \in Procs |-> Idle]
    /\ spoilt = {}

At(p, stage) == job[p].stage = stage

Finish(p) == job' = [job EXCEPT ![p] = Idle]

Others(p) == Procs \ {p}

\* Rows that an open transaction has deleted stay locked until it ends.
LinkLocked(p, l) == \E q \in Others(p) : l \in job[q].cut
RowLocked(p, r) == \E q \in Others(p) : r \in job[q].rows

\* media.delete() has the media's row locked.
Pruning(m) == \E p \in Procs : ~At(p, "idle") /\ job[p].op = "Prune" /\ job[p].media = m

WorkedOn(m) == \E p \in Procs : ~At(p, "idle") /\ job[p].media = m

\* The file endpoints find hidden media too.
Editable(m) == media[m] \in {"live", "hidden"} /\ ~Pruning(m)

(***************************************************************************)
(* History: the paths on which requests get in each other's way            *)
(***************************************************************************)
\* The paths to which p has still to attach its media, and those it drops: a prune lets
\* go of its media's paths at the end.
Attaching(p) ==
    IF At(p, "idle") THEN {}
    ELSE job[p].add \cup IF At(p, "link") THEN {job[p].path} ELSE {}
Leaving(p) ==
    IF At(p, "idle") THEN {}
    ELSE job[p].drop
         \cup (IF job[p].stage \in {"count", "cascade", "remove", "commit"} THEN {job[p].path} ELSE {})
         \cup (IF job[p].op = "Prune" THEN PathsIn(files[job[p].media]) ELSE {})
Concern(p) == Attaching(p) \cup Leaving(p)

\* p begins to attach a path that another request leaves, or the reverse: the one may
\* count users before the other is one.  Or two attach a path that has no resource yet,
\* which both may create.  Requests that leave the same path do not collide.
Collisions(p, attach, leave) ==
    {a \in attach : \E q \in Others(p) : a \in Leaving(q)}
    \cup {a \in leave : \E q \in Others(p) : a \in Attaching(q)}
    \cup {a \in attach : /\ \E q \in Others(p) : a \in Attaching(q)
                         /\ \A r \in Rids : res[r] # a}

Spoils(S) == spoilt' = spoilt \cup (S \cap Watched)

\* A client that registers a path again on the same media spoils it, too.
Start(p, stage, op, m, old, drop, add) ==
    /\ job' = [job EXCEPT ![p] =
                  [stage |-> stage, op |-> op, media |-> m, old |-> old, drop |-> drop,
                   add |-> add, path |-> Unused, rid |-> NoRid, cut |-> {}, rows |-> {}]]
    /\ Spoils(Collisions(p, add, drop)
              \cup IF op \in {"Post", "Patch"} THEN add \cap PathsIn(files[m]) ELSE {})

(***************************************************************************)
(* The object store                                                        *)
(***************************************************************************)
\* A client uploads an object with a presigned URL, before it registers it.
Upload ==
    /\ Ops \cap {"Post", "Patch"} # {}
    /\ \E a \in Paths \ URLs : stored' = stored \cup {a}
    /\ UNCHANGED <<media, files, res, link, job, spoilt>>

(***************************************************************************)
(* Requests: the first transaction, which edits the media row              *)
(***************************************************************************)
\* A path a client may register on m: one that has the media's prefix and is
\* uploaded, or a link, of which nothing is checked.
Registrable(m, a) ==
    /\ a \in URLs \/ (Owner[a] = m /\ a \in stored)
    /\ Repost \/ a \notin PathsIn(files[m])

\* A link is registered with reference_only = 1, and then nothing is attached.
PostFile(p) ==
    /\ At(p, "idle") /\ "Post" \in Ops
    /\ \E m \in Media, s \in Slots, a \in Paths :
          /\ Editable(m)
          /\ Registrable(m, a)
          /\ s \notin {e[1] : e \in files[m]}
          /\ files' = [files EXCEPT ![m] = @ \cup {<<s, a>>}]
          /\ IF a \in URLs THEN UNCHANGED <<job, spoilt>>
             ELSE Start(p, "attach", "Post", m, {}, {}, {a})
    /\ UNCHANGED <<media, stored, res, link>>

\* Mutant: the media stays attached to the file that is replaced.
PatchFile_StaysAttached(p) ==
    /\ At(p, "idle") /\ "Patch" \in Ops
    /\ \E m \in Media, a \in Paths : \E e \in files[m] :
          /\ Editable(m)
          /\ Registrable(m, a)
          /\ e[2] # a
          /\ files' = [files EXCEPT ![m] = (@ \ {e}) \cup {<<e[1], a>>}]
          /\ Start(p, "attach", "Patch", m, {}, {}, {a})
    /\ UNCHANGED <<media, stored, res, link>>

PatchFile(p) ==
    /\ At(p, "idle") /\ "Patch" \in Ops
    /\ \E m \in Media, a \in Paths : \E e \in files[m] :
          /\ Editable(m)
          /\ Registrable(m, a)
          /\ e[2] # a
          /\ files' = [files EXCEPT ![m] = (@ \ {e}) \cup {<<e[1], a>>}]
          /\ Start(p, "detach", "Patch", m, {}, {e[2]}, {a})
    /\ UNCHANGED <<media, stored, res, link>>

DeleteFile(p) ==
    /\ At(p, "idle") /\ "DeleteFile" \in Ops
    /\ \E m \in Media : \E e \in files[m] :
          /\ Editable(m)
          /\ files' = [files EXCEPT ![m] = @ \ {e}]
          /\ Start(p, "detach", "DeleteFile", m, {}, {e[2]}, {})
    /\ UNCHANGED <<media, stored, res, link>>

\* A clone has a row of its own with the same entries; then it attaches them all.
Clone(p) ==
    /\ At(p, "idle") /\ "Clone" \in Ops
    /\ \E m, c \in Media :
          /\ media[m] = "live" /\ files[m] # {}
          /\ media[c] = "free"
          /\ media' = [media EXCEPT ![c] = "live"]
          /\ files' = [files EXCEPT ![c] = files[m]]
          /\ Start(p, "attach", "Clone", c, {}, {}, PathsIn(files[m]))
    /\ UNCHANGED <<stored, res, link>>

\* DELETE of a media, which hides it, and PATCH with `multi' or `live': both read
\* the row without a lock ...
ReadMedia(p) ==
    /\ At(p, "idle")
    /\ \E op \in Ops \cap {"Hide", "Rewrite"}, m \in Media :
          /\ media[m] = "live"
          /\ Start(p, "save", op, m, files[m], {}, {})
    /\ UNCHANGED <<media, files, stored, res, link>>

\* ... and write back the media_files they have read, over what was added or removed since.
SaveMedia(p) ==
    /\ At(p, "save")
    /\ LET m == job[p].media
       IN  /\ files' = [files EXCEPT ![m] = job[p].old]
           /\ media' = IF job[p].op = "Hide" THEN [media EXCEPT ![m] = "hidden"] ELSE media
           /\ Spoils((PathsIn(job[p].old) \ PathsIn(files[m]))
                     \cup (PathsIn(files[m]) \ PathsIn(job[p].old)))
    /\ Finish(p)
    /\ UNCHANGED <<stored, res, link>>

\* The prunemedia command deletes a hidden media: in one transaction its row, the
\* rows that attach resources to it, and then, in post_delete, its resources.  The
\* minimum age of 30 days outlasts the requests that were working on the media.
PruneMedia(p) ==
    /\ At(p, "idle") /\ "Prune" \in Ops
    /\ \E m \in Media :
          /\ media[m] = "hidden" /\ ~WorkedOn(m)
          /\ \A l \in link : l[2] = m => ~LinkLocked(p, l)
          /\ job' = [job EXCEPT ![p] =
                        [stage |-> "find", op |-> "Prune", media |-> m, old |-> {},
                         drop |-> PathsIn(files[m]), add |-> {}, path |-> Unused,
                         rid |-> NoRid, cut |-> {l \in link : l[2] = m}, rows |-> {}]]
          /\ Spoils(Collisions(p, {}, PathsIn(files[m])))
    /\ UNCHANGED <<media, files, stored, res, link>>

(***************************************************************************)
(* drop_media_from_resource and delete_resource                            *)
(***************************************************************************)
\* The rows of a path, as p sees the table: objects.get() raises unless there is one.
RowsOf(p, a) == {r \in Rids : res[r] = a} \ job[p].rows

\* What a request does once it is done with the path at hand: a prune goes on to
\* the next one, any other has at most paths to attach.
Proceed(j) ==
    IF j.op = "Prune" THEN [j EXCEPT !.stage = "find"] ELSE
    IF j.add = {} THEN Idle ELSE [j EXCEPT !.stage = "attach"]

\* Mutant: the media is detached, but the resource is not looked at.
Detach_Only(p) ==
    /\ At(p, "detach")
    /\ \E a \in job[p].drop :
          LET gone == {<<r, job[p].media>> : r \in RowsOf(p, a)}
          IN  link' = IF Cardinality(gone) = 1 THEN link \ gone ELSE link
    /\ job' = [job EXCEPT ![p] = Proceed([@ EXCEPT !.drop = {}])]
    /\ UNCHANGED <<media, files, stored, res, spoilt>>

Detach(p) ==
    /\ At(p, "detach")
    /\ \E a \in job[p].drop :
          LET gone == {<<r, job[p].media>> : r \in RowsOf(p, a)}
          IN  /\ \A l \in gone : ~LinkLocked(p, l)
              /\ link' = IF Cardinality(gone) = 1 THEN link \ gone ELSE link
    /\ job' = [job EXCEPT ![p].stage = "find"]
    /\ UNCHANGED <<media, files, stored, res, spoilt>>

\* Mutants: filter(path).first() in place of get(path); a path is never ticked off.
FindRow_First(p) ==
    /\ At(p, "find")
    /\ \E a \in job[p].drop, r \in Rids \cup {NoRid} :
          /\ IF RowsOf(p, a) = {} THEN r = NoRid ELSE r \in RowsOf(p, a)
          /\ job' = [job EXCEPT ![p] =
                        [@ EXCEPT !.stage = "count", !.drop = @ \ {a}, !.path = a, !.rid = r]]
    /\ UNCHANGED <<media, files, stored, res, link, spoilt>>
FindRow_Again(p) ==
    /\ At(p, "find")
    /\ \E a \in job[p].drop :
          \/ \E r \in RowsOf(p, a) :
                job' = [job EXCEPT ![p] = [@ EXCEPT !.stage = "count", !.path = a, !.rid = r]]
          \/ /\ Cardinality(RowsOf(p, a)) # 1
             /\ job' = [job EXCEPT ![p] = Proceed(@)]
    /\ UNCHANGED <<media, files, stored, res, link, spoilt>>

FindRow(p) ==
    /\ At(p, "find")
    /\ \E a \in job[p].drop :
          LET j == [job[p] EXCEPT !.drop = @ \ {a}]
          IN  \/ \E r \in RowsOf(p, a) :
                    /\ RowsOf(p, a) = {r}
                    /\ job' = [job EXCEPT ![p] =
                                  [j EXCEPT !.stage = "count", !.path = a, !.rid = r]]
              \/ /\ Cardinality(RowsOf(p, a)) # 1
                 /\ job' = [job EXCEPT ![p] = Proceed(j)]
    /\ UNCHANGED <<media, files, stored, res, link, spoilt>>

\* The users of the resource at hand, as p sees them.
Users(p) == {l \in link \ job[p].cut : l[1] = job[p].rid}

\* Mutant: nobody counts.
Count_Unchecked(p) ==
    /\ At(p, "count")
    /\ job' = [job EXCEPT ![p].stage = "cascade"]
    /\ UNCHANGED <<media, files, stored, res, link, spoilt>>

\* Spoils the path when all the users it counts are themselves being pruned, by
\* transactions that are open: they may have counted p's media, and nobody deletes.
Count(p) ==
    /\ At(p, "count")
    /\ job' = [job EXCEPT ![p] =
                  IF Users(p) # {} THEN Proceed(@) ELSE [@ EXCEPT !.stage = "cascade"]]
    /\ Spoils(IF Users(p) # {} /\ \A l \in Users(p) : LinkLocked(p, l) THEN {job[p].path}
              ELSE {})
    /\ UNCHANGED <<media, files, stored, res, link>>

\* obj.delete() first deletes the rows that refer to the resource ...
Cascade(p) ==
    /\ At(p, "cascade")
    /\ \A l \in Users(p) : ~LinkLocked(p, l)
    /\ job' = [job EXCEPT ![p].stage = "remove", ![p].cut = @ \cup Users(p)]
    /\ UNCHANGED <<media, files, stored, res, link, spoilt>>

\* ... then the resource, if it is still there; and the object is deleted.
Remove(p) ==
    /\ At(p, "remove")
    /\ ~RowLocked(p, job[p].rid)
    /\ stored' = stored \ {job[p].path}
    /\ job' = [job EXCEPT
                  ![p].rows = IF res[job[p].rid] = Deleted THEN @ ELSE @ \cup {job[p].rid},
                  ![p].stage = IF job[p].op = "Prune" THEN "find" ELSE "commit"]
    /\ UNCHANGED <<media, files, res, link, spoilt>>

\* The commit checks that nothing refers to the deleted resources, else it rolls
\* back; safe_delete() swallows the error, a prune ends with it.
Commit(p) ==
    /\ \/ At(p, "commit")
       \/ /\ At(p, "find") /\ job[p].op = "Prune"
          /\ job[p].drop = {}
    /\ LET j == job[p]
           ok == \A l \in link : l[1] \in j.rows => l \in j.cut
       IN  /\ res' = IF ok THEN [r \in Rids |-> IF r \in j.rows THEN Deleted ELSE res[r]] ELSE res
           /\ link' = IF ok THEN link \ j.cut ELSE link
           /\ media' = IF ok /\ j.op = "Prune" THEN [media EXCEPT ![j.media] = "pruned"]
                       ELSE media
           /\ files' = IF ok /\ j.op = "Prune" THEN [files EXCEPT ![j.media] = {}] ELSE files
           /\ job' = [job EXCEPT ![p] =
                         IF j.op = "Prune" THEN Idle
                         ELSE Proceed([j EXCEPT !.cut = {}, !.rows = {}])]
           /\ Spoils(IF ok THEN {} ELSE Concern(p))
    /\ UNCHANGED stored

(***************************************************************************)
(* add_resource                                                            *)
(***************************************************************************)
\* get_or_create: one row is taken, none will be created, more raise; so does a
\* link before any of it.
Attach(p) ==
    /\ At(p, "attach")
    /\ \E a \in job[p].add :
          LET j == [job[p] EXCEPT !.stage = "link", !.path = a, !.add = @ \ {a}]
          IN  \/ /\ a \notin URLs
                 /\ RowsOf(p, a) = {}
                 /\ job' = [job EXCEPT ![p] = [j EXCEPT !.rid = NoRid]]
                 /\ UNCHANGED spoilt
              \/ \E r \in RowsOf(p, a) :
                    /\ a \notin URLs
                    /\ RowsOf(p, a) = {r}
                    /\ job' = [job EXCEPT ![p] = [j EXCEPT !.rid = r]]
                    /\ UNCHANGED spoilt
              \/ /\ a \in URLs \/ Cardinality(RowsOf(p, a)) > 1
                 /\ Finish(p)
                 /\ Spoils(Concern(p))
    /\ UNCHANGED <<media, files, stored, res, link>>

\* The created row, with its link, is committed ...
LinkNew(p) ==
    /\ At(p, "link") /\ job[p].rid = NoRid
    /\ \E r \in Rids :
          /\ res[r] = Unused
          /\ res' = [res EXCEPT ![r] = job[p].path]
          /\ link' = link \cup {<<r, job[p].media>>}
    /\ job' = [job EXCEPT ![p] = Proceed(@)]
    /\ UNCHANGED <<media, files, stored, spoilt>>

\* Mutant: no foreign key.
LinkFound_Blind(p) ==
    /\ At(p, "link") /\ job[p].rid # NoRid
    /\ link' = link \cup {<<job[p].rid, job[p].media>>}
    /\ job' = [job EXCEPT ![p] = Proceed(@)]
    /\ UNCHANGED <<media, files, stored, res, spoilt>>

\* ... or the link to the row that was found, unless that is deleted by now: then
\* the foreign key fails, and the request with it.
LinkFound(p) ==
    /\ At(p, "link") /\ job[p].rid # NoRid
    /\ LET r == job[p].rid
           l == <<r, job[p].media>>
       IN  /\ ~RowLocked(p, r) /\ ~LinkLocked(p, l)
           /\ \/ /\ res[r] # Deleted
                 /\ link' = link \cup {l}
                 /\ job' = [job EXCEPT ![p] = Proceed(@)]
                 /\ UNCHANGED spoilt
              \/ /\ res[r] = Deleted
                 /\ Finish(p)
                 /\ Spoils(Concern(p))
                 /\ UNCHANGED link
    /\ UNCHANGED <<media, files, stored, res>>

\* Transactions that wait for each other's locks ...
WaitsFor(p, q) ==
    /\ p # q
    /\ \/ At(p, "cascade") /\ Users(p) \cap job[q].cut # {}
       \/ At(p, "remove") /\ job[p].rid \in job[q].rows
AllWait(S) == S # {} /\ \A p \in S : \E q \in S : WaitsFor(p, q)
Deadlocked(p) ==
    \E S \in SUBSET Procs : p \in S /\ AllWait(S) /\ \A T \in SUBSET S : AllWait(T) => T = S

\* What is left of p's open transaction when delete_resource() rolls back: all of it is
\* undone, or, in a prune, what came after the savepoint; the media's links stay deleted.
BeforeSavepoint(j) ==
    IF j.op = "Prune" THEN {l \in j.cut : l[1] # j.rid \/ l[2] = j.media} ELSE {}

\* ... the database picks one of them.  Its delete_resource() rolls back, safe_delete()
\* swallows the error, and the request goes on: a prune to its next path, with the locks
\* it had before.
Victim(p) ==
    /\ Deadlocked(p)
    /\ job' = [job EXCEPT ![p] = Proceed([job[p] EXCEPT !.cut = BeforeSavepoint(job[p])])]
    /\ Spoils({job[p].path})
    /\ UNCHANGED <<media, files, stored, res, link>>

\* A worker is killed: its open transaction rolls back, and what it had still to do is
\* not done.
Abort(p) ==
    /\ Crash
    /\ ~At(p, "idle")
    /\ Finish(p)
    /\ Spoils(Concern(p))
    /\ UNCHANGED <<media, files, stored, res, link>>

Request(p) ==
    \/ PostFile(p) \/ PatchFile(p) \/ DeleteFile(p) \/ Clone(p)
    \/ ReadMedia(p) \/ PruneMedia(p)

Continue(p) ==
    \/ SaveMedia(p) \/ Detach(p) \/ FindRow(p) \/ Count(p) \/ Cascade(p) \/ Remove(p)
    \/ Commit(p) \/ Attach(p) \/ LinkNew(p) \/ LinkFound(p)

Next == Upload \/ \E p \in Procs : Request(p) \/ Continue(p) \/ Victim(p) \/ Abort(p)

Spec == Init /\ [][Next]_vars

\* A request that has begun goes on: its worker runs, and a lock it waits for is
\* handed out in the order of arrival; and deadlocks are found.
FairSpec ==
    Spec /\ \A p \in Procs : SF_vars(Continue(p)) /\ WF_vars(Victim(p))

(***************************************************************************)
(* Properties                                                              *)
(***************************************************************************)
UsedBy(m) == {res[l[1]] : l \in {k \in link : k[2] = m}}

\* A file that is attached to an undeleted media is in the store, whatever other
\* media that share it are doing, and wherever a request or a command died.
AttachedIsStored == \A m \in Media : media[m] = "live" => UsedBy(m) \subseteq stored

PathsOf(m) == PathsIn(files[m]) \ URLs

\* The paths on which no request died or got in the way of another.
Sound == Watched \ spoilt

\* What media_files of an undeleted media names is in the store, whoever else is
\* leaving it or attaching it.
EntryIsStored == \A m \in Media : media[m] = "live" => PathsOf(m) \cap Sound \subseteq stored

Quiet == \A p \in Procs : At(p, "idle")

\* With no request under way, what a media uses according to the resources is what
\* its media_files says: deletions will count the right users.
CountsAreRight == Quiet => \A m \in Media : UsedBy(m) \cap Sound = PathsOf(m) \cap Sound

\* With no request under way, every resource has a user: of the requests that leave a
\* file, however they overlap, one deletes it.
NothingLeaks == Quiet => \A r \in Rids : res[r] \in Sound => \E m \in Media : <<r, m>> \in link

\* Whatever races, no media stays attached to a resource that is gone.
LinksHaveRows == \A l \in link : res[l[1]] \in Paths

\* Every request that begins comes to an end, though prunes can wait for each other's
\* locks: after a request that died, a resource may have no user left but still a row,
\* and two prunes delete such rows in any order.
Completion == \A p \in Procs : ~At(p, "idle") ~> At(p, "idle")
=============================================================================
