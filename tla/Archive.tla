------------------------------ MODULE Archive ------------------------------
(***************************************************************************)
(* Archival and restoration of media.                                      *)
(*                                                                         *)
(* Users ask for a media to be archived or brought back by PATCHing its    *)
(* archive_state; three commands that cron starts carry the requests out.  *)
(* A command reads the media that are due at its start, works through      *)
(* their objects in the store one after the other, and writes the new      *)
(* state of all that succeeded in one UPDATE at its end.  Nothing is       *)
(* locked in between.  A clone shares the objects of its original, which   *)
(* decides for both; a multi has no objects and follows its members.       *)
(*                                                                         *)
(* The bucket is S3 without a backup bucket.  The commands run with        *)
(* --min_age_days 0, so a request is due at once.                          *)
(***************************************************************************)
EXTENDS Integers, FiniteSets

CONSTANTS
    Media,
    Original,    \* Original[m]: the media whose id is in the paths of m; m, if it is no clone
    Multis,      \* the media of dtype multi
    Members,     \* Members[m]: the ids in media_files of the multi m
    Objects,     \* what the store holds
    ObjectsOf,   \* ObjectsOf[m]: those that media_files of m names under an archivable key
    Bare,        \* the media whose media_files is empty
    Uncloned,    \* the clones that are still to be made
    Procs,       \* requests and commands under way
    Deletable,   \* do users delete media?
    MaxFaults    \* bound on commands that die and operations of the store that fail

Commands == {"archivemedia", "requestrestoration", "finishrestoration"}

ClonesOf(m) == {c \in Media \ {m} : Original[c] = m}

ASSUME ArchiveConstants ==
    /\ Multis \subseteq Media
    /\ Original \in [Media -> Media]
    /\ \A m \in Media : Original[Original[m]] = Original[m]
    /\ Members \in [Media -> SUBSET (Media \ Multis)]
    /\ \A m \in Media \ Multis : Members[m] = {}
    /\ \A m \in Multis : Members[m] \cap Uncloned = {}
    /\ ObjectsOf \in [Media -> SUBSET Objects]
    /\ \A m \in Media : ObjectsOf[m] = ObjectsOf[Original[m]]
    /\ \A m, n \in Media : ObjectsOf[m] \cap ObjectsOf[n] # {} => Original[m] = Original[n]
    /\ \A m \in Multis : Original[m] = m /\ ObjectsOf[m] = {} /\ ClonesOf(m) = {}
    /\ Bare \subseteq Media \ Multis /\ \A m \in Bare : ObjectsOf[m] = {}
    /\ \A c \in Uncloned : c \in Media /\ Original[c] # c
    /\ Deletable \in BOOLEAN
    /\ MaxFaults \in Nat

VARIABLES
    row,        \* row[m]: "none" yet, "kept", "hidden" (deleted = TRUE) or "pruned"
    state,      \* state[m]: archive_state
    requested,  \* requested[m]: restoration_requested
    object,     \* object[o]: where the object o of the store is
    job,        \* job[p]: where the request or command p stands
    faults      \* how many have happened

vars == <<row, state, requested, object, job, faults>>

States == {"live", "to_archive", "archived", "to_live"}

\* An object is live, tagged so that a rule of the bucket archives it, archived, being
\* restored, or restored for the time being beside its archived copy.
Places == {"live", "tagged", "archived", "restoring", "restored"}

Idle == [stage |-> "idle"]

Write == [stage : {"write"}, media : SUBSET Media, next : States]

Run == [stage : {"singles", "objects", "multis"},
        cmd     : Commands,
        todo    : SUBSET Media,      \* of the media it has read, those still to come
        group   : SUBSET Media,      \* the one at hand and its clones,
        objects : SUBSET Objects,    \* with the objects still to come
        updated : SUBSET Media]      \* the ids for the UPDATE at the end

TypeOK ==
    /\ row \in [Media -> {"none", "kept", "hidden", "pruned"}]
    /\ state \in [Media -> States]
    /\ requested \in [Media -> BOOLEAN]
    /\ object \in [Objects -> Places]
    /\ job \in [Procs -> {Idle} \cup Write \cup Run]
    /\ faults \in 0 .. MaxFaults

Init ==
    /\ row = [m \in Media |-> IF m \in Uncloned THEN "none" ELSE "kept"]
    /\ state = [m \in Media |-> "live"]
    /\ requested = [m \in Media |-> FALSE]
    /\ object = [o \in Objects |-> "live"]
    /\ job = [p \in Procs |-> Idle]
    /\ faults = 0

At(p, stage) == job[p].stage = stage

Finish(p) == job' = [job EXCEPT ![p] = Idle]

(***************************************************************************)
(* The store, which is not this code                                       *)
(***************************************************************************)
\* The rule of the bucket moves a tagged object to the archive storage class.
RuleArchives ==
    /\ \E o \in Objects : object[o] = "tagged" /\ object' = [object EXCEPT ![o] = "archived"]
    /\ UNCHANGED <<row, state, requested, job, faults>>

\* A restoration that was requested comes to its end.
Restored(o) ==
    /\ object[o] = "restoring"
    /\ object' = [object EXCEPT ![o] = "restored"]
    /\ UNCHANGED <<row, state, requested, job, faults>>

\* What an operation of a command makes of an object: Resource.archive_resource,
\* request_restoration and restore_resource.
Moved(cmd, place) ==
    CASE cmd = "archivemedia" /\ place = "live" -> "tagged"
      [] cmd = "requestrestoration" /\ place = "archived" -> "restoring"
      [] cmd = "finishrestoration" /\ place \in {"tagged", "restored"} -> "live"
      [] OTHER -> place

\* A restoration that is under way passes for a finished one.
Works_Ongoing(cmd, place) == cmd = "finishrestoration" => place # "archived"
\* What an earlier attempt has done already counts as a failure.
Works_TagOnce(cmd, place) ==
    /\ cmd = "archivemedia" => place = "live"
    /\ cmd = "finishrestoration" => place \in {"live", "tagged", "restored"}
Works_CopyOnce(cmd, place) == cmd = "finishrestoration" => place = "restored"

\* A restoration can be finished when it is complete, or was not needed.
Works(cmd, place) == cmd = "finishrestoration" => place \in {"live", "tagged", "restored"}

(***************************************************************************)
(* Users                                                                   *)
(***************************************************************************)
\* A wish without an entry is written as it stands.
NextState_Unchecked == {<<"to_archive", "live", "to_archive">>,
                        <<"to_archive", "archived", "none">>,
                        <<"to_live", "archived", "to_live">>,
                        <<"to_live", "to_archive", "live">>}

\* _get_next_archive_state: from the wish and the present state to the next one.
\* A wish without an entry changes nothing.
NextState == {<<"to_archive", "live", "to_archive">>,
              <<"to_live", "archived", "to_live">>,
              <<"to_live", "to_archive", "live">>}

\* PATCH reads the media without a lock ...
ReadState(p) ==
    /\ At(p, "idle")
    /\ \E m \in Media, n \in NextState :
          /\ row[m] = "kept"
          /\ state[m] = n[2]
          /\ job' = [job EXCEPT ![p] =
                        [stage |-> "write", media |-> {m} \cup Members[m], next |-> n[3]]]
    /\ UNCHANGED <<row, state, requested, object, faults>>

\* ... and writes the next state on it, and on the members of a multi whatever theirs is.
WriteState(p) ==
    /\ At(p, "write")
    /\ state' = [m \in Media |-> IF m \in job[p].media THEN job[p].next ELSE state[m]]
    /\ Finish(p)
    /\ UNCHANGED <<row, requested, object, faults>>

\* A clone is a copy of the row.
Clone(p) ==
    /\ At(p, "idle")
    /\ \E c \in Media :
          /\ row[c] = "none"
          /\ row[Original[c]] = "kept"
          /\ row' = [row EXCEPT ![c] = "kept"]
          /\ state' = [state EXCEPT ![c] = state[Original[c]]]
          /\ requested' = [requested EXCEPT ![c] = requested[Original[c]]]
    /\ UNCHANGED <<object, job, faults>>

\* DELETE hides a media.
Delete(p) ==
    /\ Deletable
    /\ At(p, "idle")
    /\ \E m \in Media : row[m] = "kept" /\ row' = [row EXCEPT ![m] = "hidden"]
    /\ UNCHANGED <<state, requested, object, job, faults>>

\* prunemedia removes what was hidden for 30 days, when nothing is at work on it any more.
Prune ==
    /\ \A p \in Procs : At(p, "idle")
    /\ \E m \in Media : row[m] = "hidden" /\ row' = [row EXCEPT ![m] = "pruned"]
    /\ UNCHANGED <<state, requested, object, job, faults>>

(***************************************************************************)
(* The commands                                                            *)
(***************************************************************************)
\* The filter of each command, and the state it brings its media to.
Selects(cmd, m) ==
    /\ row[m] = "kept"
    /\ CASE cmd = "archivemedia" -> state[m] = "to_archive"
         [] cmd = "requestrestoration" -> state[m] = "to_live" /\ ~requested[m]
         [] OTHER -> state[m] = "to_live" /\ requested[m]

TargetState(cmd) ==
    CASE cmd = "archivemedia" -> "archived"
      [] cmd = "requestrestoration" -> "to_live"
      [] OTHER -> "live"

TargetRequested(cmd) == cmd = "requestrestoration"

Singles(cmd) == {m \in Media \ Multis : Selects(cmd, m)}

Multiples(cmd) == {m \in Multis : Selects(cmd, m)}

\* Cron starts a command once a day; it is done with it the day after.
Begin(p, cmd) ==
    /\ At(p, "idle")
    /\ \A q \in Procs : job[q].stage \in {"singles", "objects", "multis"} => job[q].cmd # cmd
    /\ Singles(cmd) \cup Multiples(cmd) # {}
    /\ job' = [job EXCEPT ![p] = [stage |-> "singles", cmd |-> cmd, todo |-> Singles(cmd),
                                  group |-> {}, objects |-> {}, updated |-> {}]]
    /\ UNCHANGED <<row, state, requested, object, faults>>

\* Those that still have a row, which one in the bin does.
Present(S) == {m \in S : row[m] \in {"kept", "hidden"}}

Skip(p, m) == job' = [job EXCEPT ![p].todo = @ \ {m}]

\* A media without files is saved in its new state, and that is all.
VisitEmpty(p) ==
    /\ At(p, "singles")
    /\ \E m \in job[p].todo :
          /\ m \in Bare
          /\ state' = [state EXCEPT ![m] = TargetState(job[p].cmd)]
          /\ Skip(p, m)
    /\ UNCHANGED <<row, requested, object, faults>>

\* A media that has files, a thumbnail say, but none to move: it is its own original, and
\* down for the UPDATE.
VisitUnmoved(p) ==
    /\ At(p, "singles")
    /\ \E m \in job[p].todo :
          /\ m \notin Bare /\ ObjectsOf[m] = {}
          /\ job' = [job EXCEPT ![p] = [job[p] EXCEPT !.todo = @ \ {m}, !.updated = @ \cup {m}]]
    /\ UNCHANGED <<row, state, requested, object, faults>>

\* get_clone_info raises when the original is gone; the command ends with it.
VisitOrphan(p) ==
    /\ At(p, "singles")
    /\ \E m \in job[p].todo : ObjectsOf[m] # {} /\ row[Original[m]] = "pruned"
    /\ Finish(p)
    /\ UNCHANGED <<row, state, requested, object, faults>>

\* A clone follows when its original is there already; else it is skipped.
VisitClone(p) ==
    /\ At(p, "singles")
    /\ \E m \in job[p].todo :
          LET cmd == job[p].cmd
              o   == Original[m]
          IN  /\ o # m /\ ObjectsOf[m] # {} /\ row[o] # "pruned"
              /\ IF state[o] = TargetState(cmd) /\ requested[o] = TargetRequested(cmd)
                 THEN /\ state' = [state EXCEPT ![m] = TargetState(cmd)]
                      /\ requested' = [requested EXCEPT ![m] = TargetRequested(cmd)]
                 ELSE UNCHANGED <<state, requested>>
              /\ Skip(p, m)
    /\ UNCHANGED <<row, object, faults>>

\* The clones are forgotten.
VisitOriginal_Alone(p) ==
    /\ At(p, "singles")
    /\ \E m \in job[p].todo :
          /\ Original[m] = m /\ ObjectsOf[m] # {}
          /\ job' = [job EXCEPT ![p] =
                [job[p] EXCEPT !.stage = "objects", !.todo = @ \ {m}, !.objects = ObjectsOf[m],
                               !.group = {m}]]
    /\ UNCHANGED <<row, state, requested, object, faults>>

\* The operation of the command goes to the objects of an original; its clones are read
\* before, to follow it if that succeeds.
VisitOriginal(p) ==
    /\ At(p, "singles")
    /\ \E m \in job[p].todo :
          /\ Original[m] = m /\ ObjectsOf[m] # {}
          /\ job' = [job EXCEPT ![p] =
                [job[p] EXCEPT !.stage = "objects", !.todo = @ \ {m}, !.objects = ObjectsOf[m],
                               !.group = {m} \cup Present(ClonesOf(m))]]
    /\ UNCHANGED <<row, state, requested, object, faults>>

\* After the last object the media and its clones are down for the UPDATE.
MoveObject(p) ==
    /\ At(p, "objects")
    /\ \E o \in job[p].objects :
          /\ Works(job[p].cmd, object[o])
          /\ object' = [object EXCEPT ![o] = Moved(job[p].cmd, @)]
          /\ job' = [job EXCEPT ![p] =
                IF job[p].objects = {o}
                THEN [job[p] EXCEPT !.stage = "singles", !.objects = {}, !.group = {},
                                    !.updated = @ \cup job[p].group]
                ELSE [job[p] EXCEPT !.objects = @ \ {o}]]
    /\ UNCHANGED <<row, state, requested, faults>>

Fault == faults < MaxFaults /\ faults' = faults + 1

\* An object is not ready, or the store fails: the media is given up for this time.
GiveUp(p) ==
    /\ At(p, "objects")
    /\ \/ /\ \E o \in job[p].objects : ~Works(job[p].cmd, object[o])
          /\ UNCHANGED faults
       \/ Fault
    /\ job' = [job EXCEPT ![p] = [job[p] EXCEPT !.stage = "singles", !.objects = {}, !.group = {}]]
    /\ UNCHANGED <<row, state, requested, object>>

\* The UPDATE by primary key, whatever the state is by now.
Update(p) ==
    LET j == job[p]
    IN  /\ state' = [m \in Media |->
                       IF m \in j.updated THEN TargetState(j.cmd) ELSE state[m]]
        /\ requested' = [m \in Media |->
                           IF m \in j.updated THEN TargetRequested(j.cmd) ELSE requested[m]]

\* The multis are read when the singles are done.
EndSingles(p) ==
    /\ At(p, "singles") /\ job[p].todo = {}
    /\ Update(p)
    /\ job' = [job EXCEPT ![p].stage = "multis", ![p].updated = {},
                          ![p].todo = Multiples(job[p].cmd)]
    /\ UNCHANGED <<row, object, faults>>

\* any() for all()
MembersAllow_Any(cmd, m) ==
    LET Is(s, next, request) == state[s] = next /\ requested[s] = request
    IN  \E s \in Present(Members[m]) :
            CASE cmd = "archivemedia" -> Is(s, "archived", FALSE)
              [] cmd = "requestrestoration" -> Is(s, "to_live", TRUE) \/ Is(s, "live", FALSE)
              [] cmd = "finishrestoration" -> Is(s, "live", FALSE)

\* May a multi take the target state?  Its members are looked up again.
MembersAllow(cmd, m) ==
    LET present == Present(Members[m])
        Is(s, next, request) == state[s] = next /\ requested[s] = request
    IN  CASE cmd = "archivemedia" -> \E s \in present : Is(s, "archived", FALSE)
          [] cmd = "requestrestoration" ->
               \A s \in present : Is(s, "to_live", TRUE) \/ Is(s, "live", FALSE)
          [] cmd = "finishrestoration" -> \A s \in present : Is(s, "live", FALSE)

VisitMulti(p) ==
    /\ At(p, "multis")
    /\ \E m \in job[p].todo :
          job' = [job EXCEPT ![p] =
              [job[p] EXCEPT !.todo = @ \ {m},
                             !.updated = IF MembersAllow(job[p].cmd, m) THEN @ \cup {m} ELSE @]]
    /\ UNCHANGED <<row, state, requested, object, faults>>

EndMultis(p) ==
    /\ At(p, "multis") /\ job[p].todo = {}
    /\ Update(p)
    /\ Finish(p)
    /\ UNCHANGED <<row, object, faults>>

\* A request or a command dies; what it has written stays.
Die(p) ==
    /\ ~At(p, "idle")
    /\ Fault
    /\ Finish(p)
    /\ UNCHANGED <<row, state, requested, object>>

Continue(p) ==
    \/ WriteState(p)
    \/ VisitEmpty(p) \/ VisitUnmoved(p) \/ VisitOrphan(p) \/ VisitClone(p) \/ VisitOriginal(p)
    \/ MoveObject(p) \/ GiveUp(p) \/ EndSingles(p)
    \/ VisitMulti(p) \/ EndMultis(p)

Next ==
    \/ RuleArchives
    \/ \E o \in Objects : Restored(o)
    \/ Prune
    \/ \E p \in Procs :
          \/ ReadState(p) \/ Clone(p) \/ Delete(p)
          \/ \E cmd \in Commands : Begin(p, cmd)
          \/ Continue(p)
          \/ Die(p)

Spec == Init /\ [][Next]_vars

\* Cron starts every command again and again, whatever users do meanwhile; what has been
\* started goes on; the store completes what it is asked for.
FairSpec ==
    /\ Spec
    /\ \A cmd \in Commands : SF_vars(\E p \in Procs : Begin(p, cmd))
    /\ \A p \in Procs : WF_vars(Continue(p))
    /\ \A o \in Objects : WF_vars(Restored(o))

-----------------------------------------------------------------------------
(***************************************************************************)
(* Properties                                                              *)
(***************************************************************************)
Quiet == \A p \in Procs : At(p, "idle")

\* The media whose requests move objects.
Movers == {m \in Media : Original[m] = m /\ ObjectsOf[m] # {}}

\* The media with files of their own, to move or not.
Filed == {m \in Media \ (Multis \cup Bare) : Original[m] = m}

\* A PATCH of a multi rewrites its members, whatever their state.
Rewritten == UNION {Members[m] : m \in Multis}

\* No clone has lost its original.
NoOrphans == \A m \in Media : row[m] = "pruned" => ClonesOf(m) = {}

\* When no command is at work, the objects of a media are where its archive_state says.  A
\* media that is "live" or waits to be archived has no object that is, or is about to be,
\* in the archive; one that is "archived" has them all there.  What a command that died, or
\* a failure of the store, has left half done is excepted, and an orphan ends commands too.
StateMatchesObjects ==
    Quiet /\ faults = 0 /\ NoOrphans =>
        \A m \in Movers \ Rewritten :
            LET places == {object[o] : o \in ObjectsOf[m]}
            IN  CASE state[m] \in {"live", "to_archive"} -> places = {"live"}
                  [] state[m] = "archived" -> places \subseteq {"tagged", "archived"}
                  [] OTHER -> ~requested[m] => places \subseteq {"tagged", "archived"}

\* A clone that is settled, live or archived, is on the side of its original, which is the
\* one whose requests move the objects, however the requests on the two are mixed and
\* whatever dies or fails.
ClonesFollow ==
    Quiet =>
        \A c \in Media \ Rewritten :
            LET o == Original[c]
            IN  row[c] = "kept" /\ o \in Movers \ (Rewritten \cup {c}) =>
                    CASE state[c] = "live" -> state[o] \in {"live", "to_archive"}
                      [] state[c] = "archived" ->
                           state[o] \in {"archived", "to_live"} /\ ~requested[o]
                      [] OTHER -> TRUE

\* No step makes a multi live that was to be restored while one of its members is not.
MultisWaitForMembers ==
    [][\A m \in Multis : state[m] = "to_live" /\ state'[m] = "live" =>
            \A s \in Members[m] : state[s] = "live" \/ row[s] = "pruned"]_vars

\* A request to archive a media with files is carried out, or withdrawn, in the end, although commands die or
\* fail, other media need attention, and users change their minds.
ArchiveIsCarriedOut == \A m \in Filed : state[m] = "to_archive" ~> state[m] # "to_archive"

\* The restoration was asked of an object that was not in the archive yet, and is now.
Lost(m) == requested[m] /\ \E o \in ObjectsOf[m] : object[o] = "archived"

\* A request to restore is carried out in the end as well, unless it is rewritten through a
\* multi; only a lost object can prevent it.
RestoreIsCarriedOut ==
    \A m \in Filed :
        state[m] = "to_live" ~> \/ state[m] = "live"
                               \/ (m \in Rewritten /\ state[m] # "to_live")
                               \/ Lost(m)

\* "Finalizes the restoration of any media files with restoration_requested == True."
RestoreIsFinalized ==
    \A m \in Movers : state[m] = "to_live" /\ requested[m] ~> state[m] = "live"
=============================================================================
