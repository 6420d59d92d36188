--------------------------- MODULE ArchiveProofs ---------------------------
(***************************************************************************)
(* Proofs about Archive, for every set of media and objects: the types for *)
(* any number of processes, and for requests and commands that come one    *)
(* after the other, what module Archive says of objects, clones and multis.*)
(***************************************************************************)
EXTENDS Archive, TLAPS

(***************************************************************************)
(* The invariant                                                           *)
(***************************************************************************)
\* Media that decide for objects, and whose archive_state only they change.
Own == Movers \ Rewritten

Steps == {<<"live", "to_archive">>, <<"archived", "to_live">>, <<"to_archive", "live">>}

WriteFits(j) ==
    \E m \in Media : j.media = {m} \cup Members[m] /\ <<state[m], j.next>> \in Steps

\* What a command has in hand in each stage.
RunFits(j) ==
    /\ j.stage \in {"singles", "objects"} =>
          /\ (j.todo \cup j.updated) \cap Multis = {}
          /\ \A m \in j.todo : row[m] = "kept"
    /\ j.stage = "objects" =>
          \E m \in Movers :
              /\ j.group = {m} \cup Present(ClonesOf(m))
              /\ j.objects # {} /\ j.objects \subseteq ObjectsOf[m]
    /\ j.stage # "objects" => j.group = {} /\ j.objects = {}
    /\ j.stage = "multis" =>
          /\ j.todo \cup j.updated \subseteq Multis
          /\ j.cmd = "finishrestoration" =>
                \A m \in j.updated : \A s \in Members[m] : state[s] = "live" \/ row[s] = "pruned"

Fits(p) ==
    /\ At(p, "write") => WriteFits(job[p])
    /\ job[p] \in Run => RunFits(job[p])

\* Only clones come later.
LaterIsClone == \A m \in Media : row[m] = "none" => m \in Uncloned

\* restoration_requested goes with to_live.
Asked == \A m \in Own : state[m] # "to_live" => ~requested[m]

\* A clone is on the side of its original, and is in the same UPDATE.
Paired(c, o) ==
    /\ state[c] \in {"live", "to_archive"} => state[o] \in {"live", "to_archive"}
    /\ state[c] = "archived" => state[o] \in {"archived", "to_live"} /\ ~requested[o]

Pairs(p) ==
    \A o \in Own : \A c \in Present(ClonesOf(o)) \ Rewritten :
        /\ Paired(c, o)
        /\ job[p] \in Run => (o \in job[p].updated <=> c \in job[p].updated)

\* Where the objects of a media may be, as its archive_state says, ...
PlacesFor(st, asked) ==
    CASE st \in {"live", "to_archive"} -> {"live"}
      [] st = "archived" \/ (st = "to_live" /\ ~asked) -> {"tagged", "archived"}
      [] OTHER -> Places

\* ... before a command moves them, and after it.
Before(cmd) ==
    CASE cmd = "archivemedia" -> {"live"}
      [] cmd = "requestrestoration" -> {"tagged", "archived"}
      [] OTHER -> Places
After(cmd) ==
    CASE cmd = "archivemedia" -> {"tagged", "archived"}
      [] cmd = "requestrestoration" -> Places
      [] OTHER -> {"live"}

Within(m, places) == \A o \in ObjectsOf[m] : object[o] \in places

Settled(m) == Within(m, PlacesFor(state[m], requested[m]))

Due(cmd, m) ==
    CASE cmd = "archivemedia" -> state[m] = "to_archive"
      [] cmd = "requestrestoration" -> state[m] = "to_live" /\ ~requested[m]
      [] OTHER -> state[m] = "to_live" /\ requested[m]

\* Where the objects of m are while the command j is at work.
Underway(j, m) ==
    /\ m \in j.todo => Due(j.cmd, m) /\ Settled(m) /\ m \notin j.group \cup j.updated
    /\ m \in j.group =>
          /\ Due(j.cmd, m) /\ m \notin j.updated
          /\ \A o \in ObjectsOf[m] \ j.objects : object[o] \in After(j.cmd)
          /\ \A o \in j.objects : object[o] \in Before(j.cmd)
    /\ m \in j.updated => Within(m, After(j.cmd))
    /\ m \notin j.todo \cup j.group \cup j.updated => Settled(m)

ObjectsFollow(p) ==
    faults = 0 /\ NoOrphans =>
        \A m \in Own : IF job[p] \in Run THEN Underway(job[p], m) ELSE Settled(m)

Inv(p) == Fits(p) /\ LaterIsClone /\ Asked /\ Pairs(p) /\ ObjectsFollow(p)

(***************************************************************************)
(* Types                                                                   *)
(***************************************************************************)
LEMMA IdleIsNoRun ==
    ASSUME NEW j \in Run \cup Write \cup {Idle}
    PROVE  /\ j.stage \in {"idle", "write", "singles", "objects", "multis"}
           /\ j.stage = "idle" => j = Idle
           /\ j.stage = "write" => j \in Write
           /\ j.stage \in {"singles", "objects", "multis"} <=> j \in Run
<1>1. CASE j \in Run
  BY <1>1 DEF Run, Write, Idle
<1>2. CASE j \in Write
  BY <1>2 DEF Run, Write, Idle
<1>3. CASE j = Idle
  BY <1>3 DEF Run, Write, Idle
<1>4. QED
  BY <1>1, <1>2, <1>3

LEMMA TypeStep == TypeOK /\ [Next]_vars => TypeOK'
<1> SUFFICES ASSUME TypeOK, [Next]_vars
             PROVE  TypeOK'
  OBVIOUS
<1> USE ArchiveConstants
<1>1. CASE RuleArchives
  BY <1>1 DEF TypeOK, RuleArchives, Places
<1>2. ASSUME NEW o \in Objects, Restored(o)
      PROVE  TypeOK'
  BY <1>2 DEF TypeOK, Restored, Places
<1>3. CASE Prune
  BY <1>3 DEF TypeOK, Prune
<1>4. ASSUME NEW p \in Procs, ReadState(p)
      PROVE  TypeOK'
  <2>1. PICK m \in Media, n \in NextState :
          job' = [job EXCEPT ![p] =
                    [stage |-> "write", media |-> {m} \cup Members[m], next |-> n[3]]]
    BY <1>4 DEF ReadState
  <2>2. n[3] \in States
    BY DEF NextState, States
  <2>3. {m} \cup Members[m] \in SUBSET Media
    OBVIOUS
  <2>4. [stage |-> "write", media |-> {m} \cup Members[m], next |-> n[3]] \in Write
    BY <2>2, <2>3 DEF Write
  <2>5. QED
    BY <1>4, <2>1, <2>4 DEF TypeOK, ReadState
<1>5. ASSUME NEW p \in Procs, WriteState(p)
      PROVE  TypeOK'
  <2>1. job[p] \in Write
    BY <1>5, IdleIsNoRun DEF TypeOK, WriteState, At
  <2>2. job[p].next \in States
    BY <2>1 DEF Write
  <2>3. QED
    BY <1>5, <2>2 DEF TypeOK, WriteState, Finish
<1>6. ASSUME NEW p \in Procs, Clone(p)
      PROVE  TypeOK'
  BY <1>6 DEF TypeOK, Clone
<1>7. ASSUME NEW p \in Procs, Delete(p)
      PROVE  TypeOK'
  BY <1>7 DEF TypeOK, Delete
<1>8. ASSUME NEW p \in Procs, NEW cmd \in Commands, Begin(p, cmd)
      PROVE  TypeOK'
  <2> DEFINE new == [stage |-> "singles", cmd |-> cmd, todo |-> Singles(cmd),
                     group |-> {}, objects |-> {}, updated |-> {}]
  <2>1. new \in Run
    BY DEF Run, Singles
  <2>2. job' = [job EXCEPT ![p] = new]
    BY <1>8 DEF Begin
  <2> HIDE DEF new
  <2>3. UNCHANGED <<row, state, requested, object, faults>>
    BY <1>8 DEF Begin
  <2>4. QED
    BY <2>1, <2>2, <2>3 DEF TypeOK
<1>9. ASSUME NEW p \in Procs, Continue(p), ~WriteState(p)
      PROVE  TypeOK'
  <2>1. At(p, "singles") \/ At(p, "objects") \/ At(p, "multis")
    BY <1>9 DEF Continue, VisitEmpty, VisitUnmoved, VisitOrphan, VisitClone, VisitOriginal, MoveObject,
                GiveUp, EndSingles, VisitMulti, EndMultis
  <2>2. job[p] \in Run
    BY <2>1, IdleIsNoRun DEF TypeOK, At
  <2>3. TargetState(job[p].cmd) \in States /\ TargetRequested(job[p].cmd) \in BOOLEAN
    BY DEF TargetState, TargetRequested, States
  <2>4. CASE VisitEmpty(p)
    <3>1. PICK m \in Media :
            /\ state' = [state EXCEPT ![m] = TargetState(job[p].cmd)]
            /\ job' = [job EXCEPT ![p].todo = @ \ {m}]
      BY <2>2, <2>4 DEF VisitEmpty, Skip, Run
    <3>2. [job[p] EXCEPT !.todo = @ \ {m}] \in Run
      BY <2>2 DEF Run
    <3>3. QED
      BY <2>3, <2>4, <3>1, <3>2 DEF TypeOK, VisitEmpty
  <2>5. CASE VisitOrphan(p)
    BY <2>5 DEF TypeOK, VisitOrphan, Finish
  <2>6. CASE VisitClone(p)
    <3>1. PICK m \in Media :
            /\ \/ UNCHANGED <<state, requested>>
               \/ /\ state' = [state EXCEPT ![m] = TargetState(job[p].cmd)]
                  /\ requested' = [requested EXCEPT ![m] = TargetRequested(job[p].cmd)]
            /\ job' = [job EXCEPT ![p].todo = @ \ {m}]
      BY <2>2, <2>6 DEF VisitClone, Skip, Run
    <3>2. [job[p] EXCEPT !.todo = @ \ {m}] \in Run
      BY <2>2 DEF Run
    <3>3. QED
      BY <2>3, <2>6, <3>1, <3>2 DEF TypeOK, VisitClone
  <2>7. CASE VisitOriginal(p)
    <3>1. PICK m \in job[p].todo :
            job' = [job EXCEPT ![p] =
                [job[p] EXCEPT !.stage = "objects", !.todo = @ \ {m}, !.objects = ObjectsOf[m],
                               !.group = {m} \cup Present(ClonesOf(m))]]
      BY <2>7 DEF VisitOriginal
    <3>2. m \in Media
      BY <2>2 DEF Run
    <3>3. [job[p] EXCEPT !.stage = "objects", !.todo = @ \ {m}, !.objects = ObjectsOf[m],
              !.group = {m} \cup Present(ClonesOf(m))] \in Run
      BY <2>2, <3>2 DEF Run, ClonesOf, Present
    <3>4. QED
      BY <2>7, <3>1, <3>3 DEF TypeOK, VisitOriginal
  <2>8. CASE MoveObject(p)
    <3>1. PICK o \in job[p].objects :
          /\ object' = [object EXCEPT ![o] = Moved(job[p].cmd, @)]
          /\ job' = [job EXCEPT ![p] =
                IF job[p].objects = {o}
                THEN [job[p] EXCEPT !.stage = "singles", !.objects = {}, !.group = {},
                                    !.updated = @ \cup job[p].group]
                ELSE [job[p] EXCEPT !.objects = @ \ {o}]]
      BY <2>8 DEF MoveObject
    <3>2. [job[p] EXCEPT !.stage = "singles", !.objects = {}, !.group = {},
                         !.updated = @ \cup job[p].group] \in Run
      BY <2>2 DEF Run
    <3>3. [job[p] EXCEPT !.objects = @ \ {o}] \in Run
      BY <2>2 DEF Run
    <3>4. job' \in [Procs -> {Idle} \cup Write \cup Run]
      BY <3>1, <3>2, <3>3 DEF TypeOK
    <3>5. object' \in [Objects -> Places]
      BY <3>1 DEF TypeOK, Moved, Places
    <3>6. QED
      BY <2>8, <3>4, <3>5 DEF TypeOK, MoveObject
  <2>9. CASE GiveUp(p)
    <3>1. [job[p] EXCEPT !.stage = "singles", !.objects = {}, !.group = {}] \in Run
      BY <2>2 DEF Run
    <3>2. faults' \in 0 .. MaxFaults
      BY <2>9 DEF GiveUp, Fault, TypeOK
    <3>3. QED
      BY <2>9, <3>1, <3>2 DEF TypeOK, GiveUp
  <2>10. CASE EndSingles(p)
    <3>1. [job[p] EXCEPT !.stage = "multis", !.updated = {}, !.todo = Multiples(job[p].cmd)]
            \in Run
      BY <2>2 DEF Run, Multiples
    <3>2. job' = [job EXCEPT ![p] =
                    [job[p] EXCEPT !.stage = "multis", !.updated = {},
                                   !.todo = Multiples(job[p].cmd)]]
      BY <2>10 DEF EndSingles, TypeOK
    <3>3. QED
      BY <2>3, <2>10, <3>1, <3>2 DEF TypeOK, EndSingles, Update
  <2>11. CASE VisitMulti(p)
    <3>1. PICK m \in job[p].todo :
            job' = [job EXCEPT ![p] =
                    [job[p] EXCEPT !.todo = @ \ {m},
                                   !.updated = IF MembersAllow(job[p].cmd, m) THEN @ \cup {m} ELSE @]]
      BY <2>11 DEF VisitMulti
    <3>2. m \in Media
      BY <2>2 DEF Run
    <3>3. [job[p] EXCEPT !.todo = @ \ {m},
              !.updated = IF MembersAllow(job[p].cmd, m) THEN @ \cup {m} ELSE @] \in Run
      BY <2>2, <3>2 DEF Run
    <3>4. QED
      BY <2>11, <3>1, <3>3 DEF TypeOK, VisitMulti
  <2>12. CASE EndMultis(p)
    BY <2>3, <2>12 DEF TypeOK, EndMultis, Update, Finish
  <2>13. CASE VisitUnmoved(p)
    <3>1. PICK m \in job[p].todo :
            job' = [job EXCEPT ![p] =
                    [job[p] EXCEPT !.todo = @ \ {m}, !.updated = @ \cup {m}]]
      BY <2>13 DEF VisitUnmoved
    <3>2. m \in Media
      BY <2>2 DEF Run
    <3>3. [job[p] EXCEPT !.todo = @ \ {m}, !.updated = @ \cup {m}] \in Run
      BY <2>2, <3>2 DEF Run
    <3>4. QED
      BY <2>13, <3>1, <3>3 DEF TypeOK, VisitUnmoved
  <2>14. QED
    BY <1>9, <2>4, <2>5, <2>6, <2>7, <2>8, <2>9, <2>10, <2>11, <2>12, <2>13 DEF Continue
<1>10. ASSUME NEW p \in Procs, Die(p)
       PROVE  TypeOK'
  BY <1>10 DEF TypeOK, Die, Fault, Finish
<1>11. CASE UNCHANGED vars
  BY <1>11 DEF TypeOK, vars
<1>12. QED
  BY <1>1, <1>2, <1>3, <1>4, <1>5, <1>6, <1>7, <1>8, <1>9, <1>10, <1>11 DEF Next

\* Every variable keeps its type, whatever number of requests and commands are under way.
THEOREM TypeCorrect == Spec => []TypeOK
<1>1. Init => TypeOK
  BY ArchiveConstants DEF Init, TypeOK, States, Places
<1>2. QED
  BY <1>1, TypeStep, PTL DEF Spec

(***************************************************************************)
(* Media, clones and places                                                *)
(***************************************************************************)
LEMMA MoversApart ==
    /\ \A m \in Movers :
          /\ m \in Media /\ Original[m] = m /\ ObjectsOf[m] # {} /\ m \notin Multis
          /\ m \notin Uncloned
          /\ \A c \in ClonesOf(m) :
                c \in Media /\ Original[c] = m /\ c # m /\ c \notin Multis /\ c \notin Movers
                /\ ObjectsOf[c] = ObjectsOf[m]
    /\ \A m, n \in Movers : m # n => ObjectsOf[m] \cap ObjectsOf[n] = {}
BY ArchiveConstants DEF Movers, ClonesOf

LEMMA NotRewritten ==
    ASSUME NEW n \in Media \ Rewritten
    PROVE  \A m \in Media : n \notin Members[m]
BY ArchiveConstants DEF Rewritten

LEMMA OwnIsMover == Own \subseteq Movers /\ Own \subseteq Media \ Rewritten
BY DEF Own, Movers

\* The orphans of before are orphans for ever.
LEMMA OrphansStay ==
    ASSUME \A m \in Media : row[m] = "pruned" => row'[m] = "pruned", NoOrphans'
    PROVE  NoOrphans
BY DEF NoOrphans, ClonesOf

\* What the store does on its own is within the places.
Drifts(places) ==
    /\ "tagged" \in places => "archived" \in places
    /\ "restoring" \in places => "restored" \in places

LEMMA PlacesDrift ==
    /\ \A st, asked : Drifts(PlacesFor(st, asked))
    /\ \A cmd : Drifts(Before(cmd)) /\ Drifts(After(cmd))
BY DEF Drifts, PlacesFor, Before, After, Places

\* What a command finds, what it makes of it, and what it writes down in the end agree.
LEMMA CommandPlaces ==
    ASSUME NEW cmd \in Commands, NEW m
    PROVE  /\ Due(cmd, m) => PlacesFor(state[m], requested[m]) \subseteq Before(cmd)
           /\ PlacesFor(TargetState(cmd), TargetRequested(cmd)) = After(cmd)
           /\ \A place \in Before(cmd) : Works(cmd, place) => Moved(cmd, place) \in After(cmd)
<1>1. cmd \in {"archivemedia", "requestrestoration", "finishrestoration"}
  BY DEF Commands
<1>2. Due(cmd, m) => PlacesFor(state[m], requested[m]) \subseteq Before(cmd)
  <2>1. CASE cmd = "archivemedia"
    BY <2>1 DEF Due, PlacesFor, Before
  <2>2. CASE cmd = "requestrestoration"
    BY <2>2 DEF Due, PlacesFor, Before
  <2>3. CASE cmd = "finishrestoration"
    BY <2>3 DEF Due, PlacesFor, Before
  <2>4. QED
    BY <1>1, <2>1, <2>2, <2>3
<1>3. PlacesFor(TargetState(cmd), TargetRequested(cmd)) = After(cmd)
  <2>1. CASE cmd = "archivemedia"
    <3>1. TargetState(cmd) = "archived"
      BY <2>1 DEF TargetState
    <3>2. QED
      BY <2>1, <3>1 DEF PlacesFor, After
  <2>2. CASE cmd = "requestrestoration"
    <3>1. TargetState(cmd) = "to_live" /\ TargetRequested(cmd)
      BY <2>2 DEF TargetState, TargetRequested
    <3>2. QED
      BY <2>2, <3>1 DEF PlacesFor, After
  <2>3. CASE cmd = "finishrestoration"
    <3>1. TargetState(cmd) = "live"
      BY <2>3 DEF TargetState
    <3>2. QED
      BY <2>3, <3>1 DEF PlacesFor, After
  <2>4. QED
    BY <1>1, <2>1, <2>2, <2>3
<1>4. ASSUME NEW place \in Before(cmd), Works(cmd, place)
      PROVE  Moved(cmd, place) \in After(cmd)
  <2>1. CASE cmd = "archivemedia"
    BY <1>4, <2>1 DEF Before, After, Moved
  <2>2. CASE cmd = "requestrestoration"
    BY <1>4, <2>2 DEF Before, After, Moved, Places
  <2>3. CASE cmd = "finishrestoration"
    BY <1>4, <2>3 DEF Before, After, Moved, Works
  <2>4. QED
    BY <1>1, <2>1, <2>2, <2>3
<1>5. QED
  BY <1>2, <1>3, <1>4

(***************************************************************************)
(* The invariant is kept: the store and the users                          *)
(***************************************************************************)
LEMMA IdleFits ==
    ASSUME NEW p \in Procs, job[p] = Idle
    PROVE  Fits(p) /\ job[p] \notin Run
<1>1. job[p].stage = "idle"
  BY DEF Idle
<1>2. job[p] \notin Run
  BY <1>1 DEF Run
<1>3. QED
  BY <1>1, <1>2 DEF Fits, At

LEMMA InitInv ==
    ASSUME NEW p \in Procs, Init
    PROVE  Inv(p)
<1> USE ArchiveConstants
<1>1. job[p] = Idle
  BY DEF Init
<1>2. Fits(p) /\ job[p] \notin Run
  BY <1>1, IdleFits
<1>3. LaterIsClone
  BY DEF Init, LaterIsClone
<1>4. \A m \in Media : state[m] = "live" /\ requested[m] = FALSE
  BY DEF Init
<1>5. Asked
  BY <1>4, OwnIsMover DEF Asked
<1>6. Pairs(p)
  BY <1>2, <1>4, OwnIsMover, MoversApart DEF Pairs, Paired, Present
<1>7. \A o \in Objects : object[o] = "live"
  BY DEF Init
<1>8. \A m \in Media : ObjectsOf[m] \subseteq Objects
  OBVIOUS
<1>9. \A m \in Media : PlacesFor(state[m], requested[m]) = {"live"}
  BY <1>4 DEF PlacesFor
<1>10. ObjectsFollow(p)
  BY <1>2, <1>7, <1>8, <1>9, OwnIsMover DEF ObjectsFollow, Settled, Within
<1>11. QED
  BY <1>2, <1>3, <1>5, <1>6, <1>10 DEF Inv

LEMMA StoreStep ==
    ASSUME NEW p \in Procs, TypeOK, Inv(p), RuleArchives \/ \E o \in Objects : Restored(o)
    PROVE  Inv(p)'
<1>1. UNCHANGED <<row, state, requested, job, faults>>
  BY DEF RuleArchives, Restored
<1>2. \A places : \A o \in Objects : Drifts(places) /\ object[o] \in places => object'[o] \in places
  BY DEF RuleArchives, Restored, Drifts, TypeOK
<1>3. \A m \in Media : ObjectsOf[m] \subseteq Objects
  BY ArchiveConstants
<1>4. Fits(p)' /\ LaterIsClone' /\ Asked' /\ Pairs(p)'
  BY <1>1 DEF Inv, Fits, WriteFits, RunFits, Present, At, LaterIsClone, Asked, Pairs, Paired
<1>5. ASSUME NEW m \in Own, Settled(m)
      PROVE  Settled(m)'
  <2> DEFINE places == PlacesFor(state[m], requested[m])
  <2>1. places' = places
    BY <1>1
  <2>2. Drifts(places) /\ \A o \in ObjectsOf[m] : object[o] \in places
    BY <1>5, PlacesDrift DEF Settled, Within
  <2> HIDE DEF places
  <2>3. \A o \in ObjectsOf[m] : object'[o] \in places
    BY <1>2, <1>3, <2>2, OwnIsMover
  <2>4. QED
    BY <2>1, <2>3 DEF Settled, Within, places
<1>6. ASSUME NEW m \in Own, job[p] \in Run, Underway(job[p], m)
      PROVE  Underway(job[p], m)'
  <2> DEFINE j == job[p]
  <2>1. j.objects \subseteq Objects /\ ObjectsOf[m] \subseteq Objects
    BY <1>3, <1>6, OwnIsMover DEF Run
  <2>2. job'[p] = j /\ Due(j.cmd, m)' = Due(j.cmd, m)
    BY <1>1 DEF Due
  <2>3. Drifts(Before(j.cmd)) /\ Drifts(After(j.cmd))
    BY PlacesDrift
  <2>4. Underway(j, m)
    BY <1>6
  <2> HIDE DEF j
  <2>5. Within(m, After(j.cmd)) => \A o \in ObjectsOf[m] : object'[o] \in After(j.cmd)
    BY <1>2, <2>1, <2>3 DEF Within
  <2>6. m \in j.group =>
          /\ \A o \in ObjectsOf[m] \ j.objects : object'[o] \in After(j.cmd)
          /\ \A o \in j.objects : object'[o] \in Before(j.cmd)
    BY <1>2, <2>1, <2>3, <2>4 DEF Underway
  <2>7. (Settled(m) => Settled(m)') /\ UNCHANGED <<state[m], requested[m]>>
    BY <1>1, <1>5
  <2>8. /\ m \in j.todo => Due(j.cmd, m)' /\ Settled(m)' /\ m \notin j.group \cup j.updated
        /\ m \in j.group => Due(j.cmd, m)' /\ m \notin j.updated
        /\ m \in j.updated => \A o \in ObjectsOf[m] : object'[o] \in After(j.cmd)
        /\ m \notin j.todo \cup j.group \cup j.updated => Settled(m)'
    BY <2>2, <2>4, <2>5, <2>7 DEF Underway
  <2>9. QED
    BY <2>2, <2>6, <2>8 DEF Underway, Within, j
<1>7. ObjectsFollow(p)'
  BY <1>1, <1>5, <1>6 DEF Inv, ObjectsFollow, NoOrphans
<1>8. QED
  BY <1>4, <1>7 DEF Inv

LEMMA RowStep ==
    ASSUME NEW p \in Procs, Procs = {p}, TypeOK, Inv(p), Prune \/ Delete(p)
    PROVE  Inv(p)'
<1>1. UNCHANGED <<state, requested, object, job, faults>>
  BY DEF Prune, Delete
<1>2. \A m \in Media : \/ row'[m] = row[m]
                       \/ row[m] = "kept" /\ row'[m] = "hidden"
                       \/ row[m] = "hidden" /\ row'[m] = "pruned"
  BY DEF Prune, Delete, TypeOK
<1>3. job[p] = Idle /\ job'[p] = Idle
  BY <1>1, IdleIsNoRun DEF Prune, Delete, TypeOK, At
<1>4. job[p] \notin Run /\ job'[p] \notin Run /\ Fits(p)'
  <2>1. job[p] \notin Run
    BY <1>3, IdleFits
  <2>2. job'[p].stage = "idle" /\ job'[p] \notin Run
    BY <1>3, <2>1 DEF Idle
  <2>3. QED
    BY <2>1, <2>2 DEF Fits, At
<1>5. LaterIsClone' /\ Asked'
  BY <1>1, <1>2 DEF Inv, LaterIsClone, Asked
<1>6. Pairs(p)'
  BY <1>1, <1>2, <1>4, OwnIsMover, MoversApart DEF Inv, Pairs, Paired, Present
<1>7. ObjectsFollow(p)'
  BY <1>1, <1>2, <1>4, OrphansStay DEF Inv, ObjectsFollow, Settled, Within
<1>8. QED
  BY <1>4, <1>5, <1>6, <1>7 DEF Inv

LEMMA ReadStep ==
    ASSUME NEW p \in Procs, TypeOK, Inv(p), ReadState(p)
    PROVE  Inv(p)'
<1>1. PICK m \in Media, n \in NextState :
        /\ state[m] = n[2]
        /\ job' = [job EXCEPT ![p] =
                      [stage |-> "write", media |-> {m} \cup Members[m], next |-> n[3]]]
  BY DEF ReadState
<1>2. UNCHANGED <<row, state, requested, object, faults>>
  BY DEF ReadState
<1>3. job'[p] = [stage |-> "write", media |-> {m} \cup Members[m], next |-> n[3]]
  BY <1>1 DEF TypeOK
<1>4. job[p] \notin Run /\ job'[p] \notin Run
  BY <1>3 DEF ReadState, At, Run
<1>5. <<n[2], n[3]>> \in Steps
  BY DEF NextState, Steps
<1>6. Fits(p)'
  BY <1>1, <1>2, <1>3, <1>4, <1>5 DEF Fits, WriteFits
<1>7. LaterIsClone' /\ Asked'
  BY <1>2 DEF Inv, LaterIsClone, Asked
<1>8. Pairs(p)'
  BY <1>2, <1>4 DEF Inv, Pairs, Paired, Present
<1>9. ObjectsFollow(p)'
  BY <1>2, <1>4 DEF Inv, ObjectsFollow, NoOrphans, Settled, Within
<1>10. QED
  BY <1>6, <1>7, <1>8, <1>9 DEF Inv

LEMMA FinishIdle ==
    ASSUME NEW p \in Procs, TypeOK, Finish(p)
    PROVE  job'[p] \notin Run /\ Fits(p)'
<1>1. job'[p] = Idle
  BY DEF Finish, TypeOK
<1>2. job'[p].stage = "idle"
  BY <1>1 DEF Idle
<1>3. job'[p] \notin Run
  BY <1>2 DEF Run
<1>4. QED
  BY <1>2, <1>3 DEF Fits, At

LEMMA WriteStep ==
    ASSUME NEW p \in Procs, TypeOK, Inv(p), WriteState(p)
    PROVE  Inv(p)'
<1>1. PICK m \in Media : job[p].media = {m} \cup Members[m] /\ <<state[m], job[p].next>> \in Steps
  BY DEF WriteState, Inv, Fits, WriteFits
<1> DEFINE next == job[p].next
<1>2. UNCHANGED <<row, requested, object, faults>>
  BY DEF WriteState
<1>3. \A n \in Media \ Rewritten : state'[n] = IF n = m THEN next ELSE state[n]
  BY <1>1, NotRewritten DEF WriteState
<1>4. job[p] \notin Run
  BY DEF WriteState, At, Run
<1>5. job'[p] \notin Run /\ Fits(p)'
  BY FinishIdle DEF WriteState
<1>6. \/ state[m] \in {"live", "to_archive"} /\ next \in {"live", "to_archive"}
      \/ state[m] = "archived" /\ next = "to_live"
  BY <1>1 DEF Steps
<1> HIDE DEF next
<1>7. LaterIsClone'
  BY <1>2 DEF Inv, LaterIsClone
<1>8. Asked'
  BY <1>2, <1>3, <1>6, OwnIsMover DEF Inv, Asked
<1>9. Pairs(p)'
  <2> SUFFICES ASSUME NEW o \in Own, NEW c \in Present(ClonesOf(o)) \ Rewritten
               PROVE  Paired(c, o)'
    BY <1>2, <1>5 DEF Pairs, Present
  <2>1. Paired(c, o) /\ c # o /\ c \in Media \ Rewritten /\ o \in Media \ Rewritten
    BY OwnIsMover, MoversApart DEF Inv, Pairs, Present
  <2>2. state[o] # "to_live" => ~requested[o]
    BY DEF Inv, Asked
  <2>3. QED
    BY <1>2, <1>3, <1>6, <2>1, <2>2 DEF Paired
<1>10. ASSUME NEW n \in Own, Settled(n)
       PROVE  Settled(n)'
  <2>1. PlacesFor(state'[n], requested[n]) = PlacesFor(state[n], requested[n])
    BY <1>3, <1>6, OwnIsMover DEF Inv, Asked, PlacesFor
  <2>2. QED
    BY <1>2, <1>10, <2>1 DEF Settled, Within
<1>11. ObjectsFollow(p)'
  BY <1>2, <1>4, <1>5, <1>10 DEF Inv, ObjectsFollow, NoOrphans
<1>12. QED
  BY <1>5, <1>7, <1>8, <1>9, <1>11 DEF Inv

LEMMA CloneStep ==
    ASSUME NEW p \in Procs, TypeOK, Inv(p), Clone(p)
    PROVE  Inv(p)'
<1>1. PICK c \in Media :
        /\ row[c] = "none"
        /\ row' = [row EXCEPT ![c] = "kept"]
        /\ state' = [state EXCEPT ![c] = state[Original[c]]]
        /\ requested' = [requested EXCEPT ![c] = requested[Original[c]]]
  BY DEF Clone
<1>2. UNCHANGED <<object, job, faults>>
  BY DEF Clone
<1>3. job[p] = Idle /\ job'[p] = Idle
  BY <1>2, IdleIsNoRun DEF Clone, TypeOK, At
<1>4. job[p] \notin Run /\ job'[p] \notin Run
  BY <1>3, IdleFits
<1>5. Fits(p)'
  BY <1>3, <1>4 DEF Fits, At, Idle
<1>6. c \in Uncloned /\ c \notin Own
  BY <1>1, OwnIsMover, MoversApart DEF Inv, LaterIsClone
<1>7. \A n \in Media \ {c} : row'[n] = row[n] /\ state'[n] = state[n] /\ requested'[n] = requested[n]
  BY <1>1 DEF TypeOK
<1>8. LaterIsClone' /\ Asked'
  BY <1>6, <1>7, OwnIsMover DEF Inv, LaterIsClone, Asked
<1>9. Pairs(p)'
  <2> SUFFICES ASSUME NEW o \in Own, NEW k \in (Present(ClonesOf(o)) \ Rewritten)'
               PROVE  Paired(k, o)'
    BY <1>4 DEF Pairs
  <2>1. k \in Media /\ o \in Media \ {c} /\ Original[k] = o /\ k \in ClonesOf(o) \ Rewritten
    BY <1>6, OwnIsMover, MoversApart DEF Present
  <2>2. CASE k = c
    <3>1. state'[k] = state[o] /\ state'[o] = state[o] /\ requested'[o] = requested[o]
      BY <1>1, <1>7, <2>1, <2>2 DEF TypeOK
    <3>2. QED
      BY <3>1 DEF Inv, Asked, Paired
  <2>3. CASE k # c
    <3>1. k \in Present(ClonesOf(o)) \ Rewritten
      BY <1>7, <2>1, <2>3 DEF Present
    <3>2. QED
      BY <1>7, <2>1, <2>3, <3>1 DEF Inv, Pairs, Paired
  <2>4. QED
    BY <2>2, <2>3
<1>10. ASSUME NoOrphans'
       PROVE  NoOrphans
  BY <1>1, <1>7, <1>10, OrphansStay
<1>11. \A n \in Own : Settled(n) => Settled(n)'
  BY <1>2, <1>6, <1>7, OwnIsMover DEF Settled, Within
<1>12. ObjectsFollow(p)'
  BY <1>2, <1>4, <1>10, <1>11 DEF Inv, ObjectsFollow
<1>13. QED
  BY <1>5, <1>8, <1>9, <1>12 DEF Inv

(***************************************************************************)
(* The invariant is kept: the commands                                     *)
(***************************************************************************)
\* To speak of job[p] and job'[p] by name.
LEMMA FollowNamed ==
    ASSUME NEW p \in Procs, NEW k \in Run, job'[p] = k,
           faults' = 0 /\ NoOrphans' => \A m \in Own : Underway(k, m)'
    PROVE  ObjectsFollow(p)'
<1>1. ASSUME NEW m \in Own, Underway(k, m)'
      PROVE  Underway(job[p], m)'
  BY <1>1 DEF Underway, Due, Within, Settled
<1>2. QED
  BY <1>1 DEF ObjectsFollow

LEMMA BeginStep ==
    ASSUME NEW p \in Procs, NEW cmd \in Commands, TypeOK, Inv(p), Begin(p, cmd)
    PROVE  Inv(p)'
<1>1. PICK k : /\ k = job'[p]
               /\ k = [stage |-> "singles", cmd |-> cmd, todo |-> Singles(cmd),
                       group |-> {}, objects |-> {}, updated |-> {}]
  BY DEF Begin, TypeOK
<1>2. UNCHANGED <<row, state, requested, object, faults>>
  BY DEF Begin
<1>3. job[p] \notin Run
  BY DEF Begin, At, Run
<1>4. k \in Run
  BY <1>1 DEF Run, Singles
<1>5. \A m \in Singles(cmd) : m \in Media \ Multis /\ row[m] = "kept" /\ Due(cmd, m)
  BY DEF Singles, Selects, Due
<1>6. Fits(p)'
  BY <1>1, <1>2, <1>5 DEF Fits, At, RunFits
<1>7. LaterIsClone' /\ Asked'
  BY <1>2 DEF Inv, LaterIsClone, Asked
<1>8. Pairs(p)'
  BY <1>1, <1>2 DEF Inv, Pairs, Paired, Present
<1>9. ASSUME NEW m \in Own, Settled(m)
      PROVE  Underway(k, m)'
  <2>1. Settled(m)'
    BY <1>2, <1>9 DEF Settled, Within
  <2>2. m \in k.todo => Due(k.cmd, m)'
    BY <1>1, <1>2, <1>5 DEF Due
  <2>3. k.group = {} /\ k.updated = {}
    BY <1>1
  <2>4. QED
    BY <2>1, <2>2, <2>3 DEF Underway
<1>10. faults' = 0 /\ NoOrphans' => \A m \in Own : Settled(m)
  BY <1>2, <1>3 DEF Inv, ObjectsFollow, NoOrphans
<1>11. ObjectsFollow(p)'
  BY <1>1, <1>4, <1>9, <1>10, FollowNamed
<1>12. QED
  BY <1>6, <1>7, <1>8, <1>11 DEF Inv

\* What a command that is done with a media, or drops it, has left to do.
LEMMA SkipFits ==
    ASSUME NEW p \in Procs, TypeOK, Inv(p), At(p, "singles"),
           NEW m \in job[p].todo, Skip(p, m), UNCHANGED row
    PROVE  /\ job[p] \in Run /\ job'[p] = [job[p] EXCEPT !.todo = job[p].todo \ {m}]
           /\ job'[p] \in Run /\ Fits(p)'
           /\ m \in Media /\ row[m] = "kept" /\ job[p].cmd \in Commands
<1>1. job[p] \in Run
  BY IdleIsNoRun DEF TypeOK, At
<1>2. job'[p] = [job[p] EXCEPT !.todo = job[p].todo \ {m}]
  BY DEF Skip, TypeOK
<1>3. job'[p] \in Run
  BY <1>1, <1>2 DEF Run
<1>4. RunFits(job[p])
  BY <1>1 DEF Inv, Fits
<1>5. Fits(p)'
  BY <1>1, <1>2, <1>4 DEF At, Run, Fits, RunFits
<1>6. QED
  BY <1>1, <1>2, <1>3, <1>4, <1>5 DEF RunFits, At, Run

\* Skipping a media that is nobody's original does not concern the objects.
LEMMA SkipFollows ==
    ASSUME NEW p \in Procs, NEW m, m \notin Own, job[p] \in Run, job'[p] \in Run,
           job'[p] = [job[p] EXCEPT !.todo = job[p].todo \ {m}],
           UNCHANGED <<row, object, faults>>, ObjectsFollow(p),
           \A n \in Own : state'[n] = state[n] /\ requested'[n] = requested[n]
    PROVE  ObjectsFollow(p)'
<1>1. PICK j, k : j = job[p] /\ k = job'[p]
  OBVIOUS
<1>2. /\ k.cmd = j.cmd /\ k.group = j.group /\ k.objects = j.objects /\ k.updated = j.updated
      /\ \A n \in Own : n \in k.todo <=> n \in j.todo
  BY <1>1 DEF Run
<1>3. ASSUME NEW n \in Own, Underway(j, n)
      PROVE  Underway(k, n)'
  <2>1. Settled(n)' <=> Settled(n)
    BY DEF Settled, Within
  <2>2. Due(k.cmd, n)' <=> Due(j.cmd, n)
    BY <1>2 DEF Due
  <2>3. QED
    BY <1>2, <1>3, <2>1, <2>2 DEF Underway, Within
<1>4. faults' = 0 /\ NoOrphans' => \A n \in Own : Underway(j, n)
  BY <1>1 DEF ObjectsFollow, NoOrphans
<1>5. QED
  BY <1>1, <1>3, <1>4, FollowNamed

LEMMA VisitEmptyStep ==
    ASSUME NEW p \in Procs, TypeOK, Inv(p), VisitEmpty(p)
    PROVE  Inv(p)'
<1>1. PICK m \in job[p].todo :
        /\ ObjectsOf[m] = {}
        /\ state' = [state EXCEPT ![m] = TargetState(job[p].cmd)]
        /\ Skip(p, m)
  BY ArchiveConstants DEF VisitEmpty
<1>2. UNCHANGED <<row, requested, object, faults>>
  BY DEF VisitEmpty
<1>3. /\ job[p] \in Run /\ job'[p] = [job[p] EXCEPT !.todo = job[p].todo \ {m}]
      /\ job'[p] \in Run /\ Fits(p)' /\ m \in Media
  BY <1>1, <1>2, SkipFits DEF VisitEmpty
<1>4. m \notin Own /\ \A o \in Own : m \notin ClonesOf(o)
  BY <1>1, OwnIsMover, MoversApart
<1>5. \A n \in Media \ {m} : state'[n] = state[n]
  BY <1>1 DEF TypeOK
<1>6. LaterIsClone' /\ Asked'
  BY <1>2, <1>4, <1>5, OwnIsMover DEF Inv, LaterIsClone, Asked
<1>7. job'[p].updated = job[p].updated
  BY <1>3 DEF Run
<1>8. Pairs(p)'
  BY <1>2, <1>3, <1>4, <1>5, <1>7, OwnIsMover, MoversApart DEF Inv, Pairs, Paired, Present
<1>9. ObjectsFollow(p)'
  BY <1>2, <1>3, <1>4, <1>5, OwnIsMover, SkipFollows DEF Inv
<1>10. QED
  BY <1>3, <1>6, <1>8, <1>9 DEF Inv

\* A media that has no objects is nobody's original and nobody's clone.
LEMMA VisitUnmovedStep ==
    ASSUME NEW p \in Procs, TypeOK, Inv(p), VisitUnmoved(p)
    PROVE  Inv(p)'
<1>0. PICK j, k : j = job[p] /\ k = job'[p]
  OBVIOUS
<1>1. PICK m \in j.todo :
        /\ ObjectsOf[m] = {}
        /\ job' = [job EXCEPT ![p] = [j EXCEPT !.todo = j.todo \ {m}, !.updated = j.updated \cup {m}]]
  BY <1>0 DEF VisitUnmoved
<1>2. UNCHANGED <<row, state, requested, object, faults>>
  BY DEF VisitUnmoved
<1>3. j \in Run /\ j.stage = "singles"
  BY <1>0, IdleIsNoRun DEF VisitUnmoved, TypeOK, At
<1>4. RunFits(j)
  BY <1>0, <1>3 DEF Inv, Fits
<1>5. k = [j EXCEPT !.todo = j.todo \ {m}, !.updated = j.updated \cup {m}]
  BY <1>0, <1>1 DEF TypeOK
<1>6. /\ k.cmd = j.cmd /\ k.todo = j.todo \ {m} /\ k.updated = j.updated \cup {m}
      /\ k.stage = "singles" /\ k.group = j.group /\ k.objects = j.objects
  BY <1>3, <1>5 DEF Run
<1>7. m \in Media
  BY <1>1, <1>3 DEF Run
<1>8. k \in Run
  BY <1>3, <1>5, <1>7 DEF Run
<1>9. m \notin Own /\ \A o \in Own : m \notin ClonesOf(o)
  BY <1>1, OwnIsMover, MoversApart
<1>10. Fits(p)'
  BY <1>0, <1>1, <1>2, <1>3, <1>4, <1>6 DEF Fits, At, RunFits
<1>11. LaterIsClone' /\ Asked'
  BY <1>2 DEF Inv, LaterIsClone, Asked
<1>12. Pairs(p)'
  BY <1>0, <1>2, <1>3, <1>6, <1>9 DEF Inv, Pairs, Paired, Present
<1>13. ASSUME NEW n \in Own, Underway(j, n)
       PROVE  Underway(k, n)'
  <2>1. (n \in k.todo <=> n \in j.todo) /\ (n \in k.updated <=> n \in j.updated)
    BY <1>6, <1>9
  <2>2. Settled(n)' <=> Settled(n)
    BY <1>2 DEF Settled, Within
  <2>3. Due(k.cmd, n)' <=> Due(j.cmd, n)
    BY <1>2, <1>6 DEF Due
  <2>4. QED
    BY <1>2, <1>6, <1>13, <2>1, <2>2, <2>3 DEF Underway, Within
<1>14. faults' = 0 /\ NoOrphans' => \A n \in Own : Underway(j, n)
  BY <1>0, <1>2, <1>3 DEF Inv, ObjectsFollow, NoOrphans
<1>15. ObjectsFollow(p)'
  BY <1>0, <1>8, <1>13, <1>14, FollowNamed
<1>16. QED
  BY <1>10, <1>11, <1>12, <1>15 DEF Inv

LEMMA VisitOrphanStep ==
    ASSUME NEW p \in Procs, TypeOK, Inv(p), VisitOrphan(p)
    PROVE  Inv(p)'
<1>1. PICK m \in job[p].todo : row[Original[m]] = "pruned"
  BY DEF VisitOrphan
<1>2. UNCHANGED <<row, state, requested, object, faults>>
  BY DEF VisitOrphan
<1>3. job[p] \in Run
  BY IdleIsNoRun DEF VisitOrphan, TypeOK, At
<1>4. m \in Media /\ row[m] = "kept"
  BY <1>3 DEF VisitOrphan, At, Inv, Fits, RunFits, Run
<1>5. ~NoOrphans'
  <2>1. Original[m] \in Media /\ m \in ClonesOf(Original[m])
    BY <1>1, <1>4, ArchiveConstants DEF ClonesOf
  <2>2. QED
    BY <1>1, <1>2, <2>1 DEF NoOrphans
<1>6. job'[p] \notin Run /\ Fits(p)'
  BY FinishIdle DEF VisitOrphan
<1>7. LaterIsClone' /\ Asked' /\ Pairs(p)'
  BY <1>2, <1>6 DEF Inv, LaterIsClone, Asked, Pairs, Paired, Present
<1>8. QED
  BY <1>5, <1>6, <1>7 DEF Inv, ObjectsFollow

LEMMA VisitCloneStep ==
    ASSUME NEW p \in Procs, TypeOK, Inv(p), VisitClone(p)
    PROVE  Inv(p)'
<1> DEFINE cmd == job[p].cmd
<1>1. PICK m \in job[p].todo :
        /\ Original[m] # m /\ ObjectsOf[m] # {}
        /\ \/ /\ state[Original[m]] = TargetState(cmd)
              /\ requested[Original[m]] = TargetRequested(cmd)
              /\ state' = [state EXCEPT ![m] = TargetState(cmd)]
              /\ requested' = [requested EXCEPT ![m] = TargetRequested(cmd)]
           \/ UNCHANGED <<state, requested>>
        /\ Skip(p, m)
  BY DEF VisitClone
<1>2. UNCHANGED <<row, object, faults>>
  BY DEF VisitClone
<1>3. /\ job[p] \in Run /\ job'[p] = [job[p] EXCEPT !.todo = job[p].todo \ {m}]
      /\ job'[p] \in Run /\ Fits(p)' /\ m \in Media /\ cmd \in Commands
  BY <1>1, <1>2, SkipFits DEF VisitClone
<1>4. m \notin Own
  BY <1>1, OwnIsMover, MoversApart
<1>5. \A n \in Media \ {m} : state'[n] = state[n] /\ requested'[n] = requested[n]
  BY <1>1 DEF TypeOK
<1>6. LaterIsClone' /\ Asked'
  BY <1>2, <1>4, <1>5, OwnIsMover DEF Inv, LaterIsClone, Asked
<1>7. job'[p].updated = job[p].updated
  BY <1>3 DEF Run
<1>8. Pairs(p)'
  <2> SUFFICES ASSUME NEW o \in Own, NEW c \in Present(ClonesOf(o)) \ Rewritten
               PROVE  Paired(c, o)'
    BY <1>2, <1>3, <1>7 DEF Inv, Pairs, Present
  <2>1. Paired(c, o) /\ c \in Media /\ o \in Media \ {m} /\ Original[c] = o
    BY <1>4, OwnIsMover, MoversApart DEF Inv, Pairs, Present
  <2>2. CASE c = m /\ state' = [state EXCEPT ![m] = TargetState(cmd)]
                   /\ state[o] = TargetState(cmd) /\ requested[o] = TargetRequested(cmd)
    <3>1. state'[c] = TargetState(cmd) /\ state'[o] = TargetState(cmd)
      BY <1>5, <2>1, <2>2 DEF TypeOK
    <3>2. TargetState(cmd) = "archived" => ~TargetRequested(cmd)
      BY DEF TargetState, TargetRequested
    <3>3. QED
      BY <1>5, <2>1, <2>2, <3>1, <3>2 DEF Paired
  <2>3. CASE state'[c] = state[c]
    BY <1>5, <2>1, <2>3 DEF Paired
  <2>4. QED
    BY <1>1, <1>5, <2>1, <2>2, <2>3
<1>9. ObjectsFollow(p)'
  BY <1>2, <1>3, <1>4, <1>5, OwnIsMover, SkipFollows DEF Inv
<1>10. QED
  BY <1>3, <1>6, <1>8, <1>9 DEF Inv

LEMMA VisitOriginalStep ==
    ASSUME NEW p \in Procs, TypeOK, Inv(p), VisitOriginal(p)
    PROVE  Inv(p)'
<1>0. PICK j, k : j = job[p] /\ k = job'[p]
  OBVIOUS
<1>1. PICK m \in j.todo :
        /\ Original[m] = m /\ ObjectsOf[m] # {}
        /\ job' = [job EXCEPT ![p] =
              [j EXCEPT !.stage = "objects", !.todo = j.todo \ {m},
                        !.objects = ObjectsOf[m], !.group = {m} \cup Present(ClonesOf(m))]]
  BY <1>0 DEF VisitOriginal
<1>2. UNCHANGED <<row, state, requested, object, faults>>
  BY DEF VisitOriginal
<1>3. j \in Run
  BY <1>0, IdleIsNoRun DEF VisitOriginal, TypeOK, At
<1>4. /\ m \in Movers /\ RunFits(j) /\ j.group = {} /\ j.objects = {} /\ j.cmd \in Commands
      /\ j.stage = "singles"
  BY <1>0, <1>1, <1>3 DEF VisitOriginal, Inv, Fits, RunFits, At, Run, Movers
<1>5. k = [j EXCEPT !.stage = "objects", !.todo = j.todo \ {m},
                    !.objects = ObjectsOf[m], !.group = {m} \cup Present(ClonesOf(m))]
  BY <1>0, <1>1 DEF TypeOK
<1>6. /\ k.stage = "objects" /\ k.cmd = j.cmd /\ k.todo = j.todo \ {m} /\ k.updated = j.updated
      /\ k.objects = ObjectsOf[m] /\ k.group = {m} \cup Present(ClonesOf(m))
  BY <1>3, <1>5 DEF Run
<1>7. k \in Run
  <2>1. ObjectsOf[m] \subseteq Objects /\ {m} \cup Present(ClonesOf(m)) \subseteq Media
    BY <1>4, MoversApart, ArchiveConstants DEF Present
  <2>2. QED
    BY <1>3, <1>5, <2>1 DEF Run
<1>8. Fits(p)'
  BY <1>0, <1>1, <1>2, <1>4, <1>6 DEF Fits, At, RunFits, Present
<1>9. LaterIsClone' /\ Asked'
  BY <1>2 DEF Inv, LaterIsClone, Asked
<1>10. Pairs(p)'
  BY <1>0, <1>2, <1>3, <1>6 DEF Inv, Pairs, Paired, Present
<1>11. ASSUME NEW n \in Own, Underway(j, n)
       PROVE  Underway(k, n)'
  <2>1. Settled(n)' = Settled(n) /\ Due(k.cmd, n)' = Due(j.cmd, n)
    BY <1>2, <1>6 DEF Settled, Within, Due
  <2>2. n \in k.group <=> n = m
    BY <1>4, <1>6, OwnIsMover, MoversApart DEF Present
  <2>3. CASE n = m
    <3>1. Due(j.cmd, m) /\ Settled(m) /\ m \notin j.updated
      BY <1>1, <1>11, <2>3 DEF Underway
    <3>2. \A o \in ObjectsOf[m] : object[o] \in Before(j.cmd)
      BY <1>4, <3>1, CommandPlaces DEF Settled, Within
    <3>3. QED
      BY <1>2, <1>6, <2>1, <2>3, <3>1, <3>2 DEF Underway
  <2>4. CASE n # m
    BY <1>2, <1>4, <1>6, <1>11, <2>1, <2>2, <2>4 DEF Underway, Within
  <2>5. QED
    BY <2>3, <2>4
<1>12. faults' = 0 /\ NoOrphans' => \A n \in Own : Underway(j, n)
  BY <1>0, <1>2, <1>3 DEF Inv, ObjectsFollow, NoOrphans
<1>13. ObjectsFollow(p)'
  BY <1>0, <1>7, <1>11, <1>12, FollowNamed
<1>14. QED
  BY <1>8, <1>9, <1>10, <1>13 DEF Inv

LEMMA MoveObjectStep ==
    ASSUME NEW p \in Procs, TypeOK, Inv(p), MoveObject(p)
    PROVE  Inv(p)'
<1>0. PICK j, k : j = job[p] /\ k = job'[p]
  OBVIOUS
<1>1. PICK o \in j.objects :
        /\ Works(j.cmd, object[o])
        /\ object' = [object EXCEPT ![o] = Moved(j.cmd, object[o])]
        /\ job' = [job EXCEPT ![p] =
              IF j.objects = {o}
              THEN [j EXCEPT !.stage = "singles", !.objects = {}, !.group = {},
                             !.updated = j.updated \cup j.group]
              ELSE [j EXCEPT !.objects = j.objects \ {o}]]
  BY <1>0 DEF MoveObject
<1>2. UNCHANGED <<row, state, requested, faults>>
  BY DEF MoveObject
<1>3. j \in Run /\ j.stage = "objects"
  BY <1>0, IdleIsNoRun DEF MoveObject, TypeOK, At
<1>4. RunFits(j) /\ j.cmd \in Commands /\ j.objects \subseteq Objects /\ j.group \subseteq Media
  BY <1>0, <1>3 DEF Inv, Fits, Run
<1>5. PICK m \in Movers : /\ j.group = {m} \cup Present(ClonesOf(m))
                          /\ j.objects # {} /\ j.objects \subseteq ObjectsOf[m]
  BY <1>3, <1>4 DEF RunFits
<1>6. k = IF j.objects = {o}
          THEN [j EXCEPT !.stage = "singles", !.objects = {}, !.group = {},
                         !.updated = j.updated \cup j.group]
          ELSE [j EXCEPT !.objects = j.objects \ {o}]
  BY <1>0, <1>1 DEF TypeOK
<1>7. /\ k.cmd = j.cmd /\ k.todo = j.todo /\ k.objects = j.objects \ {o}
      /\ \/ /\ j.objects = {o} /\ k.stage = "singles" /\ k.group = {}
            /\ k.updated = j.updated \cup j.group
         \/ /\ j.objects # {o} /\ k.stage = "objects" /\ k.group = j.group
            /\ k.updated = j.updated
  BY <1>3, <1>6 DEF Run
<1>8. k \in Run
  BY <1>3, <1>6 DEF Run
<1>9. j.group \cap Multis = {}
  BY <1>5, MoversApart DEF Present
<1>10. Fits(p)'
  <2>1. RunFits(k)'
    <3>1. (k.todo \cup k.updated) \cap Multis = {} /\ \A n \in k.todo : row'[n] = "kept"
      BY <1>2, <1>3, <1>4, <1>7, <1>9 DEF RunFits
    <3>2. k.stage = "objects" => k.group = {m} \cup Present(ClonesOf(m))'
      BY <1>2, <1>5, <1>7 DEF Present
    <3>3. k.stage = "objects" => k.objects # {} /\ k.objects \subseteq ObjectsOf[m]
      BY <1>5, <1>7
    <3>4. k.stage \in {"singles", "objects"} /\ (k.stage = "singles" => k.group = {} /\ k.objects = {})
      BY <1>7
    <3>5. QED
      BY <3>1, <3>2, <3>3, <3>4 DEF RunFits
  <2>2. k.stage # "write"
    BY <1>7
  <2>3. QED
    BY <1>0, <2>1, <2>2 DEF Fits, At, RunFits
<1>11. LaterIsClone' /\ Asked'
  BY <1>2 DEF Inv, LaterIsClone, Asked
<1>12. Pairs(p)'
  <2> SUFFICES ASSUME NEW n \in Own, NEW c \in Present(ClonesOf(n)) \ Rewritten
               PROVE  Paired(c, n)' /\ (n \in k.updated <=> c \in k.updated)
    BY <1>0, <1>2 DEF Pairs, Present
  <2>1. Paired(c, n) /\ (n \in j.updated <=> c \in j.updated)
    BY <1>0, <1>3 DEF Inv, Pairs
  <2>2. Paired(c, n)'
    BY <1>2, <2>1 DEF Paired
  <2>3. n \in j.group <=> c \in j.group
    BY <1>5, OwnIsMover, MoversApart DEF Present
  <2>4. QED
    BY <1>7, <2>1, <2>2, <2>3
<1>13. ASSUME NEW n \in Own, Underway(j, n)
       PROVE  Underway(k, n)'
  <2>1. Due(k.cmd, n)' = Due(j.cmd, n)
    BY <1>2, <1>7 DEF Due
  <2>2. n \in j.group <=> n = m
    BY <1>5, OwnIsMover, MoversApart DEF Present
  <2>3. \A q \in Objects \ {o} : object'[q] = object[q]
    BY <1>1 DEF TypeOK
  <2>4. ObjectsOf[n] \subseteq Objects
    BY OwnIsMover, ArchiveConstants
  <2>5. CASE n = m
    <3>1. /\ Due(j.cmd, n) /\ n \notin j.updated /\ n \notin j.todo
          /\ \A q \in ObjectsOf[n] \ j.objects : object[q] \in After(j.cmd)
          /\ \A q \in j.objects : object[q] \in Before(j.cmd)
      BY <1>13, <2>2, <2>5 DEF Underway
    <3>2. object'[o] \in After(j.cmd)
      BY <1>1, <1>4, <3>1, CommandPlaces DEF TypeOK
    <3>3. \A q \in ObjectsOf[n] \ k.objects : object'[q] \in After(j.cmd)
      BY <1>7, <2>3, <2>4, <3>1, <3>2
    <3>4. \A q \in k.objects : object'[q] \in Before(j.cmd)
      BY <1>4, <1>7, <2>3, <3>1
    <3>5. n \in k.updated => k.objects = {}
      BY <1>7, <3>1
    <3>6. n \in k.group => n \notin k.updated
      BY <1>7, <3>1
    <3>7. n \in k.group \/ n \in k.updated
      BY <1>7, <2>2, <2>5
    <3>8. QED
      BY <1>7, <2>1, <3>1, <3>3, <3>4, <3>5, <3>6, <3>7 DEF Underway, Within
  <2>6. CASE n # m
    <3>1. o \notin ObjectsOf[n]
      BY <1>1, <1>5, <2>6, OwnIsMover, MoversApart
    <3>2. \A q \in ObjectsOf[n] : object'[q] = object[q]
      BY <2>3, <2>4, <3>1
    <3>3. n \notin j.group /\ n \notin k.group /\ (n \in k.updated <=> n \in j.updated)
      BY <1>7, <2>2, <2>6
    <3>4. Settled(n) => Settled(n)'
      BY <1>2, <3>2 DEF Settled, Within
    <3>5. QED
      BY <1>7, <1>13, <2>1, <3>2, <3>3, <3>4 DEF Underway, Within
  <2>7. QED
    BY <2>5, <2>6
<1>14. faults' = 0 /\ NoOrphans' => \A n \in Own : Underway(j, n)
  BY <1>0, <1>2, <1>3 DEF Inv, ObjectsFollow, NoOrphans
<1>15. ObjectsFollow(p)'
  BY <1>0, <1>8, <1>13, <1>14, FollowNamed
<1>16. QED
  BY <1>10, <1>11, <1>12, <1>15 DEF Inv

LEMMA GiveUpStep ==
    ASSUME NEW p \in Procs, TypeOK, Inv(p), GiveUp(p)
    PROVE  Inv(p)'
<1>0. PICK j, k : j = job[p] /\ k = job'[p]
  OBVIOUS
<1>1. \/ (\E o \in j.objects : ~Works(j.cmd, object[o])) /\ faults' = faults
      \/ faults' = faults + 1
  BY <1>0 DEF GiveUp, Fault
<1>2. UNCHANGED <<row, state, requested, object>>
  BY DEF GiveUp
<1>3. j \in Run /\ j.stage = "objects"
  BY <1>0, IdleIsNoRun DEF GiveUp, TypeOK, At
<1>4. k = [j EXCEPT !.stage = "singles", !.objects = {}, !.group = {}]
  BY <1>0 DEF GiveUp, TypeOK
<1>5. /\ k.cmd = j.cmd /\ k.todo = j.todo /\ k.updated = j.updated
      /\ k.stage = "singles" /\ k.group = {} /\ k.objects = {}
  BY <1>3, <1>4 DEF Run
<1>6. k \in Run
  BY <1>3, <1>4 DEF Run
<1>7. RunFits(j)
  BY <1>0, <1>3 DEF Inv, Fits
<1>8. Fits(p)'
  BY <1>0, <1>2, <1>3, <1>5, <1>7 DEF Fits, At, RunFits
<1>9. LaterIsClone' /\ Asked' /\ Pairs(p)'
  BY <1>0, <1>2, <1>3, <1>5 DEF Inv, LaterIsClone, Asked, Pairs, Paired, Present
<1>10. ASSUME NEW n \in Own, Underway(j, n), faults' = faults
       PROVE  Underway(k, n)'
  <2>1. Due(k.cmd, n)' = Due(j.cmd, n) /\ (Settled(n) => Settled(n)')
    BY <1>2, <1>5 DEF Due, Settled, Within
  <2>2. CASE n \in j.group
    <3>1. faults \in Nat
      BY ArchiveConstants DEF TypeOK
    <3>2. j.cmd = "finishrestoration"
      BY <1>1, <1>10, <3>1 DEF Works
    <3>3. state[n] = "to_live" /\ requested[n]
      BY <1>10, <2>2, <3>2 DEF Underway, Due
    <3>4. PlacesFor(state[n], requested[n]) = Places
      BY <3>3 DEF PlacesFor
    <3>5. \A o \in ObjectsOf[n] : object[o] \in Places
      BY OwnIsMover, ArchiveConstants DEF TypeOK
    <3>6. Settled(n)
      BY <3>4, <3>5 DEF Settled, Within
    <3>7. n \notin j.todo /\ n \notin j.updated
      BY <1>10, <2>2 DEF Underway
    <3>8. QED
      BY <1>5, <2>1, <3>6, <3>7 DEF Underway
  <2>3. CASE n \notin j.group
    BY <1>2, <1>5, <1>10, <2>1, <2>3 DEF Underway, Within
  <2>4. QED
    BY <2>2, <2>3
<1>11. faults' = 0 /\ NoOrphans' => faults' = faults /\ \A n \in Own : Underway(j, n)
  <2>1. faults \in Nat
    BY ArchiveConstants DEF TypeOK
  <2>2. QED
    BY <1>0, <1>1, <1>2, <1>3, <2>1 DEF Inv, ObjectsFollow, NoOrphans
<1>12. ObjectsFollow(p)'
  BY <1>0, <1>6, <1>10, <1>11, FollowNamed
<1>13. QED
  BY <1>8, <1>9, <1>12 DEF Inv

\* The UPDATE takes a clone along with its original.
LEMMA UpdatePairs ==
    ASSUME NEW p \in Procs, TypeOK, Inv(p), job[p] \in Run, Update(p), UNCHANGED row
    PROVE  /\ Asked'
           /\ \A o \in Own : \A c \in Present(ClonesOf(o)) \ Rewritten : Paired(c, o)'
<1>0. PICK j : j = job[p]
  OBVIOUS
<1>1. \A n \in Media :
        /\ state'[n] = IF n \in j.updated THEN TargetState(j.cmd) ELSE state[n]
        /\ requested'[n] = IF n \in j.updated THEN TargetRequested(j.cmd) ELSE requested[n]
  BY <1>0 DEF Update
<1>2. TargetState(j.cmd) # "to_live" => ~TargetRequested(j.cmd)
  BY DEF TargetState, TargetRequested
<1>3. Asked'
  BY <1>1, <1>2, OwnIsMover DEF Inv, Asked
<1>4. ASSUME NEW o \in Own, NEW c \in Present(ClonesOf(o)) \ Rewritten
      PROVE  Paired(c, o)'
  <2>1. /\ Paired(c, o) /\ (o \in j.updated <=> c \in j.updated)
        /\ c \in Media /\ o \in Media
    BY <1>0, OwnIsMover, MoversApart DEF Inv, Pairs, Present
  <2>2. CASE o \in j.updated
    BY <1>1, <1>2, <2>1, <2>2 DEF Paired, TargetState
  <2>3. CASE o \notin j.updated
    BY <1>1, <2>1, <2>3 DEF Paired
  <2>4. QED
    BY <2>2, <2>3
<1>5. QED
  BY <1>3, <1>4

LEMMA EndSinglesStep ==
    ASSUME NEW p \in Procs, TypeOK, Inv(p), EndSingles(p)
    PROVE  Inv(p)'
<1>0. PICK j, k : j = job[p] /\ k = job'[p]
  OBVIOUS
<1>1. j.todo = {} /\ Update(p) /\ UNCHANGED <<row, object, faults>>
  BY <1>0 DEF EndSingles
<1>2. j \in Run /\ j.stage = "singles"
  BY <1>0, IdleIsNoRun DEF EndSingles, TypeOK, At
<1>3. k = [j EXCEPT !.stage = "multis", !.updated = {}, !.todo = Multiples(j.cmd)]
  BY <1>0 DEF EndSingles, TypeOK
<1>4. j.group = {} /\ j.objects = {} /\ j.cmd \in Commands
  BY <1>0, <1>2 DEF Inv, Fits, RunFits, Run
<1>5. /\ k.cmd = j.cmd /\ k.todo = Multiples(j.cmd) /\ k.updated = {}
      /\ k.stage = "multis" /\ k.group = {} /\ k.objects = {}
  BY <1>2, <1>3, <1>4 DEF Run
<1>6. Multiples(j.cmd) \subseteq Multis
  BY DEF Multiples
<1>7. k \in Run
  BY <1>2, <1>3, <1>6, ArchiveConstants DEF Run
<1>8. Fits(p)'
  BY <1>0, <1>5, <1>6 DEF Fits, At, RunFits
<1>9. LaterIsClone'
  BY <1>1 DEF Inv, LaterIsClone
<1>10. Asked' /\ \A o \in Own : \A c \in Present(ClonesOf(o)) \ Rewritten : Paired(c, o)'
  BY <1>0, <1>1, <1>2, UpdatePairs
<1>11. Pairs(p)'
  BY <1>0, <1>1, <1>5, <1>10 DEF Pairs, Present
<1>12. ASSUME NEW n \in Own, Underway(j, n)
       PROVE  Underway(k, n)'
  <2>1. n \notin k.todo
    BY <1>5, <1>6, OwnIsMover, MoversApart
  <2>2. n \in Media
    BY OwnIsMover
  <2>3. CASE n \in j.updated
    <3>1. state'[n] = TargetState(j.cmd) /\ requested'[n] = TargetRequested(j.cmd)
      BY <1>0, <1>1, <2>2, <2>3 DEF Update
    <3>2. Within(n, After(j.cmd))
      BY <1>12, <2>3 DEF Underway
    <3>3. PlacesFor(state'[n], requested'[n]) = After(j.cmd)
      BY <1>4, <3>1, CommandPlaces
    <3>4. \A o \in ObjectsOf[n] : object'[o] \in PlacesFor(state'[n], requested'[n])
      BY <1>1, <3>2, <3>3 DEF Within
    <3>5. Settled(n)'
      BY <3>4 DEF Settled, Within
    <3>6. QED
      BY <1>5, <2>1, <3>5 DEF Underway
  <2>4. CASE n \notin j.updated
    <3>1. state'[n] = state[n] /\ requested'[n] = requested[n]
      BY <1>0, <1>1, <2>2, <2>4 DEF Update
    <3>2. Settled(n)
      BY <1>1, <1>4, <1>12, <2>4 DEF Underway
    <3>3. Settled(n)'
      BY <1>1, <3>1, <3>2 DEF Settled, Within
    <3>4. QED
      BY <1>5, <2>1, <3>3 DEF Underway
  <2>5. QED
    BY <2>3, <2>4
<1>13. faults' = 0 /\ NoOrphans' => \A n \in Own : Underway(j, n)
  BY <1>0, <1>1, <1>2 DEF Inv, ObjectsFollow, NoOrphans
<1>14. ObjectsFollow(p)'
  BY <1>0, <1>7, <1>12, <1>13, FollowNamed
<1>15. QED
  BY <1>8, <1>9, <1>10, <1>11, <1>14 DEF Inv

LEMMA VisitMultiStep ==
    ASSUME NEW p \in Procs, TypeOK, Inv(p), VisitMulti(p)
    PROVE  Inv(p)'
<1>0. PICK j, k : j = job[p] /\ k = job'[p]
  OBVIOUS
<1>1. PICK m \in j.todo :
        job' = [job EXCEPT ![p] =
            [j EXCEPT !.todo = j.todo \ {m},
                      !.updated = IF MembersAllow(j.cmd, m) THEN j.updated \cup {m}
                                                            ELSE j.updated]]
  BY <1>0 DEF VisitMulti
<1>2. UNCHANGED <<row, state, requested, object, faults>>
  BY DEF VisitMulti
<1>3. j \in Run /\ j.stage = "multis"
  BY <1>0, IdleIsNoRun DEF VisitMulti, TypeOK, At
<1>4. RunFits(j)
  BY <1>0, <1>3 DEF Inv, Fits
<1>5. k = [j EXCEPT !.todo = j.todo \ {m},
                    !.updated = IF MembersAllow(j.cmd, m) THEN j.updated \cup {m}
                                                          ELSE j.updated]
  BY <1>0, <1>1 DEF TypeOK
<1>6. /\ k.cmd = j.cmd /\ k.todo = j.todo \ {m} /\ k.stage = "multis"
      /\ k.group = j.group /\ k.objects = j.objects
      /\ k.updated = IF MembersAllow(j.cmd, m) THEN j.updated \cup {m} ELSE j.updated
  BY <1>3, <1>5 DEF Run
<1>7. k \in Run
  BY <1>1, <1>3, <1>5 DEF Run
<1>8. j.todo \cup j.updated \subseteq Multis /\ k.todo \cup k.updated \subseteq Multis
  BY <1>1, <1>3, <1>4, <1>6 DEF RunFits
<1>9. j.cmd = "finishrestoration" /\ MembersAllow(j.cmd, m) =>
        \A s \in Members[m] : state[s] = "live" \/ row[s] = "pruned"
  <2> SUFFICES ASSUME j.cmd = "finishrestoration", MembersAllow(j.cmd, m), NEW s \in Members[m]
               PROVE  state[s] = "live" \/ row[s] = "pruned"
    OBVIOUS
  <2>1. s \in Media /\ s \notin Uncloned
    BY <1>1, <1>8, ArchiveConstants
  <2>2. row[s] # "none"
    BY <2>1 DEF Inv, LaterIsClone
  <2>3. s \in Present(Members[m]) \/ row[s] = "pruned"
    BY <2>1, <2>2 DEF Present, TypeOK
  <2>4. s \in Present(Members[m]) => state[s] = "live"
    BY DEF MembersAllow
  <2>5. QED
    BY <2>3, <2>4
<1>10. Fits(p)'
  BY <1>0, <1>2, <1>3, <1>4, <1>6, <1>8, <1>9 DEF Fits, At, RunFits
<1>11. LaterIsClone' /\ Asked'
  BY <1>2 DEF Inv, LaterIsClone, Asked
<1>12. Pairs(p)'
  BY <1>0, <1>2, <1>8, OwnIsMover, MoversApart DEF Inv, Pairs, Paired, Present
<1>13. ASSUME NEW n \in Own, Underway(j, n)
       PROVE  Underway(k, n)'
  <2>1. n \notin Multis
    BY OwnIsMover, MoversApart
  <2>2. j.group = {}
    BY <1>3, <1>4 DEF RunFits
  <2>3. Settled(n)'
    BY <1>2, <1>8, <1>13, <2>1, <2>2 DEF Underway, Settled, Within
  <2>4. QED
    BY <1>6, <1>8, <2>1, <2>2, <2>3 DEF Underway
<1>14. faults' = 0 /\ NoOrphans' => \A n \in Own : Underway(j, n)
  BY <1>0, <1>2, <1>3 DEF Inv, ObjectsFollow, NoOrphans
<1>15. ObjectsFollow(p)'
  BY <1>0, <1>7, <1>13, <1>14, FollowNamed
<1>16. QED
  BY <1>10, <1>11, <1>12, <1>15 DEF Inv

LEMMA EndMultisStep ==
    ASSUME NEW p \in Procs, TypeOK, Inv(p), EndMultis(p)
    PROVE  Inv(p)'
<1>0. PICK j : j = job[p]
  OBVIOUS
<1>1. Update(p) /\ UNCHANGED <<row, object, faults>>
  BY DEF EndMultis
<1>2. j \in Run /\ j.stage = "multis"
  BY <1>0, IdleIsNoRun DEF EndMultis, TypeOK, At
<1>3. j.todo \cup j.updated \subseteq Multis /\ j.group = {}
  BY <1>0, <1>2 DEF Inv, Fits, RunFits
<1>4. job'[p] \notin Run /\ Fits(p)'
  BY FinishIdle DEF EndMultis
<1>5. LaterIsClone'
  BY <1>1 DEF Inv, LaterIsClone
<1>6. Asked' /\ \A o \in Own : \A c \in Present(ClonesOf(o)) \ Rewritten : Paired(c, o)'
  BY <1>0, <1>1, <1>2, UpdatePairs
<1>7. Pairs(p)'
  BY <1>1, <1>4, <1>6 DEF Pairs, Present
<1>8. ASSUME NEW n \in Own, Underway(j, n)
      PROVE  Settled(n)'
  <2>1. n \in Media /\ n \notin Multis
    BY OwnIsMover, MoversApart
  <2>2. state'[n] = state[n] /\ requested'[n] = requested[n]
    BY <1>0, <1>1, <1>3, <2>1 DEF Update
  <2>3. QED
    BY <1>1, <1>3, <1>8, <2>1, <2>2 DEF Underway, Settled, Within
<1>9. faults' = 0 /\ NoOrphans' => \A n \in Own : Underway(j, n)
  BY <1>0, <1>1, <1>2 DEF Inv, ObjectsFollow, NoOrphans
<1>10. ObjectsFollow(p)'
  BY <1>4, <1>8, <1>9 DEF ObjectsFollow
<1>11. QED
  BY <1>4, <1>5, <1>6, <1>7, <1>10 DEF Inv

LEMMA DieStep ==
    ASSUME NEW p \in Procs, TypeOK, Inv(p), Die(p)
    PROVE  Inv(p)'
<1>1. UNCHANGED <<row, state, requested, object>>
  BY DEF Die
<1>2. faults' # 0
  BY ArchiveConstants DEF Die, Fault, TypeOK
<1>3. job'[p] \notin Run /\ Fits(p)'
  BY FinishIdle DEF Die
<1>4. LaterIsClone' /\ Asked' /\ Pairs(p)'
  BY <1>1, <1>3 DEF Inv, LaterIsClone, Asked, Pairs, Paired, Present
<1>5. QED
  BY <1>2, <1>3, <1>4 DEF Inv, ObjectsFollow

LEMMA InvStep ==
    ASSUME NEW p, Procs = {p}, TypeOK, Inv(p), [Next]_vars
    PROVE  Inv(p)'
<1>1. p \in Procs
  OBVIOUS
<1>2. CASE RuleArchives \/ \E o \in Objects : Restored(o)
  BY <1>1, <1>2, StoreStep
<1>3. CASE Prune \/ Delete(p)
  BY <1>1, <1>3, RowStep
<1>4. CASE ReadState(p)
  BY <1>1, <1>4, ReadStep
<1>5. CASE Clone(p)
  BY <1>1, <1>5, CloneStep
<1>6. CASE \E cmd \in Commands : Begin(p, cmd)
  BY <1>1, <1>6, BeginStep
<1>7. CASE Continue(p)
  BY <1>1, <1>7, WriteStep, VisitEmptyStep, VisitUnmovedStep, VisitOrphanStep, VisitCloneStep,
     VisitOriginalStep,
     MoveObjectStep, GiveUpStep, EndSinglesStep, VisitMultiStep, EndMultisStep DEF Continue
<1>8. CASE Die(p)
  BY <1>1, <1>8, DieStep
<1>9. CASE UNCHANGED vars
  <2>1. UNCHANGED <<row, state, requested, object, job, faults>>
    BY <1>9 DEF vars
  <2>2. Fits(p)' /\ LaterIsClone' /\ Asked' /\ Pairs(p)'
    BY <2>1 DEF Inv, Fits, WriteFits, RunFits, Present, At, LaterIsClone, Asked, Pairs, Paired
  <2>3. ObjectsFollow(p)'
    BY <2>1 DEF Inv, ObjectsFollow, NoOrphans, Underway, Due, Settled, Within
  <2>4. QED
    BY <2>2, <2>3 DEF Inv
<1>10. QED
  BY <1>2, <1>3, <1>4, <1>5, <1>6, <1>7, <1>8, <1>9 DEF Next

(***************************************************************************)
(* What requests and commands that come one after the other keep           *)
(***************************************************************************)
LEMMA AloneInv ==
    ASSUME NEW p, Procs = {p}
    PROVE  Spec => [](TypeOK /\ Inv(p))
<1>1. Init => TypeOK /\ Inv(p)
  <2>1. Init => TypeOK
    BY ArchiveConstants DEF Init, TypeOK, States, Places
  <2>2. QED
    BY <2>1, InitInv
<1>2. TypeOK /\ Inv(p) /\ [Next]_vars => (TypeOK /\ Inv(p))'
  BY TypeStep, InvStep
<1>3. QED
  BY <1>1, <1>2, PTL DEF Spec

\* With requests and commands one after the other, the objects of every media are where its
\* archive_state says whenever none is at work, until one dies or an orphan stays.
THEOREM AloneMatches ==
    ASSUME NEW p, Procs = {p}
    PROVE  Spec => []StateMatchesObjects
<1>1. TypeOK /\ Inv(p) => StateMatchesObjects
  <2> SUFFICES ASSUME TypeOK, Inv(p), Quiet, faults = 0, NoOrphans, NEW m \in Own
               PROVE  LET places == {object[o] : o \in ObjectsOf[m]}
                      IN  CASE state[m] \in {"live", "to_archive"} -> places = {"live"}
                            [] state[m] = "archived" -> places \subseteq {"tagged", "archived"}
                            [] OTHER -> ~requested[m] => places \subseteq {"tagged", "archived"}
    BY DEF StateMatchesObjects, Own
  <2>1. job[p] \notin Run
    BY DEF Quiet, At, Run
  <2>2. Settled(m)
    BY <2>1 DEF Inv, ObjectsFollow
  <2>3. m \in Media /\ ObjectsOf[m] # {}
    BY OwnIsMover, MoversApart
  <2>4. state[m] \in States
    BY <2>3 DEF TypeOK
  <2>5. CASE state[m] \in {"live", "to_archive"}
    BY <2>2, <2>3, <2>5 DEF Settled, Within, PlacesFor
  <2>6. CASE state[m] = "archived"
    BY <2>2, <2>6 DEF Settled, Within, PlacesFor
  <2>7. CASE state[m] = "to_live"
    BY <2>2, <2>7 DEF Settled, Within, PlacesFor
  <2>8. QED
    BY <2>4, <2>5, <2>6, <2>7 DEF States
<1>2. QED
  BY <1>1, AloneInv, PTL

\* A clone that is live or archived is on the side of its original, whatever mix of requests
\* they get and whichever commands die.
THEOREM AloneClones ==
    ASSUME NEW p, Procs = {p}
    PROVE  Spec => []ClonesFollow
<1>1. TypeOK /\ Inv(p) => ClonesFollow
  <2> SUFFICES ASSUME Inv(p), NEW c \in Media \ Rewritten, row[c] = "kept",
                      Original[c] \in Movers \ (Rewritten \cup {c})
               PROVE  /\ state[c] = "live" => state[Original[c]] \in {"live", "to_archive"}
                      /\ state[c] = "archived" =>
                            state[Original[c]] \in {"archived", "to_live"}
                              /\ ~requested[Original[c]]
    BY DEF ClonesFollow
  <2>1. Original[c] \in Own /\ c \in Present(ClonesOf(Original[c])) \ Rewritten
    BY DEF Own, Present, ClonesOf
  <2>2. QED
    BY <2>1 DEF Inv, Pairs, Paired
<1>2. QED
  BY <1>1, AloneInv, PTL

\* No step brings a multi back before its members, which the command has looked up for it.
THEOREM AloneMultis ==
    ASSUME NEW p, Procs = {p}
    PROVE  Spec => MultisWaitForMembers
<1> DEFINE Waits == \A m \in Multis : state[m] = "to_live" /\ state'[m] = "live" =>
                       \A s \in Members[m] : state[s] = "live" \/ row[s] = "pruned"
<1>1. TypeOK /\ Inv(p) /\ [Next]_vars => [Waits]_vars
  <2> SUFFICES ASSUME TypeOK, Inv(p), Next, NEW m \in Multis,
                      state[m] = "to_live", state'[m] = "live"
               PROVE  \A s \in Members[m] : state[s] = "live" \/ row[s] = "pruned"
    OBVIOUS
  <2>1. m \in Media /\ Original[m] = m /\ m \notin Uncloned
    BY ArchiveConstants
  <2>2. state' # state
    OBVIOUS
  <2>3. ~WriteState(p)
    <3> SUFFICES ASSUME WriteState(p)
                 PROVE  FALSE
      OBVIOUS
    <3>1. PICK n \in Media :
            job[p].media = {n} \cup Members[n] /\ <<state[n], job[p].next>> \in Steps
      BY DEF WriteState, Inv, Fits, WriteFits
    <3>2. m \notin Members[n]
      BY ArchiveConstants
    <3>3. m = n /\ job[p].next = "live"
      BY <2>1, <3>1, <3>2 DEF WriteState
    <3>4. QED
      BY <3>1, <3>3 DEF Steps
  <2>4. ~Clone(p)
    <3>1. row[m] # "none"
      BY <2>1 DEF Inv, LaterIsClone
    <3>2. QED
      BY <2>1, <3>1 DEF Clone, TypeOK
  <2>5. CASE At(p, "singles") /\ Continue(p)
    <3>1. job[p] \in Run
      BY <2>5, IdleIsNoRun DEF TypeOK, At
    <3>2. m \notin job[p].todo \cup job[p].updated
      BY <2>5, <3>1 DEF Inv, Fits, RunFits, At
    <3>3. state'[m] = state[m]
      BY <2>1, <2>3, <2>5, <3>2 DEF Continue, VisitEmpty, VisitUnmoved, VisitOrphan, VisitClone,
           VisitOriginal, MoveObject, GiveUp, EndSingles, VisitMulti, EndMultis, Update, At, TypeOK
    <3>4. QED
      BY <3>3
  <2>6. CASE EndMultis(p)
    <3>1. job[p] \in Run /\ job[p].stage = "multis"
      BY <2>6, IdleIsNoRun DEF EndMultis, TypeOK, At
    <3>2. m \in job[p].updated /\ TargetState(job[p].cmd) = "live"
      BY <2>1, <2>6 DEF EndMultis, Update
    <3>3. job[p].cmd = "finishrestoration"
      BY <3>1, <3>2 DEF TargetState, Run, Commands
    <3>4. QED
      BY <3>1, <3>2, <3>3 DEF Inv, Fits, RunFits
  <2>7. ~UNCHANGED state => WriteState(p) \/ Clone(p) \/ (At(p, "singles") /\ Continue(p))
                            \/ EndMultis(p)
    <3>1. CASE \/ RuleArchives \/ \E o \in Objects : Restored(o)
               \/ Prune \/ ReadState(p) \/ Delete(p) \/ \E cmd \in Commands : Begin(p, cmd)
               \/ Die(p)
      BY <3>1 DEF RuleArchives, Restored, Prune, ReadState, Delete, Begin, Die
    <3>2. CASE Continue(p)
      BY <3>2 DEF Continue, VisitEmpty, VisitUnmoved, VisitOrphan, VisitClone, VisitOriginal,
                  MoveObject, GiveUp, EndSingles, VisitMulti
    <3>3. QED
      BY <3>1, <3>2 DEF Next
  <2>8. QED
    BY <2>2, <2>3, <2>4, <2>5, <2>6, <2>7
<1>2. QED
  BY <1>1, AloneInv, PTL DEF Spec, MultisWaitForMembers
=============================================================================
