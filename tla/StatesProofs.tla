---------------------------- MODULE StatesProofs ----------------------------
(***************************************************************************)
(* Proofs about States, for every set of states, localizations and         *)
(* requests: what a deletion takes with it, nobody else shows, and the     *)
(* segments of a state are those of its localizations.                     *)
(***************************************************************************)
EXTENDS States, TLAPS, WellFoundedInduction, FiniteSetTheorems

(***************************************************************************)
(* The greatest mark                                                       *)
(***************************************************************************)
LEMMA TopExists ==
    ASSUME NEW bound \in Nat, NEW S \in SUBSET (0 .. bound), S # {}
    PROVE  Max(S) \in S /\ \A n \in S : n <= Max(S)
<1> DEFINE D == {bound - n : n \in S}
           R == {d \in Nat \X Nat : d[1] < d[2]}
<1>1. IsWellFoundedOn(R, Nat)
  BY NatLessThanWellFounded DEF OpToRel
<1>2. D \subseteq Nat
  OBVIOUS
<1>3. D # {}
  OBVIOUS
<1> HIDE DEF D, R
<1>4. PICK least \in D : \A d \in D : ~(<<d, least>> \in R)
  BY <1>1, <1>2, <1>3, WFMin
<1>5. \A d \in D : ~(d < least)
  BY <1>2, <1>4 DEF R
<1>6. PICK top \in S : least = bound - top
  BY DEF D
<1>7. \A n \in S : top >= n
  <2> TAKE n \in S
  <2>1. bound - n \in D
    BY DEF D
  <2>2. QED
    BY <2>1, <1>5, <1>6
<1>8. Max(S) \in S /\ \A n \in S : Max(S) >= n
  BY <1>7 DEF Max
<1>9. QED
  BY <1>8

(***************************************************************************)
(* The invariant                                                           *)
(***************************************************************************)

\* Rows, whatever their segments say.
SegmentValues == {CalcSegments(parts) : parts \in SUBSET Locs}
                   \cup {SplitSegments(parts) : parts \in SUBSET Locs}
Row == [el : Elements, mark : Nat, variant : BOOLEAN, gone : BOOLEAN, there : BOOLEAN,
        parts : SUBSET Locs, segments : SegmentValues]

\* Marks stay below the keys, so that there is a greatest one.
Numbered(table) == table \in Seq(Row) /\ \A i \in DOMAIN table : table[i].mark < i

Typed ==
    /\ Numbered(rows)
    /\ latest \in [Elements -> Nat]
    /\ alive \subseteq Locs
    /\ doomed \in [Requests -> (SUBSET Locs) \cup {Idle}]
    /\ excused \subseteq Locs
    /\ holders \in [Locs -> SUBSET Elements]

\* Whoever has a localization is known to.
HoldersKnown ==
    \A i \in Ids : rows[i].there => \A l \in rows[i].parts : rows[i].el \in holders[l]

\* The branch of e ends with a deletion.
Sealed(e) ==
    /\ \E i \in Ids : rows[i].el = e /\ Current(i)
    /\ \A i \in Ids : rows[i].el = e /\ Current(i) => rows[i].variant

\* What is deleted with a state, or about to be.
Lost == ((Locs \ alive) \cup Doomed) \ excused

\* A state that has a lost localization is deleted.
LostIsSealed ==
    \A i \in Ids : rows[i].there /\ rows[i].parts \cap Lost # {} => Sealed(rows[i].el)

Inv == Typed /\ HoldersKnown /\ LostIsSealed

LEMMA RowIsRow ==
    ASSUME NEW table, Numbered(table), NEW i \in DOMAIN table
    PROVE  /\ table[i] \in Row /\ i \in 1 .. Len(table) /\ Len(table) \in Nat
           /\ table[i].mark < i
  BY DEF Numbered

LEMMA InvSuffices == Inv => PartsStayAlive
<1> SUFFICES ASSUME Inv, NEW i \in Ids, Shown(i)
             PROVE  rows[i].parts \subseteq alive \cup excused
  BY DEF PartsStayAlive
<1>1. rows[i].parts \subseteq Locs
  BY RowIsRow DEF Inv, Typed, Ids, Row
<1>2. ~Sealed(rows[i].el)
  BY DEF Sealed, Shown
<1>3. rows[i].parts \cap Lost = {}
  BY <1>2 DEF Inv, LostIsSealed, Shown, Current
<1>4. QED
  BY <1>1, <1>3 DEF Lost

(***************************************************************************)
(* What an insert does                                                     *)
(***************************************************************************)
LEMMA MarksAre ==
    ASSUME NEW table, NEW e
    PROVE  /\ \A i \in Of(table, e) : ~table[i].gone => table[i].mark \in Marks(table, e)
           /\ \A n \in Marks(table, e) :
                  \E i \in Of(table, e) : ~table[i].gone /\ n = table[i].mark
           /\ \A i : i \in Of(table, e) <=> i \in DOMAIN table /\ table[i].el = e /\ table[i].there
  BY DEF Marks, Of

LEMMA MarksBounded ==
    ASSUME NEW table, Numbered(table), NEW e
    PROVE  Marks(table, e) \in SUBSET (0 .. Len(table))
<1> SUFFICES ASSUME NEW i \in DOMAIN table PROVE table[i].mark \in 0 .. Len(table)
  BY DEF Marks, Of
<1>1. table[i].mark \in Nat
  BY RowIsRow DEF Row
<1>2. QED
  BY <1>1, RowIsRow

LEMMA TopIsTop ==
    ASSUME NEW table, Numbered(table), NEW e
    PROVE  /\ Top(table, e) \in Nat
           /\ \A n \in Marks(table, e) : n <= Top(table, e)
           /\ Marks(table, e) # {} => Top(table, e) \in Marks(table, e)
<1> DEFINE M == Marks(table, e)
<1>1. Len(table) \in Nat /\ M \in SUBSET (0 .. Len(table))
  BY MarksBounded DEF Numbered
<1>2. Top(table, e) = IF M = {} THEN 0 ELSE Max(M)
  BY DEF Top
<1> HIDE DEF M
<1>3. M # {} => Max(M) \in M /\ \A n \in M : n <= Max(M)
  BY <1>1, TopExists
<1>4. M \subseteq Nat
  BY <1>1
<1>5. /\ Top(table, e) \in Nat
      /\ \A n \in M : n <= Top(table, e)
      /\ M # {} => Top(table, e) \in M
  <2>1. CASE M = {}
    BY <2>1, <1>2
  <2>2. CASE M # {}
    <3>1. Top(table, e) = Max(M)
      BY <2>2, <1>2
    <3>2. QED
      BY <2>2, <3>1, <1>3, <1>4
  <2>3. QED
    BY <2>1, <2>2
<1>6. QED
  BY <1>5 DEF M

\* The same row with another mark.
Copied(new, row) ==
    /\ new \in Row /\ new.el = row.el /\ new.variant = row.variant /\ new.gone = row.gone
    /\ new.there = row.there /\ new.parts = row.parts /\ new.segments = row.segments

\* The inserted row is the end of its branch, and its mark is the new latest_mark.
LEMMA InsertIsEnd ==
    ASSUME NEW table, Numbered(table), NEW row \in Row
    PROVE  LET new == Insert(table, row)
               n   == Len(table) + 1
           IN  /\ Numbered(new) /\ DOMAIN new = 1 .. n
               /\ \A i \in DOMAIN table : new[i] = table[i]
               /\ Copied(new[n], row)
               /\ ~row.gone /\ row.there => new[n].mark = Top(new, row.el)
               /\ \A i \in Of(table, row.el) : ~table[i].gone => table[i].mark < new[n].mark
<1> DEFINE new == Insert(table, row)
           n == Len(table) + 1
           m == IF Marks(table, row.el) = {} THEN 0 ELSE Top(table, row.el) + 1
<1>1. /\ table \in Seq(Row) /\ Len(table) \in Nat /\ DOMAIN table = 1 .. Len(table)
      /\ n \in Nat
  BY DEF Numbered
<1>2. m \in Nat /\ m < n
  <2>1. Marks(table, row.el) # {} => Top(table, row.el) < Len(table)
    <3> SUFFICES ASSUME Marks(table, row.el) # {} PROVE Top(table, row.el) < Len(table)
      OBVIOUS
    <3>1. PICK i \in DOMAIN table : Top(table, row.el) = table[i].mark
      BY TopIsTop DEF Marks, Of
    <3>2. table[i].mark < i /\ i \in 1 .. Len(table) /\ table[i].mark \in Nat
      BY RowIsRow DEF Row
    <3>3. QED
      BY <1>1, <3>1, <3>2
  <2>2. QED
    BY <1>1, <2>1, TopIsTop
<1> HIDE DEF m
<1>3. [row EXCEPT !.mark = m] \in Row
  BY <1>2 DEF Row
<1>4. new = Append(table, [row EXCEPT !.mark = m])
  BY DEF Insert, m
<1>5. /\ new \in Seq(Row) /\ DOMAIN new = 1 .. n /\ Len(new) = n
      /\ \A i \in DOMAIN table : new[i] = table[i]
      /\ new[n] = [row EXCEPT !.mark = m]
  BY <1>1, <1>3, <1>4
<1> HIDE DEF new
<1>6. /\ new[n].mark = m /\ new[n].el = row.el
      /\ new[n].there = row.there /\ new[n].gone = row.gone
  BY <1>5 DEF Row
<1>7. Numbered(new)
  <2> SUFFICES ASSUME NEW i \in DOMAIN new PROVE new[i].mark < i
    BY <1>5 DEF Numbered
  <2>1. CASE i = n
    BY <2>1, <1>2, <1>6
  <2>2. CASE i # n
    <3>1. i \in DOMAIN table
      BY <2>2, <1>1, <1>5
    <3>2. QED
      BY <3>1, <1>5, RowIsRow
  <2>3. QED
    BY <2>1, <2>2
<1>8. \A i \in Of(table, row.el) : ~table[i].gone => table[i].mark < m
  <2> SUFFICES ASSUME NEW i \in Of(table, row.el), ~table[i].gone PROVE table[i].mark < m
    OBVIOUS
  <2>1. table[i].mark \in Marks(table, row.el)
    BY MarksAre
  <2>2. /\ table[i].mark <= Top(table, row.el) /\ Top(table, row.el) \in Nat
        /\ table[i].mark \in Nat
    BY <2>1, TopIsTop, MarksBounded, <1>1
  <2>3. m = Top(table, row.el) + 1
    BY <2>1 DEF m
  <2>4. QED
    BY <2>2, <2>3
<1>9. ~row.gone /\ row.there => Top(new, row.el) = m
  <2> SUFFICES ASSUME ~row.gone, row.there PROVE Top(new, row.el) = m
    OBVIOUS
  <2>1. m \in Marks(new, row.el)
    <3>1. n \in Of(new, row.el)
      <4>1. n \in DOMAIN new
        BY <1>1, <1>5
      <4>2. new[n].el = row.el /\ new[n].there
        BY <1>6
      <4>3. QED
        BY <4>1, <4>2, MarksAre
    <3>2. QED
      BY <3>1, <1>6, MarksAre
  <2>2. \A k \in Marks(new, row.el) : k <= m
    <3> SUFFICES ASSUME NEW i \in Of(new, row.el), ~new[i].gone PROVE new[i].mark <= m
      BY DEF Marks
    <3>1. CASE i = n
      BY <3>1, <1>6, <1>2
    <3>2. CASE i # n
      <4>1. i \in Of(table, row.el) /\ new[i] = table[i]
        BY <3>2, <1>1, <1>5 DEF Of
      <4>2. table[i].mark \in Nat
        BY <4>1, RowIsRow DEF Of, Row
      <4>3. QED
        BY <4>1, <4>2, <1>8, <1>2
    <3>3. QED
      BY <3>1, <3>2
  <2>3. QED
    BY <2>1, <2>2, <1>7, <1>2, TopIsTop
<1>10. Copied(new[n], row)
  BY <1>3, <1>5 DEF Copied, Row
<1>11. QED
  BY <1>2, <1>5, <1>6, <1>7, <1>8, <1>9, <1>10 DEF new, n

\* A row is written over, and keeps its mark.
LEMMA WriteKeepsNumbers ==
    ASSUME NEW table, Numbered(table), NEW i \in DOMAIN table, NEW row \in Row,
           row.mark = table[i].mark
    PROVE  LET new == [table EXCEPT ![i] = row]
           IN  /\ Numbered(new) /\ DOMAIN new = DOMAIN table /\ Len(new) = Len(table)
               /\ new[i] = row
               /\ \A k \in DOMAIN table : k # i => new[k] = table[k]
<1> DEFINE new == [table EXCEPT ![i] = row]
<1>1. /\ new \in Seq(Row) /\ DOMAIN new = DOMAIN table /\ Len(new) = Len(table)
      /\ new[i] = row
      /\ \A k \in DOMAIN table : k # i => new[k] = table[k]
  BY DEF Numbered
<1> HIDE DEF new
<1>2. \A k \in DOMAIN new : new[k].mark < k
  BY <1>1, RowIsRow
<1>3. Numbered(new)
  BY <1>1, <1>2 DEF Numbered
<1>4. QED
  BY <1>1, <1>3 DEF new

(***************************************************************************)
(* What a step does to the invariant                                       *)
(***************************************************************************)

LEMMA DoomedIs ==
    \A l : l \in Doomed <=> \E p \in Requests : doomed[p] # Idle /\ l \in doomed[p]
  BY DEF Doomed, Pending

\* The two facts that a row of e has in a sealed branch.
LEMMA SealedIs ==
    ASSUME NEW i \in Ids, Sealed(rows[i].el), Current(i)
    PROVE  rows[i].variant
  BY DEF Sealed

\* What a step does outside of the states T: nothing but that localizations are found again.
LEMMA Untouched ==
    ASSUME Inv, Typed', HoldersKnown', NEW T \in SUBSET Elements,
           \A i \in Ids : rows[i].el \notin T =>
               /\ i \in Ids' /\ rows'[i].el = rows[i].el /\ rows'[i].mark = rows[i].mark
               /\ rows'[i].variant = rows[i].variant /\ rows'[i].gone = rows[i].gone
               /\ rows'[i].there = rows[i].there,
           \A i \in Ids' : rows'[i].el \notin T /\ rows'[i].there =>
               /\ i \in Ids /\ rows[i].el = rows'[i].el
               /\ rows'[i].parts \cap Lost' \subseteq rows[i].parts \cap Lost,
           \A e \in Elements \ T : latest'[e] = latest[e],
           \A i \in Ids' :
               (rows[i].el \in T /\ rows[i].there /\ rows[i].parts \cap Lost # {}
                    => Sealed(rows[i].el))'
    PROVE  Inv'
<1>1. SUFFICES ASSUME NEW i \in Ids', rows'[i].there, rows'[i].parts \cap Lost' # {},
                      rows'[i].el \notin T, NEW e \in Elements, e = rows'[i].el
               PROVE  Sealed(e)'
  <2>1. ASSUME NEW i \in Ids', rows'[i].there, rows'[i].parts \cap Lost' # {}
        PROVE  Sealed(rows[i].el)'
    <3>1. rows'[i].el \in Elements
      BY <2>1, RowIsRow DEF Typed, Ids, Row
    <3>2. CASE rows'[i].el \in T
      BY <2>1, <3>2
    <3>3. CASE rows'[i].el \notin T
      BY <2>1, <3>1, <3>3, <1>1
    <3>4. QED
      BY <3>2, <3>3
  <2>2. QED
    BY <2>1 DEF Inv, LostIsSealed
<1>2. /\ i \in Ids /\ rows[i].el = e /\ rows[i].there
      /\ rows[i].parts \cap Lost # {}
  BY <1>1
<1>3. Sealed(e) /\ e \in Elements
  BY <1>2, RowIsRow DEF Inv, LostIsSealed, Typed, Ids, Row
<1>4. PICK k \in Ids : rows[k].el = e /\ Current(k)
  BY <1>3 DEF Sealed
<1>5. latest'[e] = latest[e]
  BY <1>1, <1>3
<1>6. k \in Ids' /\ rows'[k].el = e /\ Current(k)'
  BY <1>1, <1>4, <1>5 DEF Current
<1>7. ASSUME NEW j \in Ids', rows'[j].el = e, Current(j)' PROVE rows'[j].variant
  <2>1. j \in Ids /\ rows[j].el = e
    BY <1>1, <1>7 DEF Current
  <2>2. /\ rows'[j].mark = rows[j].mark /\ rows'[j].gone = rows[j].gone
        /\ rows'[j].there = rows[j].there /\ rows'[j].variant = rows[j].variant
    BY <1>1, <2>1
  <2>3. Current(j)
    BY <1>5, <1>7, <2>1, <2>2 DEF Current
  <2>4. QED
    BY <1>3, <2>1, <2>2, <2>3 DEF Sealed
<1>8. QED
  BY <1>6, <1>7 DEF Sealed

\* After an insert into a branch its last row is the only current one.
LEMMA InsertEndsBranch ==
    ASSUME NEW table, Numbered(table), NEW row \in Row, ~row.gone, row.there,
           latest \in [Elements -> Nat],
           rows' = Insert(table, row), Refresh(row.el)
    PROVE  LET n == Len(table) + 1
           IN  /\ n \in Ids' /\ rows'[n].el = row.el /\ Current(n)'
               /\ rows'[n].variant = row.variant
               /\ \A i \in Ids' : rows'[i].el = row.el /\ Current(i)' => i = n
<1> DEFINE n == Len(table) + 1
<1>1. /\ Numbered(rows') /\ DOMAIN rows' = 1 .. n /\ n \in Nat
      /\ \A i \in DOMAIN table : rows'[i] = table[i]
      /\ rows'[n].mark = Top(rows', row.el)
      /\ \A i \in Of(table, row.el) : ~table[i].gone => table[i].mark < rows'[n].mark
  BY InsertIsEnd DEF Numbered
<1>2. Copied(rows'[n], row)
  BY InsertIsEnd
<1>3. /\ rows'[n].el = row.el /\ rows'[n].variant = row.variant
      /\ rows'[n].gone = row.gone /\ rows'[n].there = row.there /\ rows'[n].mark \in Nat
  BY <1>2 DEF Copied, Row
<1>4. row.el \in Elements
  BY DEF Row
<1>5. latest'[row.el] = rows'[n].mark
  BY <1>1, <1>4 DEF Refresh
<1>6. n \in Ids' /\ Current(n)'
  BY <1>1, <1>3, <1>5 DEF Ids, Current
<1>7. ASSUME NEW i \in Ids', rows'[i].el = row.el, Current(i)', i # n PROVE FALSE
  <2>1. i \in DOMAIN table /\ rows'[i] = table[i]
    BY <1>1, <1>7 DEF Ids, Numbered
  <2>2. i \in Of(table, row.el) /\ ~table[i].gone
    BY <1>7, <2>1, MarksAre DEF Current
  <2>3. table[i].mark < rows'[n].mark /\ table[i].mark \in Nat
    BY <1>1, <2>1, <2>2, RowIsRow DEF Row
  <2>4. table[i].mark = rows'[n].mark
    BY <1>5, <1>7, <2>1 DEF Current
  <2>5. QED
    BY <1>3, <2>3, <2>4
<1>8. QED
  BY <1>3, <1>6, <1>7

\* What an insert and a refresh do to the types.
LEMMA InsertTypes ==
    ASSUME NEW table, Numbered(table), NEW row \in Row,
           latest \in [Elements -> Nat],
           rows' = Insert(table, row), Refresh(row.el)
    PROVE  /\ Numbered(rows') /\ latest' \in [Elements -> Nat]
           /\ \A e \in Elements \ {row.el} : latest'[e] = latest[e]
           /\ Ids' = DOMAIN table \cup {Len(table) + 1}
           /\ Len(table) + 1 \notin DOMAIN table
           /\ \A i \in DOMAIN table : rows'[i] = table[i]
           /\ Copied(rows'[Len(table) + 1], row)
<1>1. /\ Numbered(rows') /\ DOMAIN rows' = 1 .. Len(table) + 1
      /\ \A i \in DOMAIN table : rows'[i] = table[i]
      /\ Copied(rows'[Len(table) + 1], row)
  BY InsertIsEnd
<1>2. DOMAIN table = 1 .. Len(table) /\ Len(table) \in Nat
  BY DEF Numbered
<1>3. latest' \in [Elements -> Nat] /\ \A e \in Elements \ {row.el} : latest'[e] = latest[e]
  BY <1>1, TopIsTop DEF Refresh
<1>4. QED
  BY <1>1, <1>2, <1>3 DEF Ids

(***************************************************************************)
(* The initial states, and one lemma for each action                       *)
(***************************************************************************)

LEMMA InitInv == Init => Inv
<1> SUFFICES ASSUME Init PROVE Inv
  OBVIOUS
<1>1. Numbered(rows) /\ Ids = {}
  BY DEF Init, Numbered, Ids
<1>2. QED
  BY <1>1 DEF Init, Inv, Typed, HoldersKnown, LostIsSealed

\* What attaching does to the history.
LEMMA AttachedTypes ==
    ASSUME Inv, NEW e \in Elements, NEW parts \in SUBSET Locs,
           NEW withdrawn \in SUBSET Locs, Attached(e, parts, withdrawn)
    PROVE  /\ holders' \in [Locs -> SUBSET Elements]
           /\ excused' \subseteq Locs /\ excused \subseteq excused'
           /\ \A l \in Locs : holders[l] \subseteq holders'[l]
           /\ \A l \in parts : e \in holders'[l]
           /\ parts \cap Doomed \subseteq excused'
           /\ parts \ alive \subseteq excused' /\ withdrawn \subseteq excused'
  BY DEF Inv, Typed, Attached

LEMMA PostKeeps ==
    ASSUME Inv, NEW e \in Elements, NEW parts \in SUBSET alive, Post(e, parts)
    PROVE  Inv'
<1> DEFINE row == [el |-> e, mark |-> 0, variant |-> FALSE, gone |-> FALSE,
                   there |-> TRUE, parts |-> parts, segments |-> SplitSegments(parts)]
           n == Len(rows) + 1
<1>1. parts \in SUBSET Locs
  BY DEF Inv, Typed
<1>2. row \in Row /\ row.el = e /\ row.parts = parts /\ ~row.gone /\ row.there
  BY <1>1 DEF Row, SegmentValues
<1>3. /\ Numbered(rows) /\ latest \in [Elements -> Nat]
      /\ rows' = Insert(rows, row) /\ Refresh(row.el)
      /\ Attached(e, parts, {}) /\ alive' = alive /\ doomed' = doomed
  BY <1>2 DEF Post, Inv, Typed
<1> HIDE DEF row
<1>4. /\ Numbered(rows') /\ latest' \in [Elements -> Nat]
      /\ \A k \in Elements \ {e} : latest'[k] = latest[k]
      /\ Ids' = Ids \cup {n} /\ n \notin Ids
      /\ \A i \in Ids : rows'[i] = rows[i]
      /\ Copied(rows'[n], row)
  BY <1>2, <1>3, InsertTypes DEF Ids
<1>5. rows'[n].el = e /\ rows'[n].parts = parts
  BY <1>2, <1>4 DEF Copied
<1>6. /\ holders' \in [Locs -> SUBSET Elements]
      /\ excused' \subseteq Locs /\ excused \subseteq excused'
      /\ \A l \in Locs : holders[l] \subseteq holders'[l]
      /\ \A l \in parts : e \in holders'[l]
      /\ parts \cap Doomed \subseteq excused'
  BY <1>1, <1>3, AttachedTypes
<1>7. Typed'
  BY <1>3, <1>4, <1>6 DEF Typed, Inv
<1>8. HoldersKnown'
  <2> SUFFICES ASSUME NEW i \in Ids', rows'[i].there, NEW l \in rows'[i].parts
               PROVE  rows'[i].el \in holders'[l]
    BY DEF HoldersKnown
  <2>1. CASE i = n
    BY <2>1, <1>5, <1>6
  <2>2. CASE i # n
    <3>1. i \in Ids /\ rows'[i] = rows[i] /\ l \in Locs
      BY <2>2, <1>4, RowIsRow DEF Inv, Typed, Ids, Row
    <3>2. QED
      BY <3>1, <1>6 DEF Inv, HoldersKnown
  <2>3. QED
    BY <2>1, <2>2
<1>9. Lost' \subseteq Lost /\ parts \cap Lost' = {}
  BY <1>3, <1>6 DEF Lost, Doomed, Pending
<1>10. \A i \in Ids : rows[i].el # e
  BY DEF Post
<1>11. QED
  <2> DEFINE T == {e}
  <2>1. \A i \in Ids : rows[i].el \notin T =>
               /\ i \in Ids' /\ rows'[i].el = rows[i].el /\ rows'[i].mark = rows[i].mark
               /\ rows'[i].variant = rows[i].variant /\ rows'[i].gone = rows[i].gone
               /\ rows'[i].there = rows[i].there
    BY <1>4
  <2>2. \A i \in Ids' : rows'[i].el \notin T /\ rows'[i].there =>
               /\ i \in Ids /\ rows[i].el = rows'[i].el
               /\ rows'[i].parts \cap Lost' \subseteq rows[i].parts \cap Lost
    BY <1>4, <1>5, <1>9
  <2>3. \A k \in Elements \ T : latest'[k] = latest[k]
    BY <1>4
  <2>4. \A i \in Ids' :
               (rows[i].el \in T /\ rows[i].there /\ rows[i].parts \cap Lost # {}
                    => Sealed(rows[i].el))'
    BY <1>4, <1>5, <1>9, <1>10
  <2>5. T \in SUBSET Elements
    OBVIOUS
  <2> HIDE DEF T
  <2>6. QED
    BY <1>7, <1>8, <2>1, <2>2, <2>3, <2>4, <2>5, Untouched

\* The row that a PATCH changes ends its branch, if the branch is sealed with a deletion.
LEMMA EndOfSealed ==
    ASSUME Inv, NEW i \in Ids, ~rows[i].gone, rows[i].there, NEW t \in EndOf(i)
    PROVE  /\ t \in Ids /\ rows[t].el = rows[i].el /\ rows[t].there
           /\ Sealed(rows[t].el) => ~rows[t].gone /\ rows[t].variant
<1>1. t \in Ids /\ rows[t].el = rows[i].el /\ rows[t].there /\ rows[t].mark = latest[rows[i].el]
  BY DEF EndOf, Of, Ids
<1>2. ASSUME Sealed(rows[t].el) PROVE Current(t)
  <2>1. CASE t = i
    BY <2>1, <1>1 DEF Current
  <2>2. CASE t # i
    <3>1. PICK k \in Ids : rows[k].el = rows[t].el /\ Current(k)
      BY <1>2 DEF Sealed
    <3>2. k \in Of(rows, rows[i].el) /\ rows[k].mark = rows[t].mark
      BY <1>1, <3>1 DEF Of, Ids, Current
    <3>3. k = t
      BY <2>2, <3>2 DEF EndOf
    <3>4. QED
      BY <3>1, <3>3
  <2>3. QED
    BY <2>1, <2>2
<1>3. QED
  BY <1>1, <1>2, SealedIs DEF Current

\* A state that is not deleted has no lost localization.
LEMMA NothingLost ==
    ASSUME Inv, NEW i \in Ids, rows[i].there, ~Sealed(rows[i].el)
    PROVE  rows[i].parts \cap Lost = {}
  BY DEF Inv, LostIsSealed

LEMMA PatchKeeps ==
    ASSUME Inv, NEW i \in Ids, NEW parts \in SUBSET Locs, NEW in_place \in BOOLEAN,
           Patch(i, parts, in_place)
    PROVE  Inv'
<1> DEFINE patched(t) == [rows[t] EXCEPT !.parts = parts,
                             !.segments = IF parts = rows[t].parts THEN @ ELSE CalcSegments(parts)]
           kept(t) == [rows[t] EXCEPT !.parts = parts]
<1>1. PICK t \in EndOf(i) :
         /\ parts \subseteq alive \cup rows[t].parts
         /\ \/ in_place /\ rows' = [rows EXCEPT ![t] = patched(t)] /\ UNCHANGED latest
            \/ rows' = Insert([rows EXCEPT ![t] = kept(t)], patched(t)) /\ Refresh(rows[t].el)
         /\ Attached(rows[t].el, parts \ rows[t].parts, {})
         /\ ~rows[i].gone /\ rows[i].there /\ alive' = alive /\ doomed' = doomed
  BY DEF Patch
<1>2. /\ t \in Ids /\ rows[t].there
      /\ Sealed(rows[t].el) => ~rows[t].gone /\ rows[t].variant
  BY <1>1, EndOfSealed
<1>3. Numbered(rows) /\ rows[t] \in Row /\ latest \in [Elements -> Nat]
  BY <1>2, RowIsRow DEF Inv, Typed, Ids
<1>4. PICK e \in Elements : e = rows[t].el
  BY <1>3 DEF Row
<1>5. /\ patched(t) \in Row /\ patched(t).parts = parts /\ patched(t).el = e
      /\ patched(t).mark = rows[t].mark /\ patched(t).variant = rows[t].variant
      /\ patched(t).gone = rows[t].gone /\ patched(t).there = rows[t].there
  BY <1>3, <1>4 DEF Row, SegmentValues
<1>6. /\ kept(t) \in Row /\ kept(t).parts = parts /\ kept(t).el = e
      /\ kept(t).mark = rows[t].mark /\ kept(t).variant = rows[t].variant
      /\ kept(t).gone = rows[t].gone /\ kept(t).there = rows[t].there
  BY <1>3, <1>4 DEF Row
<1> HIDE DEF patched, kept
<1>7. /\ holders' \in [Locs -> SUBSET Elements]
      /\ excused' \subseteq Locs /\ excused \subseteq excused'
      /\ \A l \in Locs : holders[l] \subseteq holders'[l]
      /\ \A l \in parts \ rows[t].parts : e \in holders'[l]
      /\ (parts \ rows[t].parts) \cap Doomed \subseteq excused'
  <2>1. /\ e \in Elements /\ (parts \ rows[t].parts) \in SUBSET Locs /\ {} \in SUBSET Locs
        /\ Attached(e, parts \ rows[t].parts, {})
    BY <1>1, <1>4
  <2>2. QED
    BY ONLY Inv, <2>1, AttachedTypes
<1>8. \A l \in parts : e \in holders'[l]
  BY <1>2, <1>4, <1>7 DEF Inv, HoldersKnown
<1>9. Lost' \subseteq Lost /\ parts \cap Lost' \subseteq rows[t].parts \cap Lost
  <2>1. Lost' \subseteq Lost
    BY <1>1, <1>7 DEF Lost, Doomed, Pending
  <2>2. (parts \ rows[t].parts) \cap Lost' = {}
    BY <1>1, <1>7 DEF Lost, Doomed, Pending
  <2>3. QED
    BY <2>1, <2>2
<1>10. CASE rows' = [rows EXCEPT ![t] = patched(t)] /\ UNCHANGED latest
  <2>1. /\ Numbered(rows') /\ Ids' = Ids /\ rows'[t] = patched(t)
        /\ \A k \in Ids : k # t => rows'[k] = rows[k]
    BY <1>2, <1>3, <1>5, <1>10, WriteKeepsNumbers DEF Ids
  <2>2. Typed'
    BY <1>1, <1>3, <1>7, <1>10, <2>1 DEF Typed, Inv
  <2>3. HoldersKnown'
    <3> SUFFICES ASSUME NEW k \in Ids', rows'[k].there, NEW l \in rows'[k].parts
                 PROVE  rows'[k].el \in holders'[l]
      BY DEF HoldersKnown
    <3>1. CASE k = t
      BY <3>1, <1>5, <1>8, <2>1
    <3>2. CASE k # t
      <4>1. k \in Ids /\ rows'[k] = rows[k] /\ l \in Locs
        BY <3>2, <2>1, RowIsRow DEF Inv, Typed, Ids, Row
      <4>2. QED
        BY <4>1, <1>7 DEF Inv, HoldersKnown
    <3>3. QED
      BY <3>1, <3>2
  <2>4. \A k \in Ids : k \in Ids' /\ rows'[k].el = rows[k].el /\ rows'[k].mark = rows[k].mark
               /\ rows'[k].variant = rows[k].variant /\ rows'[k].gone = rows[k].gone
               /\ rows'[k].there = rows[k].there
    BY <1>4, <1>5, <2>1
  <2>5. \A k \in Ids' : rows'[k].there =>
               /\ k \in Ids /\ rows[k].el = rows'[k].el
               /\ rows'[k].parts \cap Lost' \subseteq rows[k].parts \cap Lost
    BY <1>4, <1>5, <1>9, <2>1
  <2>6. \A k \in Elements : latest'[k] = latest[k]
    BY <1>10
  <2>7. QED
    <3> DEFINE T == {}
    <3>1. /\ T \in SUBSET Elements
          /\ \A k \in Ids' :
               (rows[k].el \in T /\ rows[k].there /\ rows[k].parts \cap Lost # {}
                    => Sealed(rows[k].el))'
      OBVIOUS
    <3> HIDE DEF T
    <3>2. QED
      BY <2>2, <2>3, <2>4, <2>5, <2>6, <3>1, Untouched
<1>11. CASE rows' = Insert([rows EXCEPT ![t] = kept(t)], patched(t)) /\ Refresh(e)
  <2> PICK table : table = [rows EXCEPT ![t] = kept(t)]
    OBVIOUS
  <2> PICK n : n = Len(table) + 1
    OBVIOUS
  <2>1. /\ Numbered(table) /\ DOMAIN table = Ids /\ table[t] = kept(t)
        /\ \A k \in Ids : k # t => table[k] = rows[k]
    BY <1>2, <1>3, <1>6, WriteKeepsNumbers DEF Ids
  <2>2. rows' = Insert(table, patched(t)) /\ Refresh(patched(t).el)
    BY <1>5, <1>11
  <2>3. /\ Numbered(rows') /\ latest' \in [Elements -> Nat]
        /\ \A k \in Elements \ {e} : latest'[k] = latest[k]
        /\ Ids' = Ids \cup {n} /\ n \notin Ids
        /\ \A k \in Ids : rows'[k] = table[k]
        /\ Copied(rows'[n], patched(t))
    BY <1>3, <1>5, <2>1, <2>2, InsertTypes
  <2>4. rows'[n].el = e /\ rows'[n].parts = parts
    BY <1>5, <2>3 DEF Copied
  <2>5. Typed'
    BY <1>1, <1>7, <2>3 DEF Typed, Inv
  <2>6. \A k \in Ids : rows'[k].el = rows[k].el /\ rows'[k].mark = rows[k].mark
               /\ rows'[k].variant = rows[k].variant /\ rows'[k].gone = rows[k].gone
               /\ rows'[k].there = rows[k].there
    BY <1>4, <1>6, <2>1, <2>3
  <2>7. \A k \in Ids : k # t => rows'[k].parts = rows[k].parts
    BY <2>1, <2>3
  <2>8. rows'[t].parts = parts /\ rows'[t].el = e
    BY <1>2, <1>6, <2>1, <2>3
  <2>9. HoldersKnown'
    <3> SUFFICES ASSUME NEW k \in Ids', rows'[k].there, NEW l \in rows'[k].parts
                 PROVE  rows'[k].el \in holders'[l]
      BY DEF HoldersKnown
    <3>1. CASE k = t \/ k = n
      BY <3>1, <1>8, <2>4, <2>8
    <3>2. CASE k # t /\ k # n
      <4>1. k \in Ids /\ rows'[k].el = rows[k].el /\ rows'[k].parts = rows[k].parts
            /\ rows[k].there /\ rows[k].parts \subseteq Locs
        BY <3>2, <2>3, <2>6, <2>7, RowIsRow DEF Inv, Typed, Ids, Row
      <4>2. QED
        BY <4>1, <1>7 DEF Inv, HoldersKnown
    <3>3. QED
      BY <3>1, <3>2
  <2>10. ASSUME NEW k \in Ids', rows'[k].el = e, rows'[k].there, rows'[k].parts \cap Lost' # {}
         PROVE  Sealed(rows[k].el)'
    <3>1. Sealed(e)
      <4>1. CASE k = t \/ k = n
        <5>1. rows[t].parts \cap Lost # {}
          BY <4>1, <1>9, <2>4, <2>8, <2>10
        <5>2. QED
          BY <5>1, <1>2, <1>4, NothingLost
      <4>2. CASE k # t /\ k # n
        <5>1. k \in Ids /\ rows[k].el = e /\ rows[k].there /\ rows[k].parts \cap Lost # {}
          BY <4>2, <1>9, <2>3, <2>6, <2>7, <2>10
        <5>2. QED
          BY <5>1, NothingLost
      <4>3. QED
        BY <4>1, <4>2
    <3>2. ~patched(t).gone /\ patched(t).there /\ patched(t).variant
      BY <1>2, <1>4, <1>5, <3>1
    <3>3. /\ n \in Ids' /\ rows'[n].el = e /\ Current(n)' /\ rows'[n].variant
          /\ \A j \in Ids' : rows'[j].el = e /\ Current(j)' => j = n
      <4> PICK row \in Row : row = patched(t)
        BY <1>5
      <4>1. /\ Numbered(table) /\ latest \in [Elements -> Nat]
            /\ rows' = Insert(table, row) /\ Refresh(row.el)
            /\ ~row.gone /\ row.there /\ row.el = e /\ row.variant
        BY <1>3, <1>5, <2>1, <2>2, <3>2
      <4>2. /\ n \in Ids' /\ rows'[n].el = row.el /\ Current(n)'
            /\ rows'[n].variant = row.variant
            /\ \A j \in Ids' : rows'[j].el = row.el /\ Current(j)' => j = n
        BY <4>1, InsertEndsBranch
      <4>3. QED
        BY <4>1, <4>2
    <3>4. QED
      BY <2>10, <3>3 DEF Sealed
  <2>11. QED
    <3> DEFINE T == {e}
    <3>1. \A k \in Ids : rows[k].el \notin T =>
               /\ k \in Ids' /\ rows'[k].el = rows[k].el /\ rows'[k].mark = rows[k].mark
               /\ rows'[k].variant = rows[k].variant /\ rows'[k].gone = rows[k].gone
               /\ rows'[k].there = rows[k].there
      BY <2>3, <2>6
    <3>2. \A k \in Ids' : rows'[k].el \notin T /\ rows'[k].there =>
               /\ k \in Ids /\ rows[k].el = rows'[k].el
               /\ rows'[k].parts \cap Lost' \subseteq rows[k].parts \cap Lost
      BY <1>9, <2>3, <2>4, <2>6, <2>7, <2>8
    <3>3. T \in SUBSET Elements /\ \A k \in Elements \ T : latest'[k] = latest[k]
      BY <1>4, <2>3
    <3>4. \A k \in Ids' :
               (rows[k].el \in T /\ rows[k].there /\ rows[k].parts \cap Lost # {}
                    => Sealed(rows[k].el))'
      BY <2>10
    <3> HIDE DEF T
    <3>5. QED
      BY <2>5, <2>9, <3>1, <3>2, <3>3, <3>4, Untouched
<1>12. QED
  BY <1>1, <1>4, <1>10, <1>11

\* A deletion that is appended seals the branch, whatever is lost with it.
LEMMA SealingKeeps ==
    ASSUME Inv, NEW i \in Ids, rows[i].there, NEW row \in Row,
           row.el = rows[i].el, row.variant, ~row.gone, row.there,
           row.parts \subseteq rows[i].parts,
           rows' = Insert(rows, row), Refresh(row.el),
           alive' = alive, doomed' \in [Requests -> (SUBSET Locs) \cup {Idle}],
           excused' = excused, holders' = holders,
           \A k \in Ids : rows[k].el # row.el /\ rows[k].there =>
               rows[k].parts \cap Lost' \subseteq rows[k].parts \cap Lost
    PROVE  Inv'
<1> PICK n : n = Len(rows) + 1
  OBVIOUS
<1> PICK e \in Elements : e = row.el
  BY DEF Row
<1>1. Numbered(rows) /\ latest \in [Elements -> Nat]
  BY DEF Inv, Typed
<1>2. /\ Numbered(rows') /\ latest' \in [Elements -> Nat]
      /\ \A k \in Elements \ {e} : latest'[k] = latest[k]
      /\ Ids' = Ids \cup {n} /\ n \notin Ids
      /\ \A k \in Ids : rows'[k] = rows[k]
      /\ Copied(rows'[n], row)
  BY <1>1, InsertTypes DEF Ids
<1>3. rows'[n].el = e /\ rows'[n].parts = row.parts
  BY <1>2 DEF Copied
<1>4. Typed'
  BY <1>2 DEF Typed, Inv
<1>5. HoldersKnown'
  <2> SUFFICES ASSUME NEW k \in Ids', rows'[k].there, NEW l \in rows'[k].parts
               PROVE  rows'[k].el \in holders'[l]
    BY DEF HoldersKnown
  <2>1. CASE k = n
    BY <2>1, <1>3 DEF Inv, HoldersKnown
  <2>2. CASE k # n
    BY <2>2, <1>2 DEF Inv, HoldersKnown
  <2>3. QED
    BY <2>1, <2>2
<1>6. /\ n \in Ids' /\ rows'[n].el = e /\ Current(n)' /\ rows'[n].variant
      /\ \A j \in Ids' : rows'[j].el = e /\ Current(j)' => j = n
  <2>1. /\ n \in Ids' /\ rows'[n].el = row.el /\ Current(n)'
        /\ rows'[n].variant = row.variant
        /\ \A j \in Ids' : rows'[j].el = row.el /\ Current(j)' => j = n
    BY <1>1, InsertEndsBranch
  <2>2. QED
    BY <2>1
<1>7. Sealed(e)'
  BY <1>6 DEF Sealed
<1>8. QED
  <2> PICK T : T = {e}
    OBVIOUS
  <2>1. \A k \in Ids : rows[k].el \notin T =>
               /\ k \in Ids' /\ rows'[k].el = rows[k].el /\ rows'[k].mark = rows[k].mark
               /\ rows'[k].variant = rows[k].variant /\ rows'[k].gone = rows[k].gone
               /\ rows'[k].there = rows[k].there
    BY <1>2
  <2>2. \A k \in Ids' : rows'[k].el \notin T /\ rows'[k].there =>
               /\ k \in Ids /\ rows[k].el = rows'[k].el
               /\ rows'[k].parts \cap Lost' \subseteq rows[k].parts \cap Lost
    BY <1>2, <1>3
  <2>3. T \in SUBSET Elements /\ \A k \in Elements \ T : latest'[k] = latest[k]
    BY <1>2
  <2>4. \A k \in Ids' :
               (rows[k].el \in T /\ rows[k].there /\ rows[k].parts \cap Lost # {}
                    => Sealed(rows[k].el))'
    BY <1>7
  <2>5. QED
    BY <1>4, <1>5, <2>1, <2>2, <2>3, <2>4, Untouched

LEMMA BulkDeleteKeeps ==
    ASSUME Inv, NEW i \in Ids, BulkDelete(i)
    PROVE  Inv'
<1>1. rows[i] \in Row
  BY RowIsRow DEF Inv, Typed, Ids
<1> PICK row : row = [rows[i] EXCEPT !.variant = TRUE, !.parts = {}]
  OBVIOUS
<1>2. /\ row \in Row /\ row.el = rows[i].el /\ row.variant /\ row.gone = rows[i].gone
      /\ row.there = rows[i].there /\ row.parts = {}
  BY <1>1 DEF Row
<1>3. /\ rows' = Insert(rows, row) /\ Refresh(row.el)
      /\ alive' = alive /\ doomed' = doomed /\ excused' = excused /\ holders' = holders
      /\ ~rows[i].gone /\ rows[i].there
  BY <1>2 DEF BulkDelete, Current
<1>4. Lost' = Lost
  BY <1>3 DEF Lost, Doomed, Pending
<1>5. doomed' \in [Requests -> (SUBSET Locs) \cup {Idle}]
  BY <1>3 DEF Inv, Typed
<1>6. QED
  BY <1>2, <1>3, <1>4, <1>5, SealingKeeps

\* A deletion takes what it looked for with it, and no other row has that.
LEMMA ChildrenAreOwn ==
    ASSUME Inv, NEW i \in Ids
    PROVE  /\ Children(i) \subseteq rows[i].parts /\ rows[i].parts \subseteq Locs
           /\ \A k \in Ids : k # i /\ rows[k].there => rows[k].parts \cap Children(i) = {}
<1>1. rows[i].parts \subseteq Locs
  BY RowIsRow DEF Inv, Typed, Ids, Row
<1>2. ASSUME NEW k \in Ids, k # i, rows[k].there, NEW l \in rows[k].parts, l \in Children(i)
      PROVE  FALSE
  <2>1. Having(l) = {i} /\ k \in Having(l)
    BY <1>2 DEF Children, Having
  <2>2. QED
    BY <1>2, <2>1
<1>3. Children(i) \subseteq rows[i].parts
  BY DEF Children
<1>4. QED
  BY <1>1, <1>2, <1>3

\* What is doomed when a deletion has looked.
LEMMA LookDooms ==
    ASSUME Inv, NEW p \in Requests, NEW parts \in SUBSET Locs,
           doomed[p] = Idle, doomed' = [doomed EXCEPT ![p] = parts]
    PROVE  /\ doomed' \in [Requests -> (SUBSET Locs) \cup {Idle}]
           /\ Doomed' = Doomed \cup parts
<1>1. doomed \in [Requests -> (SUBSET Locs) \cup {Idle}] /\ parts # Idle
  BY StatesConstants DEF Inv, Typed
<1>2. doomed' \in [Requests -> (SUBSET Locs) \cup {Idle}]
  BY <1>1
<1>3. ASSUME NEW l PROVE l \in Doomed' <=> l \in Doomed \cup parts
  <2>1. l \in Doomed' <=> \E q \in Requests : doomed'[q] # Idle /\ l \in doomed'[q]
    BY DEF Doomed, Pending
  <2>2. QED
    BY <1>1, <2>1, DoomedIs
<1>4. QED
  BY <1>2, <1>3

LEMMA DeleteStateKeeps ==
    ASSUME Inv, NEW p \in Requests, NEW i \in Ids, DeleteState(p, i)
    PROVE  Inv'
<1>1. rows[i] \in Row
  BY RowIsRow DEF Inv, Typed, Ids
<1> PICK row : row = [rows[i] EXCEPT !.variant = TRUE]
  OBVIOUS
<1>2. /\ row \in Row /\ row.el = rows[i].el /\ row.variant /\ row.gone = rows[i].gone
      /\ row.there = rows[i].there /\ row.parts = rows[i].parts
  BY <1>1 DEF Row
<1>3. /\ rows' = Insert(rows, row) /\ Refresh(row.el)
      /\ alive' = alive /\ excused' = excused /\ holders' = holders
      /\ ~rows[i].gone /\ rows[i].there
      /\ doomed[p] = Idle /\ doomed' = [doomed EXCEPT ![p] = Children(i)]
  BY <1>2 DEF DeleteState, history
<1>4. Children(i) \in SUBSET Locs
  BY ChildrenAreOwn
<1>5. doomed' \in [Requests -> (SUBSET Locs) \cup {Idle}] /\ Doomed' = Doomed \cup Children(i)
  BY <1>3, <1>4, LookDooms
<1>6. \A k \in Ids : rows[k].el # row.el /\ rows[k].there =>
               rows[k].parts \cap Lost' \subseteq rows[k].parts \cap Lost
  BY <1>2, <1>3, <1>5, ChildrenAreOwn DEF Lost
<1>7. ~row.gone /\ row.there /\ row.parts \subseteq rows[i].parts
  BY <1>2, <1>3
<1>8. QED
  BY <1>2, <1>3, <1>5, <1>6, <1>7, SealingKeeps, ZenonT(60)

\* A pruned revision may bring back what was deleted with it: that is excused.
LEMMA PruneStateKeeps ==
    ASSUME Inv, NEW p \in Requests, NEW i \in Ids, PruneState(p, i)
    PROVE  Inv'
<1>1. Numbered(rows) /\ rows[i] \in Row /\ latest \in [Elements -> Nat]
  BY RowIsRow DEF Inv, Typed, Ids
<1> PICK e \in Elements : e = rows[i].el
  BY <1>1 DEF Row
<1> PICK row : row = [rows[i] EXCEPT !.gone = TRUE]
  OBVIOUS
<1>2. /\ row \in Row /\ row.el = e /\ row.mark = rows[i].mark /\ row.variant = rows[i].variant
      /\ row.there = rows[i].there /\ row.parts = rows[i].parts
  BY <1>1 DEF Row
<1>3. /\ rows' = [rows EXCEPT ![i] = row] /\ Refresh(e)
      /\ excused' = excused \cup {l \in Locs : e \in holders[l]}
      /\ alive' = alive /\ holders' = holders
      /\ doomed[p] = Idle /\ doomed' = [doomed EXCEPT ![p] = Children(i)] /\ rows[i].there
  BY DEF PruneState, Had
<1>4. /\ Numbered(rows') /\ Ids' = Ids /\ rows'[i] = row
      /\ \A k \in Ids : k # i => rows'[k] = rows[k]
  BY <1>1, <1>2, <1>3, WriteKeepsNumbers DEF Ids
<1>5. latest' \in [Elements -> Nat] /\ \A k \in Elements \ {e} : latest'[k] = latest[k]
  BY <1>1, <1>3, <1>4, TopIsTop DEF Refresh
<1>6. Children(i) \in SUBSET Locs
  BY ChildrenAreOwn
<1>7. doomed' \in [Requests -> (SUBSET Locs) \cup {Idle}] /\ Doomed' = Doomed \cup Children(i)
  BY <1>3, <1>6, LookDooms
<1>8. Typed'
  BY <1>3, <1>4, <1>5, <1>7 DEF Inv, Typed
<1>9. \A k \in Ids : rows'[k].el = rows[k].el /\ rows'[k].there = rows[k].there
                     /\ rows'[k].parts = rows[k].parts
  BY <1>2, <1>4
<1>10. HoldersKnown'
  BY <1>3, <1>4, <1>9 DEF Inv, HoldersKnown
<1>11. ASSUME NEW k \in Ids, rows[k].el = e, rows[k].there PROVE rows[k].parts \subseteq excused'
  <2>1. rows[k].parts \subseteq Locs
    BY RowIsRow DEF Inv, Typed, Ids, Row
  <2>2. QED
    BY <1>3, <1>11, <2>1 DEF Inv, HoldersKnown
<1>12. Lost' \subseteq Lost
  BY <1>3, <1>7, <1>11, ChildrenAreOwn DEF Lost
<1>13. QED
  <2> PICK T : T = {e}
    OBVIOUS
  <2>1. \A k \in Ids : rows[k].el \notin T =>
               /\ k \in Ids' /\ rows'[k].el = rows[k].el /\ rows'[k].mark = rows[k].mark
               /\ rows'[k].variant = rows[k].variant /\ rows'[k].gone = rows[k].gone
               /\ rows'[k].there = rows[k].there
    BY <1>4
  <2>2. \A k \in Ids' : rows'[k].el \notin T /\ rows'[k].there =>
               /\ k \in Ids /\ rows[k].el = rows'[k].el
               /\ rows'[k].parts \cap Lost' \subseteq rows[k].parts \cap Lost
    BY <1>4, <1>9, <1>12
  <2>3. T \in SUBSET Elements /\ \A k \in Elements \ T : latest'[k] = latest[k]
    BY <1>5
  <2>4. \A k \in Ids' :
               (rows[k].el \in T /\ rows[k].there /\ rows[k].parts \cap Lost # {}
                    => Sealed(rows[k].el))'
    <3> SUFFICES ASSUME NEW k \in Ids', rows'[k].el \in T, rows'[k].there,
                        rows'[k].parts \cap Lost' # {}
                 PROVE  FALSE
      OBVIOUS
    <3>1. rows'[k].parts \subseteq excused'
      BY <1>4, <1>9, <1>11
    <3>2. QED
      BY <3>1 DEF Lost
  <2>5. QED
    BY <1>8, <1>10, <2>1, <2>2, <2>3, <2>4, Untouched

\* What a merge does to the rows, whichever two it is given.
LEMMA MergedRows ==
    ASSUME Inv, NEW i \in Ids, NEW other \in Ids, Merge(i, other)
    PROVE  /\ Numbered(rows') /\ Ids' = Ids
           /\ \A k \in Ids :
                 /\ rows'[k].el = rows[k].el /\ rows'[k].mark = rows[k].mark
                 /\ rows'[k].variant = rows[k].variant /\ rows'[k].gone = rows[k].gone
                 /\ rows'[k].there <=> rows[k].there /\ k # other
                 /\ k # i /\ k # other => rows'[k] = rows[k]
           /\ rows'[other].parts = {}
           /\ i # other =>
                 /\ rows'[i].parts = rows[i].parts \cup rows[other].parts
                 /\ rows'[i].segments = IF rows[other].parts = {} THEN rows[i].segments
                                        ELSE CalcSegments(rows'[i].parts)
<1>1. Numbered(rows) /\ rows[i] \in Row /\ rows[other] \in Row
  BY RowIsRow DEF Inv, Typed, Ids
<1> PICK parts \in SUBSET Locs : parts = rows[i].parts \cup rows[other].parts
  BY <1>1 DEF Row
<1> PICK into : into = [rows[i] EXCEPT !.parts = parts,
                           !.segments = IF rows[other].parts = {} THEN @ ELSE CalcSegments(parts)]
  OBVIOUS
<1> PICK table : table = [rows EXCEPT ![i] = into]
  OBVIOUS
<1>2. /\ into \in Row /\ into.el = rows[i].el /\ into.mark = rows[i].mark
      /\ into.variant = rows[i].variant /\ into.gone = rows[i].gone
      /\ into.there = rows[i].there /\ into.parts = parts
      /\ into.segments = IF rows[other].parts = {} THEN rows[i].segments ELSE CalcSegments(parts)
  BY <1>1 DEF Row, SegmentValues
<1>3. /\ Numbered(table) /\ DOMAIN table = Ids /\ table[i] = into
      /\ \A k \in Ids : k # i => table[k] = rows[k]
  <2>1. /\ Numbered([rows EXCEPT ![i] = into]) /\ DOMAIN [rows EXCEPT ![i] = into] = DOMAIN rows
        /\ [rows EXCEPT ![i] = into][i] = into
        /\ \A k \in DOMAIN rows : k # i => [rows EXCEPT ![i] = into][k] = rows[k]
    <3>1. i \in DOMAIN rows
      BY DEF Ids
    <3>2. QED
      BY ONLY <1>1, <1>2, <3>1, WriteKeepsNumbers
  <2>2. QED
    BY <2>1 DEF Ids
<1> PICK from : from = [table[other] EXCEPT !.there = FALSE, !.parts = {}]
  OBVIOUS
<1>4. table[other] \in Row
  BY <1>3, RowIsRow
<1>5. /\ from \in Row /\ from.el = table[other].el /\ from.mark = table[other].mark
      /\ from.variant = table[other].variant /\ from.gone = table[other].gone
      /\ ~from.there /\ from.parts = {}
  BY <1>4 DEF Row
<1>6. /\ Numbered([table EXCEPT ![other] = from]) /\ DOMAIN [table EXCEPT ![other] = from] = Ids
      /\ [table EXCEPT ![other] = from][other] = from
      /\ \A k \in Ids : k # other => [table EXCEPT ![other] = from][k] = table[k]
  BY ONLY <1>3, <1>5, WriteKeepsNumbers, other \in Ids
<1>7. rows' = [table EXCEPT ![other] = from]
  BY DEF Merge
<1>8. rows[i].there /\ rows[other].there
  BY DEF Merge
<1>9. /\ Numbered(rows') /\ Ids' = Ids /\ rows'[other] = from
      /\ \A k \in Ids : k # other => rows'[k] = table[k]
  BY <1>6, <1>7 DEF Ids
<1>10. \A k \in Ids : /\ table[k].el = rows[k].el /\ table[k].mark = rows[k].mark
                      /\ table[k].variant = rows[k].variant /\ table[k].gone = rows[k].gone
                      /\ table[k].there = rows[k].there
  BY <1>2, <1>3
<1>11. ASSUME NEW k \in Ids
       PROVE  /\ rows'[k].el = rows[k].el /\ rows'[k].mark = rows[k].mark
              /\ rows'[k].variant = rows[k].variant /\ rows'[k].gone = rows[k].gone
              /\ rows'[k].there <=> rows[k].there /\ k # other
  <2>1. CASE k = other
    <3>1. rows'[k] = from
      BY <1>9, <2>1
    <3>2. /\ from.el = rows[k].el /\ from.mark = rows[k].mark
          /\ from.variant = rows[k].variant /\ from.gone = rows[k].gone
      BY <1>5, <1>10, <2>1
    <3>3. QED
      BY ONLY <1>5, <2>1, <3>1, <3>2
  <2>2. CASE k # other
    <3>1. rows'[k] = table[k]
      BY <1>9, <2>2
    <3>2. /\ table[k].el = rows[k].el /\ table[k].mark = rows[k].mark
          /\ table[k].variant = rows[k].variant /\ table[k].gone = rows[k].gone
          /\ table[k].there = rows[k].there
      BY <1>10
    <3>3. QED
      BY ONLY <2>2, <3>1, <3>2
  <2>3. QED
    BY <2>1, <2>2
<1>13. \A k \in Ids : k # i /\ k # other => rows'[k] = rows[k]
  BY <1>3, <1>9
<1>14. i # other => rows'[i] = into
  BY <1>3, <1>9
<1>15. QED
  <2>1. rows'[other].parts = {}
    BY <1>5, <1>9
  <2>2. i # other =>
            /\ rows'[i].parts = rows[i].parts \cup rows[other].parts
            /\ rows'[i].segments = IF rows[other].parts = {} THEN rows[i].segments
                                   ELSE CalcSegments(rows'[i].parts)
    BY <1>2, <1>14
  <2>3. QED
    BY ONLY <1>9, <1>11, <1>13, <2>1, <2>2

\* What else it does.
LEMMA MergedRest ==
    ASSUME Inv, NEW i \in Ids, NEW other \in Ids, Merge(i, other)
    PROVE  /\ latest' = latest /\ alive' = alive /\ doomed' = doomed
           /\ holders' \in [Locs -> SUBSET Elements]
           /\ excused' \subseteq Locs /\ excused \subseteq excused'
           /\ \A l \in Locs : holders[l] \subseteq holders'[l]
           /\ \A l \in rows[other].parts : rows[i].el \in holders'[l]
           /\ rows[other].parts \cap Lost' = {}
           /\ rows[other].variant => Had(rows[other].el) \subseteq excused'
           /\ Lost' \subseteq Lost
           /\ spoiled' = spoiled \cup IF Shown(other) THEN {} ELSE {rows[other].el}
<1>1. rows[i].el \in Elements /\ rows[other].parts \in SUBSET Locs
  BY RowIsRow DEF Inv, Typed, Ids, Row
<1> PICK withdrawn : withdrawn = IF rows[other].variant THEN Had(rows[other].el) ELSE {}
  OBVIOUS
<1>2. withdrawn \in SUBSET Locs
  BY DEF Had
<1>3. /\ Attached(rows[i].el, rows[other].parts, withdrawn)
      /\ latest' = latest /\ alive' = alive /\ doomed' = doomed
      /\ spoiled' = spoiled \cup IF Shown(other) THEN {} ELSE {rows[other].el}
  BY DEF Merge
<1>4. /\ holders' \in [Locs -> SUBSET Elements]
      /\ excused' \subseteq Locs /\ excused \subseteq excused'
      /\ \A l \in Locs : holders[l] \subseteq holders'[l]
      /\ \A l \in rows[other].parts : rows[i].el \in holders'[l]
      /\ rows[other].parts \cap Doomed \subseteq excused'
      /\ rows[other].parts \ alive \subseteq excused' /\ withdrawn \subseteq excused'
  BY ONLY Inv, <1>1, <1>2, <1>3, AttachedTypes
<1>5. Doomed' = Doomed
  BY <1>3 DEF Doomed, Pending
<1>6. Lost' = ((Locs \ alive) \cup Doomed) \ excused'
  BY <1>3, <1>5 DEF Lost
<1>7. Lost' \subseteq Lost /\ rows[other].parts \cap Lost' = {}
  BY <1>4, <1>6 DEF Lost
<1>8. QED
  BY <1>3, <1>4, <1>7

\* What a merge attaches is not lost, and if it takes a deletion back, nothing of that state.
LEMMA MergeKeeps ==
    ASSUME Inv, NEW i \in Ids, NEW other \in Ids, Merge(i, other)
    PROVE  Inv'
<1>1. Typed'
  BY MergedRows, MergedRest DEF Inv, Typed
<1>2. \A k \in Ids : rows[k].parts \in SUBSET Locs /\ rows[k].el \in Elements
  BY RowIsRow DEF Inv, Typed, Ids, Row
<1>3. ASSUME NEW k \in Ids, rows'[k].there, NEW l \in rows'[k].parts
      PROVE  rows[k].there /\ k # other
             /\ (l \in rows[k].parts \/ (k = i /\ l \in rows[other].parts))
  BY <1>3, MergedRows
<1>4. HoldersKnown'
  <2> SUFFICES ASSUME NEW k \in Ids, rows'[k].there, NEW l \in rows'[k].parts
               PROVE  rows'[k].el \in holders'[l]
    BY MergedRows DEF HoldersKnown
  <2>1. rows'[k].el = rows[k].el
    BY MergedRows
  <2>2. CASE l \in rows[k].parts
    <3>1. rows[k].el \in holders[l]
      BY <1>3, <2>2 DEF Inv, HoldersKnown
    <3>2. QED
      BY <1>2, <2>1, <2>2, <3>1, MergedRest
  <2>3. CASE k = i /\ l \in rows[other].parts
    BY <2>1, <2>3, MergedRest
  <2>4. QED
    BY <1>3, <2>2, <2>3
<1>5. ASSUME NEW k \in Ids, rows'[k].there, rows'[k].parts \cap Lost' # {}
      PROVE  Sealed(rows[k].el)'
  <2> PICK e \in Elements : e = rows[k].el
    BY <1>2
  <2>1. PICK l \in rows'[k].parts : l \in Lost'
    BY <1>5
  <2>2. rows[k].there /\ l \in rows[k].parts /\ l \in Lost
    BY <1>3, <1>5, <2>1, MergedRest
  <2>3. Sealed(e)
    BY <2>2 DEF Inv, LostIsSealed
  <2>4. ~(rows[other].variant /\ rows[other].el = e)
    <3>1. l \in Had(e)
      BY <1>2, <2>2 DEF Inv, HoldersKnown, Had
    <3>2. l \notin excused'
      BY <2>1 DEF Lost
    <3>3. QED
      BY <3>1, <3>2, MergedRest
  <2>5. \A j \in Ids : rows[j].el = e => (Current(j)' <=> Current(j) /\ j # other)
    BY MergedRows, MergedRest DEF Current
  <2>6. \E j \in Ids : rows[j].el = e /\ Current(j) /\ j # other
    BY <2>3, <2>4 DEF Sealed
  <2>7. \A j \in Ids : rows[j].el = e /\ Current(j) => rows[j].variant
    BY <2>3 DEF Sealed
  <2>8. \A j \in Ids : rows'[j].el = rows[j].el /\ rows'[j].variant = rows[j].variant
    BY MergedRows
  <2>9. Ids' = Ids
    BY MergedRows
  <2>10. Sealed(e)'
    BY <2>5, <2>6, <2>7, <2>8, <2>9 DEF Sealed
  <2>11. rows'[k].el = e
    BY <2>8
  <2>12. QED
    BY <2>10, <2>11
<1>6. LostIsSealed'
  BY <1>5, MergedRows DEF LostIsSealed
<1>7. QED
  BY <1>1, <1>4, <1>6 DEF Inv

\* What a trim deletes from the database, no other row has.
LEMMA TrimKeeps ==
    ASSUME Inv, NEW i \in Ids, NEW cut, Trim(i, cut)
    PROVE  Inv'
<1> PICK parts : parts = rows[i].parts \ cut
  OBVIOUS
<1> PICK unused : unused = {l \in cut : Having(l) = {i}}
  OBVIOUS
<1> PICK row : row = [rows[i] EXCEPT !.parts = parts,
                         !.segments = IF cut = {} THEN @ ELSE CalcSegments(parts)]
  OBVIOUS
<1>1. Numbered(rows) /\ rows[i] \in Row
  BY RowIsRow DEF Inv, Typed, Ids
<1>2. parts \in SUBSET Locs
  BY <1>1 DEF Row
<1>3. /\ row \in Row /\ row.el = rows[i].el /\ row.mark = rows[i].mark
      /\ row.variant = rows[i].variant /\ row.gone = rows[i].gone
      /\ row.there = rows[i].there /\ row.parts = parts
  BY <1>1, <1>2 DEF Row, SegmentValues
<1>4. /\ rows' = [rows EXCEPT ![i] = row] /\ alive' = alive \ unused
      /\ latest' = latest /\ doomed' = doomed /\ excused' = excused /\ holders' = holders
      /\ cut \subseteq rows[i].parts
  BY DEF Trim, history
<1>5. /\ Numbered(rows') /\ Ids' = Ids /\ rows'[i] = row
      /\ \A k \in Ids : k # i => rows'[k] = rows[k]
  BY <1>1, <1>3, <1>4, WriteKeepsNumbers DEF Ids
<1>6. Typed'
  BY <1>4, <1>5 DEF Inv, Typed
<1>7. HoldersKnown'
  BY <1>3, <1>4, <1>5 DEF Inv, HoldersKnown
<1>8. Lost' \subseteq Lost \cup unused
  BY <1>4 DEF Lost, Doomed, Pending
<1>9. ASSUME NEW k \in Ids, rows'[k].there
      PROVE  rows'[k].parts \cap Lost' \subseteq rows[k].parts \cap Lost
  <2>1. CASE k = i
    BY <2>1, <1>3, <1>5, <1>8
  <2>2. CASE k # i
    <3>1. rows[k].there /\ rows'[k].parts = rows[k].parts
      BY <1>5, <1>9, <2>2
    <3>2. ASSUME NEW l \in rows[k].parts, l \in unused PROVE FALSE
      <4>1. k \in Having(l) /\ Having(l) = {i}
        BY <3>1, <3>2 DEF Having
      <4>2. QED
        BY <4>1, <2>2
    <3>3. QED
      BY <1>8, <3>1, <3>2
  <2>3. QED
    BY <2>1, <2>2
<1>10. QED
  <2> PICK T : T = {}
    OBVIOUS
  <2>1. \A k \in Ids : rows[k].el \notin T =>
               /\ k \in Ids' /\ rows'[k].el = rows[k].el /\ rows'[k].mark = rows[k].mark
               /\ rows'[k].variant = rows[k].variant /\ rows'[k].gone = rows[k].gone
               /\ rows'[k].there = rows[k].there
    BY <1>3, <1>5
  <2>2. \A k \in Ids' : rows'[k].el \notin T /\ rows'[k].there =>
               /\ k \in Ids /\ rows[k].el = rows'[k].el
               /\ rows'[k].parts \cap Lost' \subseteq rows[k].parts \cap Lost
    BY <1>5, <1>9, <2>1
  <2>3. T \in SUBSET Elements /\ \A k \in Elements \ T : latest'[k] = latest[k]
    BY <1>4
  <2>4. \A k \in Ids' :
               (rows[k].el \in T /\ rows[k].there /\ rows[k].parts \cap Lost # {}
                    => Sealed(rows[k].el))'
    OBVIOUS
  <2>5. QED
    BY <1>6, <1>7, <2>1, <2>2, <2>3, <2>4, Untouched

\* A step that leaves the rows alone and finds localizations again.
LEMMA FoundKeeps ==
    ASSUME Inv, rows' = rows, latest' = latest, holders' = holders, Typed', Lost' \subseteq Lost
    PROVE  Inv'
<1>1. HoldersKnown' /\ Ids' = Ids
  BY DEF Inv, HoldersKnown, Ids
<1> PICK T : T = {}
  OBVIOUS
<1>2. \A k \in Ids : rows[k].el \notin T =>
               /\ k \in Ids' /\ rows'[k].el = rows[k].el /\ rows'[k].mark = rows[k].mark
               /\ rows'[k].variant = rows[k].variant /\ rows'[k].gone = rows[k].gone
               /\ rows'[k].there = rows[k].there
  BY <1>1
<1>3. \A k \in Ids' : rows'[k].el \notin T /\ rows'[k].there =>
               /\ k \in Ids /\ rows[k].el = rows'[k].el
               /\ rows'[k].parts \cap Lost' \subseteq rows[k].parts \cap Lost
  BY <1>1
<1>4. T \in SUBSET Elements /\ \A k \in Elements \ T : latest'[k] = latest[k]
  OBVIOUS
<1>5. \A k \in Ids' :
               (rows[k].el \in T /\ rows[k].there /\ rows[k].parts \cap Lost # {}
                    => Sealed(rows[k].el))'
  OBVIOUS
<1>6. QED
  BY <1>1, <1>2, <1>3, <1>4, <1>5, Untouched

\* A deletion that ends leaves less to delete.
LEMMA EndingDooms ==
    ASSUME Inv, NEW p \in Requests, doomed' = [doomed EXCEPT ![p] = Idle]
    PROVE  /\ doomed' \in [Requests -> (SUBSET Locs) \cup {Idle}]
           /\ Doomed' \subseteq Doomed
           /\ doomed[p] # Idle => doomed[p] \subseteq Doomed /\ doomed[p] \subseteq Locs
<1>1. doomed \in [Requests -> (SUBSET Locs) \cup {Idle}]
  BY DEF Inv, Typed
<1>2. doomed' \in [Requests -> (SUBSET Locs) \cup {Idle}]
  BY <1>1
<1>3. ASSUME NEW l \in Doomed' PROVE l \in Doomed
  <2>1. \E q \in Requests : doomed'[q] # Idle /\ l \in doomed'[q]
    BY <1>3 DEF Doomed, Pending
  <2>2. QED
    BY <1>1, <2>1, DoomedIs
<1>4. doomed[p] # Idle => doomed[p] \subseteq Doomed /\ doomed[p] \subseteq Locs
  BY <1>1, DoomedIs
<1>5. QED
  BY <1>2, <1>3, <1>4

LEMMA DeleteChildrenKeeps ==
    ASSUME Inv, NEW p \in Requests, DeleteChildren(p)
    PROVE  Inv'
<1>1. /\ alive' = alive \ doomed[p] /\ doomed' = [doomed EXCEPT ![p] = Idle] /\ doomed[p] # Idle
      /\ rows' = rows /\ latest' = latest /\ excused' = excused /\ holders' = holders
  BY DEF DeleteChildren, history
<1>2. /\ doomed' \in [Requests -> (SUBSET Locs) \cup {Idle}]
      /\ Doomed' \subseteq Doomed /\ doomed[p] \subseteq Doomed
  BY <1>1, EndingDooms
<1>3. Typed'
  BY <1>1, <1>2 DEF Inv, Typed
<1>4. Lost' \subseteq Lost
  BY <1>1, <1>2 DEF Lost
<1>5. QED
  BY <1>1, <1>3, <1>4, FoundKeeps

LEMMA DieKeeps ==
    ASSUME Inv, NEW p \in Requests, Die(p)
    PROVE  Inv'
<1>1. /\ alive' = alive /\ doomed' = [doomed EXCEPT ![p] = Idle] /\ doomed[p] # Idle
      /\ rows' = rows /\ latest' = latest /\ excused' = excused \cup doomed[p]
      /\ holders' = holders
  BY DEF Die
<1>2. /\ doomed' \in [Requests -> (SUBSET Locs) \cup {Idle}]
      /\ Doomed' \subseteq Doomed /\ doomed[p] \subseteq Locs
  BY <1>1, EndingDooms
<1>3. Typed'
  BY <1>1, <1>2 DEF Inv, Typed
<1>4. Lost' \subseteq Lost
  BY <1>1, <1>2 DEF Lost
<1>5. QED
  BY <1>1, <1>3, <1>4, FoundKeeps

(***************************************************************************)
(* The theorem                                                             *)
(***************************************************************************)

LEMMA StepInv == Inv /\ [Next]_vars => Inv'
<1> SUFFICES ASSUME Inv, [Next]_vars PROVE Inv'
  OBVIOUS
<1>1. ASSUME NEW e \in Elements, NEW parts \in SUBSET alive, Post(e, parts) PROVE Inv'
  BY <1>1, PostKeeps
<1>2. ASSUME NEW i \in Ids, Change(i) PROVE Inv'
  <2>1. ASSUME NEW parts \in SUBSET Locs, NEW in_place \in BOOLEAN, Patch(i, parts, in_place)
        PROVE  Inv'
    BY <2>1, PatchKeeps
  <2>2. CASE BulkDelete(i)
    BY <2>2, BulkDeleteKeeps
  <2>3. ASSUME NEW other \in Ids, Merge(i, other) PROVE Inv'
    BY <2>3, MergeKeeps
  <2>4. ASSUME NEW l \in rows[i].parts,
               Trim(i, Before(i, FrameOf[l])) \/ Trim(i, After(i, FrameOf[l]))
        PROVE  Inv'
    BY <2>4, TrimKeeps
  <2>5. QED
    BY <1>2, <2>1, <2>2, <2>3, <2>4 DEF Change
<1>3. ASSUME NEW p \in Requests, Deletion(p) PROVE Inv'
  BY <1>3, DeleteStateKeeps, PruneStateKeeps, DeleteChildrenKeeps, DieKeeps DEF Deletion
<1>4. CASE UNCHANGED vars
  <2>1. /\ rows' = rows /\ latest' = latest /\ alive' = alive /\ doomed' = doomed
        /\ excused' = excused /\ holders' = holders
    BY <1>4 DEF vars, history
  <2>2. Typed'
    BY <2>1 DEF Inv, Typed
  <2>3. Lost' \subseteq Lost
    BY <2>1 DEF Lost, Doomed, Pending
  <2>4. QED
    BY <2>1, <2>2, <2>3, FoundKeeps
<1>5. QED
  BY <1>1, <1>2, <1>3, <1>4 DEF Next

\* No localization of a state that is shown is deleted with another state, by a trim
\* of it, or by a merge: for any number of states, localizations and deletions at a time
\* (src/api/main/rest/state.py, the deletion of children and TrimStateEnd).
THEOREM ShownPartsStay == Spec => []PartsStayAlive
<1>1. Inv => PartsStayAlive
  BY InvSuffices
<1>2. QED
  BY <1>1, InitInv, StepInv, PTL DEF Spec

(***************************************************************************)
(* Localizations go with the only state that has them                      *)
(*                                                                         *)
(* A state with two rows, the one that was posted and its deletion, was    *)
(* deleted while it had one row.  No other row has what holders says only  *)
(* this state ever had, so the deletion found it.  That the row which was  *)
(* posted can gain nothing afterwards, in a patch or a merge, is because   *)
(* the deletion is the end of the branch.                                  *)
(***************************************************************************)
PrunedIsSpoiled == \A i \in Ids : rows[i].gone => rows[i].el \in spoiled

DeletionIsLast ==
    \A i, k \in Ids :
        /\ rows[i].el = rows[k].el /\ rows[i].el \notin spoiled
        /\ rows[i].there /\ rows[k].there
        /\ ~rows[i].variant /\ rows[k].variant
        => rows[i].mark < latest[rows[i].el]

\* The rows of a state are one, i, and its deletion, k.
DeletedOnce(i, k) ==
    /\ rows[i].el = rows[k].el /\ rows[i].el \in WithChildren \ spoiled
    /\ rows[i].there /\ rows[k].there
    /\ ~rows[i].variant /\ rows[k].variant
    /\ \A j \in Ids : rows[j].el = rows[i].el /\ rows[j].there => j \in {i, k}

Away == (Locs \ alive) \cup Doomed \cup excused

OwnIsAway ==
    \A i, k \in Ids : DeletedOnce(i, k) =>
        \A l \in rows[i].parts : holders[l] = {rows[i].el} => l \in Away

Once == Inv /\ PrunedIsSpoiled /\ DeletionIsLast /\ OwnIsAway

LEMMA OnceSuffices == Once => ChildrenGo
<1> SUFFICES ASSUME Once, Pending = {}, NEW l \in alive \ excused, NEW e \in WithChildren,
                    OnceWritten(e), holders[l] = {e}, NEW j \in Of(rows, e), l \in rows[j].parts
             PROVE  FALSE
  BY DEF ChildrenGo
<1>1. PICK i \in Ids, k \in Ids :
         /\ Of(rows, e) = {i, k} /\ e \notin spoiled
         /\ ~rows[i].variant /\ rows[k].variant /\ rows[i].parts = rows[k].parts
  BY DEF OnceWritten
<1>2. DeletedOnce(i, k) /\ rows[i].el = e
  BY <1>1, MarksAre DEF DeletedOnce, Ids
<1>3. l \in rows[i].parts
  BY <1>1
<1>4. l \in Away
  BY <1>2, <1>3 DEF Once, OwnIsAway
<1>5. Doomed = {}
  BY DEF Doomed
<1>6. QED
  BY <1>4, <1>5 DEF Away

\* A step without a new row, by which no pair of rows becomes a state deleted once
\* and no such state gains a localization.
LEMMA StaysOnce ==
    ASSUME Once, Inv', Ids' = Ids, spoiled \subseteq spoiled', Away \subseteq Away',
           \A k \in Ids : rows'[k].el = rows[k].el /\ (rows'[k].there => rows[k].there),
           \A k \in Ids : rows[k].el \notin spoiled' =>
               /\ rows'[k].variant = rows[k].variant /\ rows'[k].gone = rows[k].gone
               /\ rows'[k].mark = rows[k].mark,
           \A e \in Elements : e \notin spoiled' => latest'[e] = latest[e],
           \A l \in Locs : holders[l] \subseteq holders'[l],
           \A i, k \in Ids : DeletedOnce(i, k)' =>
               DeletedOnce(i, k) /\ rows'[i].parts \subseteq rows[i].parts
    PROVE  Once'
<1>1. \A k \in Ids : rows[k].el \in Elements /\ rows[k].parts \subseteq Locs
  BY RowIsRow DEF Once, Inv, Typed, Ids, Row
<1>2. PrunedIsSpoiled'
  BY DEF Once, PrunedIsSpoiled
<1>3. DeletionIsLast'
  BY <1>1 DEF Once, DeletionIsLast
<1>4. ASSUME NEW i \in Ids, NEW k \in Ids, DeletedOnce(i, k)',
             NEW l \in rows'[i].parts, holders'[l] = {rows'[i].el}
      PROVE  l \in Away'
  <2>1. DeletedOnce(i, k) /\ l \in rows[i].parts
    BY <1>4
  <2>2. rows[i].there /\ rows[i].el = rows'[i].el
    BY <2>1 DEF DeletedOnce
  <2>3. rows[i].el \in holders[l]
    BY <2>1, <2>2 DEF Once, Inv, HoldersKnown
  <2>4. holders[l] = {rows[i].el}
    BY <1>1, <1>4, <2>1, <2>2, <2>3
  <2>5. QED
    BY <2>1, <2>4 DEF Once, OwnIsAway
<1>5. OwnIsAway'
  BY <1>4 DEF OwnIsAway
<1>6. QED
  BY <1>2, <1>3, <1>5 DEF Once

\* A step that inserts the row n at the end of the branch of e.
LEMMA InsertOnce ==
    ASSUME Once, Inv', NEW n, n \notin Ids, Ids' = Ids \cup {n}, NEW e \in Elements,
           spoiled \subseteq spoiled', Away \subseteq Away',
           \A k \in Ids : /\ rows'[k].el = rows[k].el /\ rows'[k].there = rows[k].there
                          /\ rows'[k].variant = rows[k].variant
                          /\ rows'[k].gone = rows[k].gone /\ rows'[k].mark = rows[k].mark
                          /\ rows[k].el # e => rows'[k].parts = rows[k].parts,
           rows'[n].el = e, rows'[n].there, rows'[n].gone => e \in spoiled',
           \A d \in Elements \ {e} : latest'[d] = latest[d],
           e \in spoiled' \/ \A k \in Ids :
               rows[k].el = e /\ rows[k].there /\ ~rows[k].gone => rows[k].mark < latest'[e],
           \A l \in Locs : holders[l] \subseteq holders'[l],
           e \in spoiled' \/ rows'[n].variant
               \/ \A k \in Ids : rows[k].el = e /\ rows[k].there => ~rows[k].variant,
           \A i \in Ids : DeletedOnce(i, n)' =>
               \A l \in rows'[i].parts : holders'[l] = {e} => l \in Away',
           \A i, k \in Ids' : DeletedOnce(i, k)' /\ rows'[i].el = e => i \in Ids /\ k = n
    PROVE  Once'
<1>1. \A k \in Ids : rows[k].el \in Elements /\ rows[k].parts \subseteq Locs
  BY RowIsRow DEF Once, Inv, Typed, Ids, Row
<1>2. PrunedIsSpoiled'
  BY DEF Once, PrunedIsSpoiled
<1>3. ASSUME NEW i \in Ids', NEW k \in Ids', rows'[i].el = rows'[k].el, rows'[i].el \notin spoiled',
             rows'[i].there, rows'[k].there, ~rows'[i].variant, rows'[k].variant
      PROVE  rows'[i].mark < latest'[rows'[i].el]
  <2>1. CASE rows'[i].el = e
    <3>1. i # n
      BY <1>3, <2>1
    <3>2. i \in Ids /\ ~rows[i].gone
      BY <1>3, <2>1, <3>1 DEF Once, PrunedIsSpoiled
    <3>3. QED
      BY <1>3, <2>1, <3>2
  <2>2. CASE rows'[i].el # e
    <3>1. i \in Ids /\ k \in Ids
      BY <1>3, <2>2
    <3>2. rows[i].mark < latest[rows[i].el]
      BY <1>3, <3>1 DEF Once, DeletionIsLast
    <3>3. QED
      BY <1>1, <2>2, <3>1, <3>2
  <2>3. QED
    BY <2>1, <2>2
<1>4. DeletionIsLast'
  BY <1>3 DEF DeletionIsLast
<1>5. ASSUME NEW i \in Ids', NEW k \in Ids', DeletedOnce(i, k)',
             NEW l \in rows'[i].parts, holders'[l] = {rows'[i].el}
      PROVE  l \in Away'
  <2>1. CASE rows'[i].el = e
    BY <1>5, <2>1
  <2>2. CASE rows'[i].el # e
    <3>1. i \in Ids /\ k \in Ids /\ rows'[i].parts = rows[i].parts /\ rows'[i].el = rows[i].el
      BY <1>5, <2>2 DEF DeletedOnce
    <3>2. DeletedOnce(i, k)
      BY <1>5, <3>1 DEF DeletedOnce
    <3>3. rows[i].el \in holders[l]
      BY <1>5, <3>1, <3>2 DEF Once, Inv, HoldersKnown, DeletedOnce
    <3>4. holders[l] = {rows[i].el}
      BY <1>1, <1>5, <3>1, <3>3
    <3>5. QED
      BY <1>5, <3>1, <3>2, <3>4 DEF Once, OwnIsAway
  <2>3. QED
    BY <2>1, <2>2
<1>6. OwnIsAway'
  BY <1>5 DEF OwnIsAway
<1>7. QED
  BY <1>2, <1>4, <1>6 DEF Once

\* The new row is above the others, and says so.
LEMMA InsertIsLast ==
    ASSUME NEW table, Numbered(table), NEW row \in Row, ~row.gone, row.there,
           latest \in [Elements -> Nat],
           rows' = Insert(table, row), Refresh(row.el)
    PROVE  \A k \in DOMAIN table :
               table[k].el = row.el /\ table[k].there /\ ~table[k].gone =>
                   table[k].mark < latest'[row.el]
<1> PICK n : n = Len(table) + 1
  OBVIOUS
<1>1. /\ rows'[n].mark = Top(rows', row.el)
      /\ \A i \in Of(table, row.el) : ~table[i].gone => table[i].mark < rows'[n].mark
  BY InsertIsEnd
<1>2. latest'[row.el] = Top(rows', row.el)
  BY DEF Refresh, Row
<1>3. QED
  BY <1>1, <1>2 DEF Of

LEMMA PostOnce ==
    ASSUME Once, Inv', NEW e \in Elements, NEW parts \in SUBSET alive, Post(e, parts)
    PROVE  Once'
<1> DEFINE row == [el |-> e, mark |-> 0, variant |-> FALSE, gone |-> FALSE,
                   there |-> TRUE, parts |-> parts, segments |-> SplitSegments(parts)]
<1> PICK n : n = Len(rows) + 1
  OBVIOUS
<1>1. parts \in SUBSET Locs
  BY DEF Once, Inv, Typed
<1>2. row \in Row /\ row.el = e /\ ~row.gone /\ row.there /\ ~row.variant
  BY <1>1 DEF Row, SegmentValues
<1>3. /\ Numbered(rows) /\ latest \in [Elements -> Nat]
      /\ rows' = Insert(rows, row) /\ Refresh(row.el)
      /\ Attached(e, parts, {}) /\ alive' = alive /\ doomed' = doomed /\ spoiled' = spoiled
  BY <1>2 DEF Post, Once, Inv, Typed
<1> HIDE DEF row
<1>4. /\ \A d \in Elements \ {e} : latest'[d] = latest[d]
      /\ Ids' = Ids \cup {n} /\ n \notin Ids
      /\ \A i \in Ids : rows'[i] = rows[i]
      /\ Copied(rows'[n], row)
  BY <1>2, <1>3, InsertTypes DEF Ids
<1>5. rows'[n].el = e /\ rows'[n].there /\ ~rows'[n].gone
  BY <1>2, <1>4 DEF Copied
<1>6. excused \subseteq excused' /\ \A l \in Locs : holders[l] \subseteq holders'[l]
  BY <1>1, <1>3, AttachedTypes DEF Once
<1>7. Away \subseteq Away'
  BY <1>3, <1>6 DEF Away, Doomed, Pending
<1>8. \A i \in Ids : rows[i].el # e
  BY DEF Post
<1>9. \A i, k \in Ids' : DeletedOnce(i, k)' => rows'[i].el # e
  BY <1>4, <1>8 DEF DeletedOnce
<1>10. \A i \in Ids : ~DeletedOnce(i, n)'
  BY <1>4, <1>5, <1>8 DEF DeletedOnce
<1>11. QED
  BY <1>3, <1>4, <1>5, <1>6, <1>7, <1>8, <1>9, <1>10, InsertOnce

\* A PATCH goes to the end of the branch: if there is a deletion, to a deletion.
LEMMA PatchOnce ==
    ASSUME Once, Inv', NEW i \in Ids, NEW parts \in SUBSET Locs, NEW in_place \in BOOLEAN,
           Patch(i, parts, in_place)
    PROVE  Once'
<1> DEFINE patched(t) == [rows[t] EXCEPT !.parts = parts,
                             !.segments = IF parts = rows[t].parts THEN @ ELSE CalcSegments(parts)]
           kept(t) == [rows[t] EXCEPT !.parts = parts]
<1>1. PICK t \in EndOf(i) :
         /\ \/ in_place /\ rows' = [rows EXCEPT ![t] = patched(t)] /\ UNCHANGED latest
            \/ rows' = Insert([rows EXCEPT ![t] = kept(t)], patched(t)) /\ Refresh(rows[t].el)
         /\ Attached(rows[t].el, parts \ rows[t].parts, {})
         /\ ~rows[i].gone /\ rows[i].there /\ alive' = alive /\ doomed' = doomed
         /\ spoiled' = spoiled
  BY DEF Patch
<1>2. /\ t \in Ids /\ rows[t].there /\ rows[t].el = rows[i].el
      /\ rows[t].mark = latest[rows[t].el]
  BY DEF EndOf, Of, Ids
<1>3. Inv /\ Numbered(rows) /\ rows[t] \in Row /\ latest \in [Elements -> Nat]
  BY <1>2, RowIsRow DEF Once, Inv, Typed, Ids
<1>4. PICK e \in Elements : e = rows[t].el
  BY <1>3 DEF Row
<1>5. /\ patched(t) \in Row /\ patched(t).el = e
      /\ patched(t).mark = rows[t].mark /\ patched(t).variant = rows[t].variant
      /\ patched(t).gone = rows[t].gone /\ patched(t).there = rows[t].there
  BY <1>3, <1>4 DEF Row, SegmentValues
<1>6. /\ kept(t) \in Row /\ kept(t).el = e
      /\ kept(t).mark = rows[t].mark /\ kept(t).variant = rows[t].variant
      /\ kept(t).gone = rows[t].gone /\ kept(t).there = rows[t].there
  BY <1>3, <1>4 DEF Row
<1> HIDE DEF patched, kept
<1>7. excused \subseteq excused' /\ \A l \in Locs : holders[l] \subseteq holders'[l]
  <2>1. /\ e \in Elements /\ (parts \ rows[t].parts) \in SUBSET Locs /\ {} \in SUBSET Locs
        /\ Attached(e, parts \ rows[t].parts, {})
    BY <1>1, <1>3, <1>4
  <2>2. QED
    BY <1>1, <2>1, AttachedTypes DEF Once
<1>8. Away \subseteq Away'
  BY <1>1, <1>7 DEF Away, Doomed, Pending
<1>9. ASSUME NEW k \in Ids, rows[k].el = e, rows[k].there, rows[k].variant, e \notin spoiled
      PROVE  rows[t].variant
  <2>1. latest[e] \in Nat /\ rows[t].mark = latest[e]
    BY <1>2, <1>3, <1>4
  <2>2. ~rows[t].variant => rows[t].mark < latest[e]
    BY <1>2, <1>4, <1>9 DEF Once, DeletionIsLast
  <2>3. QED
    BY <2>1, <2>2
<1>10. CASE rows' = [rows EXCEPT ![t] = patched(t)] /\ UNCHANGED latest
  <2>1. /\ Ids' = Ids /\ rows'[t] = patched(t)
        /\ \A k \in Ids : k # t => rows'[k] = rows[k]
    BY <1>2, <1>3, <1>5, <1>10, WriteKeepsNumbers DEF Ids
  <2>2. \A k \in Ids : rows'[k].el = rows[k].el /\ rows'[k].there = rows[k].there
          /\ rows'[k].variant = rows[k].variant /\ rows'[k].gone = rows[k].gone
          /\ rows'[k].mark = rows[k].mark
    BY <1>4, <1>5, <2>1
  <2>3. ASSUME NEW j \in Ids, NEW k \in Ids, DeletedOnce(j, k)'
        PROVE  DeletedOnce(j, k) /\ rows'[j].parts \subseteq rows[j].parts
    <3>1. DeletedOnce(j, k)
      BY <1>1, <2>1, <2>2, <2>3 DEF DeletedOnce
    <3>2. j # t
      BY <1>4, <1>9, <3>1 DEF DeletedOnce
    <3>3. QED
      BY <2>1, <3>1, <3>2
  <2>4. spoiled \subseteq spoiled' /\ \A d \in Elements : latest'[d] = latest[d]
    BY <1>1, <1>10
  <2>5. QED
    BY <1>7, <1>8, <2>1, <2>2, <2>3, <2>4, StaysOnce
<1>11. CASE rows' = Insert([rows EXCEPT ![t] = kept(t)], patched(t)) /\ Refresh(e)
  <2> PICK table : table = [rows EXCEPT ![t] = kept(t)]
    OBVIOUS
  <2> PICK n : n = Len(table) + 1
    OBVIOUS
  <2> PICK new \in Row : new = patched(t)
    BY <1>5
  <2>1. /\ Numbered(table) /\ DOMAIN table = Ids /\ table[t] = kept(t)
        /\ \A k \in Ids : k # t => table[k] = rows[k]
    BY <1>2, <1>3, <1>6, WriteKeepsNumbers DEF Ids
  <2>2. rows' = Insert(table, new) /\ Refresh(new.el) /\ new.el = e
    BY <1>5, <1>11
  <2>3. /\ \A d \in Elements \ {e} : latest'[d] = latest[d]
        /\ Ids' = Ids \cup {n} /\ n \notin Ids
        /\ \A k \in Ids : rows'[k] = table[k]
        /\ Copied(rows'[n], new)
    BY <1>3, <2>1, <2>2, InsertTypes
  <2>4. /\ rows'[n].el = e /\ rows'[n].there /\ rows'[n].gone = rows[t].gone
        /\ rows'[n].variant = rows[t].variant
    BY <1>2, <1>5, <2>3 DEF Copied
  <2>5. \A k \in Ids : /\ rows'[k].el = rows[k].el /\ rows'[k].there = rows[k].there
                       /\ rows'[k].variant = rows[k].variant
                       /\ rows'[k].gone = rows[k].gone /\ rows'[k].mark = rows[k].mark
                       /\ rows[k].el # e => rows'[k].parts = rows[k].parts
    BY <1>4, <1>6, <2>1, <2>3
  <2>6. e \in spoiled' \/ \A k \in Ids :
               rows[k].el = e /\ rows[k].there /\ ~rows[k].gone => rows[k].mark < latest'[e]
    <3>1. CASE rows[t].gone
      BY <1>1, <1>2, <1>4, <3>1 DEF Once, PrunedIsSpoiled
    <3>2. CASE ~rows[t].gone
      <4>1. ~new.gone /\ new.there
        BY <1>2, <1>5, <3>2
      <4>2. \A k \in Ids : table[k].el = e /\ table[k].there /\ ~table[k].gone =>
                             table[k].mark < latest'[e]
        <5>1. /\ Numbered(table) /\ latest \in [Elements -> Nat]
              /\ rows' = Insert(table, new) /\ Refresh(new.el)
          BY <1>3, <2>1, <2>2
        <5>2. \A k \in DOMAIN table :
                 table[k].el = new.el /\ table[k].there /\ ~table[k].gone =>
                     table[k].mark < latest'[new.el]
          BY ONLY <4>1, <5>1, InsertIsLast
        <5>3. QED
          BY <2>1, <2>2, <5>2
      <4>3. QED
        BY <2>3, <2>5, <4>2
    <3>3. QED
      BY <3>1, <3>2
  <2>7. rows'[n].gone => e \in spoiled'
    BY <1>1, <1>2, <1>4, <2>4 DEF Once, PrunedIsSpoiled
  <2>8. e \in spoiled' \/ rows'[n].variant
          \/ \A k \in Ids : rows[k].el = e /\ rows[k].there => ~rows[k].variant
    BY <1>1, <1>9, <2>4
  <2>9. ASSUME NEW j \in Ids', NEW k \in Ids', DeletedOnce(j, k)', rows'[j].el = e
        PROVE  FALSE
    <3>1. t \in {j, k} /\ n \in {j, k} /\ t # n
      BY <1>2, <1>4, <2>3, <2>4, <2>5, <2>9 DEF DeletedOnce
    <3>2. rows'[t].variant = rows'[n].variant
      BY <1>2, <2>4, <2>5
    <3>3. QED
      BY <2>9, <3>1, <3>2 DEF DeletedOnce
  <2>10. \A j \in Ids : ~DeletedOnce(j, n)'
    BY <2>3, <2>4, <2>9 DEF DeletedOnce
  <2>11. QED
    BY <1>1, <1>7, <1>8, <2>3, <2>4, <2>5, <2>6, <2>7, <2>8, <2>9, <2>10, InsertOnce
<1>12. QED
  BY <1>1, <1>4, <1>10, <1>11

\* A deletion that is appended after rows of which it is told.
LEMMA AppendOnce ==
    ASSUME Once, Inv', NEW i \in Ids, rows[i].there, ~rows[i].gone, NEW row \in Row,
           row.el = rows[i].el, row.variant, ~row.gone, row.there,
           rows' = Insert(rows, row), Refresh(row.el),
           spoiled \subseteq spoiled', Away \subseteq Away', holders' = holders,
           \/ row.el \in spoiled'
           \/ row.parts = rows[i].parts /\
              \A l \in rows[i].parts : row.el \in WithChildren /\ Having(l) = {i} => l \in Away'
    PROVE  Once'
<1> PICK n : n = Len(rows) + 1
  OBVIOUS
<1> PICK e \in Elements : e = row.el
  BY DEF Row
<1>1. Numbered(rows) /\ latest \in [Elements -> Nat]
  BY DEF Once, Inv, Typed
<1>2. /\ \A d \in Elements \ {e} : latest'[d] = latest[d]
      /\ Ids' = Ids \cup {n} /\ n \notin Ids
      /\ \A k \in Ids : rows'[k] = rows[k]
      /\ Copied(rows'[n], row)
  BY <1>1, InsertTypes DEF Ids
<1>3. rows'[n].el = e /\ rows'[n].there /\ ~rows'[n].gone /\ rows'[n].variant
  BY <1>2 DEF Copied
<1>4. \A k \in Ids : rows[k].el = e /\ rows[k].there /\ ~rows[k].gone => rows[k].mark < latest'[e]
  BY <1>1, InsertIsLast DEF Ids
<1>5. ASSUME NEW j \in Ids', NEW k \in Ids', DeletedOnce(j, k)', rows'[j].el = e
      PROVE  j = i /\ j \in Ids /\ k = n /\ e \notin spoiled'
  <2>1. i \in {j, k} /\ n \in {j, k} /\ i # n /\ j # n
    BY <1>2, <1>3, <1>5 DEF DeletedOnce
  <2>2. QED
    BY <1>5, <2>1 DEF DeletedOnce
<1>6. ASSUME NEW j \in Ids, DeletedOnce(j, n)', NEW l \in rows'[j].parts, holders'[l] = {e}
      PROVE  l \in Away'
  <2>1. rows'[j].el = e
    BY <1>3, <1>6 DEF DeletedOnce
  <2>2. j = i /\ e \notin spoiled'
    BY <1>2, <1>5, <1>6, <2>1
  <2>3. e \in WithChildren
    BY <1>6, <2>1 DEF DeletedOnce
  <2>4. ASSUME NEW k \in Ids, rows[k].there, l \in rows[k].parts PROVE k = i
    <3>1. rows[k].el = e
      BY <1>6, <2>4 DEF Once, Inv, HoldersKnown
    <3>2. k \in {j, n}
      BY <1>2, <1>6, <2>1, <2>4, <3>1 DEF DeletedOnce
    <3>3. QED
      BY <1>2, <2>2, <3>2
  <2>5. Having(l) = {i}
    BY <1>2, <1>6, <2>2, <2>4 DEF Having
  <2>6. QED
    BY <1>2, <1>6, <2>2, <2>3, <2>5
<1>7. \A k \in Ids : /\ rows'[k].el = rows[k].el /\ rows'[k].there = rows[k].there
                     /\ rows'[k].variant = rows[k].variant
                     /\ rows'[k].gone = rows[k].gone /\ rows'[k].mark = rows[k].mark
                     /\ rows[k].el # e => rows'[k].parts = rows[k].parts
  BY <1>2
<1>8. \A l \in Locs : holders[l] \subseteq holders'[l]
  OBVIOUS
<1>9. \A j, k \in Ids' : DeletedOnce(j, k)' /\ rows'[j].el = e => j \in Ids /\ k = n
  BY <1>5
<1>10. \A j \in Ids : DeletedOnce(j, n)' =>
           \A l \in rows'[j].parts : holders'[l] = {e} => l \in Away'
  BY <1>6
<1>11. /\ n \notin Ids /\ Ids' = Ids \cup {n}
       /\ rows'[n].el = e /\ rows'[n].there /\ (rows'[n].gone => e \in spoiled')
       /\ \A d \in Elements \ {e} : latest'[d] = latest[d]
       /\ e \in spoiled' \/ \A k \in Ids :
             rows[k].el = e /\ rows[k].there /\ ~rows[k].gone => rows[k].mark < latest'[e]
       /\ e \in spoiled' \/ rows'[n].variant
             \/ \A k \in Ids : rows[k].el = e /\ rows[k].there => ~rows[k].variant
  BY <1>2, <1>3, <1>4
<1>12. spoiled \subseteq spoiled' /\ Away \subseteq Away'
  OBVIOUS
<1>13. Once /\ Inv'
  OBVIOUS
<1>14. QED
  BY ONLY <1>7, <1>8, <1>9, <1>10, <1>11, <1>12, <1>13, InsertOnce

LEMMA BulkDeleteOnce ==
    ASSUME Once, Inv', NEW i \in Ids, BulkDelete(i)
    PROVE  Once'
<1>1. rows[i] \in Row
  BY RowIsRow DEF Once, Inv, Typed, Ids
<1> PICK row : row = [rows[i] EXCEPT !.variant = TRUE, !.parts = {}]
  OBVIOUS
<1>2. /\ row \in Row /\ row.el = rows[i].el /\ row.variant /\ row.gone = rows[i].gone
      /\ row.there = rows[i].there
  BY <1>1 DEF Row
<1>3. /\ rows' = Insert(rows, row) /\ Refresh(row.el)
      /\ alive' = alive /\ doomed' = doomed /\ excused' = excused /\ holders' = holders
      /\ ~rows[i].gone /\ rows[i].there
      /\ spoiled' = spoiled \cup {row.el}
  BY <1>2 DEF BulkDelete, Current
<1>4. Away' = Away
  BY <1>3 DEF Away, Doomed, Pending
<1>5. ~row.gone /\ row.there /\ row.el \in spoiled' /\ spoiled \subseteq spoiled'
  BY <1>2, <1>3
<1>6. QED
  BY <1>2, <1>3, <1>4, <1>5, AppendOnce

\* The only row of a state has its localizations alone, and the deletion takes them.
LEMMA DeleteStateOnce ==
    ASSUME Once, Inv', NEW p \in Requests, NEW i \in Ids, DeleteState(p, i)
    PROVE  Once'
<1>1. rows[i] \in Row /\ Inv
  BY RowIsRow DEF Once, Inv, Typed, Ids
<1> PICK row : row = [rows[i] EXCEPT !.variant = TRUE]
  OBVIOUS
<1>2. /\ row \in Row /\ row.el = rows[i].el /\ row.variant /\ row.gone = rows[i].gone
      /\ row.there = rows[i].there /\ row.parts = rows[i].parts
  BY <1>1 DEF Row
<1>3. /\ rows' = Insert(rows, row) /\ Refresh(row.el)
      /\ alive' = alive /\ excused' = excused /\ holders' = holders /\ spoiled' = spoiled
      /\ ~rows[i].gone /\ rows[i].there
      /\ doomed[p] = Idle /\ doomed' = [doomed EXCEPT ![p] = Children(i)]
  BY <1>2 DEF DeleteState, history
<1>4. Children(i) \in SUBSET Locs
  BY <1>1, ChildrenAreOwn
<1>5. Doomed' = Doomed \cup Children(i)
  BY <1>1, <1>3, <1>4, LookDooms
<1>6. Away \subseteq Away' /\ Children(i) \subseteq Away'
  BY <1>3, <1>5 DEF Away
<1>7. \A l \in rows[i].parts : row.el \in WithChildren /\ Having(l) = {i} => l \in Away'
  BY <1>2, <1>6 DEF Children
<1>8. ~row.gone /\ row.there /\ spoiled \subseteq spoiled'
  BY <1>2, <1>3
<1>9. QED
  BY <1>2, <1>3, <1>6, <1>7, <1>8, AppendOnce

LEMMA PruneStateOnce ==
    ASSUME Once, Inv', NEW p \in Requests, NEW i \in Ids, PruneState(p, i)
    PROVE  Once'
<1>1. Inv /\ Numbered(rows) /\ rows[i] \in Row /\ latest \in [Elements -> Nat]
  BY RowIsRow DEF Once, Inv, Typed, Ids
<1> PICK e \in Elements : e = rows[i].el
  BY <1>1 DEF Row
<1> PICK row : row = [rows[i] EXCEPT !.gone = TRUE]
  OBVIOUS
<1>2. /\ row \in Row /\ row.el = e /\ row.mark = rows[i].mark /\ row.there = rows[i].there
  BY <1>1 DEF Row
<1>3. /\ rows' = [rows EXCEPT ![i] = row] /\ Refresh(e)
      /\ excused \subseteq excused' /\ spoiled' = spoiled \cup {e}
      /\ alive' = alive /\ holders' = holders
      /\ doomed[p] = Idle /\ doomed' = [doomed EXCEPT ![p] = Children(i)]
  BY DEF PruneState
<1>4. /\ Ids' = Ids /\ rows'[i] = row
      /\ \A k \in Ids : k # i => rows'[k] = rows[k]
  BY <1>1, <1>2, <1>3, WriteKeepsNumbers DEF Ids
<1>5. \A k \in Elements : k \notin spoiled' => latest'[k] = latest[k]
  BY <1>1, <1>3 DEF Refresh
<1>6. Doomed' = Doomed \cup Children(i)
  BY <1>1, <1>3, LookDooms, ChildrenAreOwn
<1>7. Away \subseteq Away'
  BY <1>3, <1>6 DEF Away
<1>8. \A k \in Ids : rows'[k].el = rows[k].el /\ (rows'[k].there => rows[k].there)
  BY <1>2, <1>4
<1>9. \A k \in Ids : rows[k].el \notin spoiled' => rows'[k] = rows[k]
  BY <1>3, <1>4
<1>10. ASSUME NEW j \in Ids, NEW k \in Ids, DeletedOnce(j, k)'
       PROVE  DeletedOnce(j, k) /\ rows'[j].parts \subseteq rows[j].parts
  <2>1. rows[j].el = rows'[j].el /\ rows[j].el \notin spoiled' /\ rows[k].el = rows[j].el
    BY <1>8, <1>10 DEF DeletedOnce
  <2>2. \A m \in Ids : rows[m].el = rows[j].el => rows'[m] = rows[m]
    BY <1>9, <2>1
  <2>3. QED
    BY <1>3, <1>4, <1>10, <2>1, <2>2 DEF DeletedOnce
<1>11. spoiled \subseteq spoiled' /\ \A l \in Locs : holders[l] \subseteq holders'[l]
  BY <1>3
<1>12. QED
  BY <1>4, <1>5, <1>7, <1>8, <1>9, <1>10, <1>11, StaysOnce

\* A row that is shown is no row of a state that is deleted; if another is merged, the
\* state is spoiled.  What a merge brings into a state, another state had before.
LEMMA MergeOnce ==
    ASSUME Once, Inv', NEW i \in Ids, NEW other \in Ids, Merge(i, other)
    PROVE  Once'
<1>1. Inv
  BY DEF Once
<1>2. /\ Ids' = Ids
      /\ \A k \in Ids :
                 /\ rows'[k].el = rows[k].el /\ rows'[k].mark = rows[k].mark
                 /\ rows'[k].variant = rows[k].variant /\ rows'[k].gone = rows[k].gone
                 /\ rows'[k].there <=> rows[k].there /\ k # other
                 /\ k # i /\ k # other => rows'[k] = rows[k]
      /\ i # other => rows'[i].parts = rows[i].parts \cup rows[other].parts
  BY <1>1, MergedRows
<1>3. /\ latest' = latest /\ alive' = alive /\ doomed' = doomed
      /\ excused \subseteq excused' /\ \A l \in Locs : holders[l] \subseteq holders'[l]
      /\ \A l \in rows[other].parts : rows[i].el \in holders'[l]
      /\ spoiled' = spoiled \cup IF Shown(other) THEN {} ELSE {rows[other].el}
  BY <1>1, MergedRest
<1>4. \A k \in Ids : rows[k].parts \in SUBSET Locs /\ rows[k].mark \in Nat
  BY <1>1, RowIsRow DEF Inv, Typed, Ids, Row
<1>5. Away \subseteq Away'
  BY <1>3 DEF Away, Doomed, Pending
<1>6. PrunedIsSpoiled'
  BY <1>2, <1>3 DEF Once, PrunedIsSpoiled
<1>7. DeletionIsLast'
  BY <1>2, <1>3 DEF Once, DeletionIsLast
<1>8. ASSUME NEW j \in Ids, NEW k \in Ids, DeletedOnce(j, k)',
             NEW l \in rows'[j].parts, holders'[l] = {rows[j].el}
      PROVE  l \in Away'
  <2>1. /\ rows[k].there /\ rows[k].variant /\ rows[j].there /\ ~rows[j].variant
        /\ rows[j].el = rows[k].el /\ k # other /\ j # other
        /\ rows[j].el \in WithChildren /\ rows[j].el \notin spoiled
        /\ rows[j].el \notin spoiled'
    BY <1>2, <1>3, <1>8 DEF DeletedOnce
  <2>2. rows[other].el # rows[j].el
    <3> SUFFICES ASSUME rows[other].el = rows[j].el PROVE FALSE
      OBVIOUS
    <3>1. Shown(other)
      BY <1>3, <2>1
    <3>2. /\ rows[other].mark = latest[rows[other].el] /\ rows[other].there
          /\ ~rows[other].variant
      BY <3>1 DEF Shown, Current
    <3>3. rows[other].mark < latest[rows[other].el]
      BY <2>1, <3>2 DEF Once, DeletionIsLast
    <3>4. QED
      BY <1>4, <3>2, <3>3
  <2>3. DeletedOnce(j, k)
    <3>1. \A m \in Ids : rows[m].el = rows[j].el /\ rows[m].there => m \in {j, k}
      BY <1>2, <1>8, <2>2 DEF DeletedOnce
    <3>2. QED
      BY <2>1, <3>1 DEF DeletedOnce
  <2>4. l \notin rows[other].parts
    <3> SUFFICES ASSUME l \in rows[other].parts PROVE FALSE
      OBVIOUS
    <3>1. rows[other].there
      BY DEF Merge
    <3>2. rows[other].el \in holders[l] /\ l \in Locs
      BY <1>1, <1>4, <3>1 DEF Inv, HoldersKnown
    <3>3. rows[other].el \in holders'[l]
      BY <1>3, <3>2
    <3>4. QED
      BY <1>8, <2>2, <3>3
  <2>5. l \in rows[j].parts /\ l \in Locs
    BY <1>2, <1>4, <1>8, <2>1, <2>4
  <2>6. rows[j].el \in holders[l]
    BY <1>1, <2>1, <2>5 DEF Inv, HoldersKnown
  <2>7. holders[l] = {rows[j].el}
    BY <1>3, <1>8, <2>5, <2>6
  <2>8. QED
    BY <1>5, <2>3, <2>5, <2>7 DEF Once, OwnIsAway
<1>9. OwnIsAway'
  <2> SUFFICES ASSUME NEW j \in Ids, NEW k \in Ids, DeletedOnce(j, k)',
                      NEW l \in rows'[j].parts, holders'[l] = {rows'[j].el}
               PROVE  l \in Away'
    BY <1>2 DEF OwnIsAway
  <2>1. rows'[j].el = rows[j].el
    BY <1>2
  <2>2. QED
    BY <1>8, <2>1
<1>10. QED
  BY <1>6, <1>7, <1>9 DEF Once

LEMMA TrimOnce ==
    ASSUME Once, Inv', NEW i \in Ids, NEW cut, Trim(i, cut)
    PROVE  Once'
<1>1. /\ latest' = latest /\ doomed' = doomed /\ excused' = excused /\ holders' = holders
      /\ spoiled' = spoiled /\ alive' \subseteq alive
      /\ rows[i] \in Row /\ Numbered(rows)
  BY RowIsRow DEF Trim, history, Once, Inv, Typed, Ids
<1>2. /\ Ids' = Ids /\ rows'[i].parts \subseteq rows[i].parts
      /\ rows'[i].el = rows[i].el /\ rows'[i].mark = rows[i].mark
      /\ rows'[i].variant = rows[i].variant /\ rows'[i].gone = rows[i].gone
      /\ rows'[i].there = rows[i].there
      /\ \A k \in Ids : k # i => rows'[k] = rows[k]
  BY <1>1 DEF Trim, Ids, Row, Numbered
<1>3. \A k \in Ids : rows'[k].el = rows[k].el /\ rows'[k].there = rows[k].there
          /\ rows'[k].variant = rows[k].variant /\ rows'[k].gone = rows[k].gone
          /\ rows'[k].mark = rows[k].mark /\ rows'[k].parts \subseteq rows[k].parts
  BY <1>2
<1>4. Away \subseteq Away'
  BY <1>1 DEF Away, Doomed, Pending
<1>5. \A j, k \in Ids : DeletedOnce(j, k)' =>
          DeletedOnce(j, k) /\ rows'[j].parts \subseteq rows[j].parts
  BY <1>1, <1>2, <1>3 DEF DeletedOnce
<1>6. QED
  BY <1>1, <1>2, <1>3, <1>4, <1>5, StaysOnce

\* The end of a deletion: its localizations are deleted, or excused.
LEMMA EndOnce ==
    ASSUME Once, Inv', rows' = rows, latest' = latest, holders' = holders, spoiled' = spoiled,
           Away \subseteq Away'
    PROVE  Once'
<1>1. Ids' = Ids /\ \A j, k \in Ids : DeletedOnce(j, k)' => DeletedOnce(j, k)
  BY DEF Ids, DeletedOnce
<1>2. QED
  BY <1>1, StaysOnce

LEMMA EndingOnce ==
    ASSUME Once, Inv', NEW p \in Requests, DeleteChildren(p) \/ Die(p)
    PROVE  Once'
<1>1. /\ doomed' = [doomed EXCEPT ![p] = Idle] /\ doomed[p] # Idle
      /\ rows' = rows /\ latest' = latest /\ holders' = holders /\ spoiled' = spoiled
      /\ alive' \subseteq alive /\ excused \subseteq excused'
      /\ (alive' = alive \ doomed[p]) \/ doomed[p] \subseteq excused'
  BY DEF DeleteChildren, Die, history
<1>2. Inv /\ doomed \in [Requests -> (SUBSET Locs) \cup {Idle}]
  BY DEF Once, Inv, Typed
<1>3. ASSUME NEW l \in Doomed PROVE l \in Away'
  <2>1. PICK q \in Requests : doomed[q] # Idle /\ l \in doomed[q]
    BY <1>3, DoomedIs
  <2>2. CASE q = p
    <3>1. l \in Locs
      BY <1>2, <2>1
    <3>2. QED
      BY <1>1, <2>1, <2>2, <3>1 DEF Away
  <2>3. CASE q # p
    <3>1. doomed'[q] = doomed[q]
      BY <1>1, <1>2, <2>3
    <3>2. l \in Doomed'
      BY <2>1, <3>1 DEF Doomed, Pending
    <3>3. QED
      BY <3>2 DEF Away
  <2>4. QED
    BY <2>2, <2>3
<1>4. Away \subseteq Away'
  BY <1>1, <1>3 DEF Away
<1>5. QED
  BY <1>1, <1>4, EndOnce

LEMMA StepOnce == Once /\ [Next]_vars => Once'
<1> SUFFICES ASSUME Once, [Next]_vars PROVE Once'
  OBVIOUS
<1>1. Inv'
  BY StepInv DEF Once
<1>2. ASSUME NEW e \in Elements, NEW parts \in SUBSET alive, Post(e, parts) PROVE Once'
  BY <1>1, <1>2, PostOnce
<1>3. ASSUME NEW i \in Ids, Change(i) PROVE Once'
  <2>1. ASSUME NEW parts \in SUBSET Locs, NEW in_place \in BOOLEAN, Patch(i, parts, in_place)
        PROVE  Once'
    BY <1>1, <2>1, PatchOnce
  <2>2. CASE BulkDelete(i)
    BY <1>1, <2>2, BulkDeleteOnce
  <2>3. ASSUME NEW other \in Ids, Merge(i, other) PROVE Once'
    BY <1>1, <2>3, MergeOnce
  <2>4. ASSUME NEW l \in rows[i].parts,
               Trim(i, Before(i, FrameOf[l])) \/ Trim(i, After(i, FrameOf[l]))
        PROVE  Once'
    BY <1>1, <2>4, TrimOnce
  <2>5. QED
    BY <1>3, <2>1, <2>2, <2>3, <2>4 DEF Change
<1>4. ASSUME NEW p \in Requests, Deletion(p) PROVE Once'
  BY <1>1, <1>4, DeleteStateOnce, PruneStateOnce, EndingOnce DEF Deletion
<1>5. CASE UNCHANGED vars
  <2>1. /\ rows' = rows /\ latest' = latest /\ holders' = holders /\ spoiled' = spoiled
        /\ alive' = alive /\ doomed' = doomed /\ excused' = excused
    BY <1>5 DEF vars, history
  <2>2. Away \subseteq Away'
    BY <2>1 DEF Away, Doomed, Pending
  <2>3. QED
    BY <1>1, <2>1, <2>2, EndOnce
<1>6. QED
  BY <1>2, <1>3, <1>4, <1>5 DEF Next

\* A localization that only one state ever had goes with that state, when it is
\* deleted as it was posted: whatever other requests patch, merge, trim and delete
\* meanwhile (the deletion of children in src/api/main/rest/state.py).
THEOREM OwnChildrenGo == Spec => []ChildrenGo
<1>1. Init => Once
  <2> SUFFICES ASSUME Init PROVE Once
    OBVIOUS
  <2>1. Inv /\ Ids = {}
    BY InitInv DEF Init, Ids
  <2>2. QED
    BY <2>1 DEF Once, PrunedIsSpoiled, DeletionIsLast, OwnIsAway
<1>2. Once => ChildrenGo
  BY OnceSuffices
<1>3. QED
  BY <1>1, <1>2, StepOnce, PTL DEF Spec

(***************************************************************************)
(* What the two algorithms make of the localizations                       *)
(*                                                                         *)
(* Both go through the frames in order, which there is for every finite    *)
(* set of localizations, also when two are on one frame.  Induction is by  *)
(* the least number for which a statement fails.                           *)
(***************************************************************************)
LessPairs == {d \in Nat \X Nat : d[1] < d[2]}

\* A set of numbers that has any has a least one.
LEMMA LeastOf ==
    ASSUME NEW S \in SUBSET Nat, S # {}
    PROVE  \E n \in S : \A k \in S : n <= k
<1>1. IsWellFoundedOn(LessPairs, Nat)
  BY NatLessThanWellFounded DEF OpToRel, LessPairs
<1>2. PICK n \in S : \A k \in S : ~(<<k, n>> \in LessPairs)
  BY <1>1, WFMin
<1>3. ASSUME NEW k \in S PROVE n <= k
  <2>1. k \in Nat /\ n \in Nat
    OBVIOUS
  <2>2. ~(k < n)
    BY <1>2, <2>1 DEF LessPairs
  <2>3. QED
    BY <2>1, <2>2
<1>4. QED
  BY <1>3

\* A finite one has a greatest.
LEMMA GreatestOf ==
    ASSUME NEW S \in SUBSET Nat, S # {}, IsFiniteSet(S)
    PROVE  \E n \in S : \A k \in S : k <= n
<1> DEFINE Has(T) == \E n \in T : \A k \in T : k <= n
           Bad == {c \in Nat : \E T \in SUBSET Nat :
                       IsFiniteSet(T) /\ T # {} /\ Cardinality(T) = c /\ ~Has(T)}
<1>1. SUFFICES Bad = {}
  <2>1. Cardinality(S) \in Nat
    BY FS_CardinalityType
  <2>2. QED
    BY <1>1, <2>1
<1>2. SUFFICES ASSUME Bad # {} PROVE FALSE
  OBVIOUS
<1>3. Bad \in SUBSET Nat
  OBVIOUS
<1> HIDE DEF Bad
<1>4. PICK c \in Bad : \A d \in Bad : c <= d
  BY <1>2, <1>3, LeastOf
<1>5. PICK T \in SUBSET Nat : IsFiniteSet(T) /\ T # {} /\ Cardinality(T) = c /\ ~Has(T)
  BY <1>4 DEF Bad
<1>6. PICK x \in T : TRUE
  BY <1>5
<1> PICK U : U = T \ {x}
  OBVIOUS
<1>7. IsFiniteSet(U) /\ Cardinality(U) = c - 1 /\ c - 1 \in Nat /\ c \in Nat
  <2>1. IsFiniteSet(U) /\ Cardinality(U) = c - 1
    BY <1>5, <1>6, FS_RemoveElement
  <2>2. Cardinality(U) \in Nat /\ c \in Nat
    BY <2>1, <1>3, <1>4, FS_CardinalityType
  <2>3. QED
    BY <2>1, <2>2
<1>8. c - 1 \notin Bad
  BY <1>4, <1>7
<1>9. U = {} \/ Has(U)
  BY <1>7, <1>8 DEF Bad
<1>10. Has(T)
  <2>1. CASE U = {}
    BY <1>5, <1>6, <2>1
  <2>2. CASE U # {}
    <3>1. PICK m \in U : \A k \in U : k <= m
      BY <1>9, <2>2
    <3>2. CASE x <= m
      BY <1>5, <1>6, <3>1, <3>2
    <3>3. CASE ~(x <= m)
      <4>1. \A k \in T : k <= x
        BY <1>5, <1>6, <3>1, <3>3
      <4>2. QED
        BY <1>6, <4>1
    <3>4. QED
      BY <3>2, <3>3
  <2>3. QED
    BY <2>1, <2>2
<1>11. QED
  BY <1>5, <1>10

(***************************************************************************)
(* What Ordered returns.                                                   *)
(***************************************************************************)

Below(f, v) == Cardinality({x \in DOMAIN f : f[x] < v})
Upto(f, v) == Cardinality({x \in DOMAIN f : f[x] <= v})
Values(f) == {f[x] : x \in DOMAIN f}
\* The place n has the value v.
HasPlace(f, n, v) == v \in Values(f) /\ Below(f, v) < n /\ n <= Upto(f, v)

LEMMA Counted ==
    ASSUME NEW D, IsFiniteSet(D), NEW f \in [D -> Nat], NEW v \in Nat
    PROVE  /\ Below(f, v) \in Nat /\ Upto(f, v) \in Nat
           /\ Below(f, v) <= Upto(f, v) /\ Upto(f, v) <= Cardinality(D)
           /\ \A w \in Nat : v < w => Upto(f, v) <= Below(f, w)
           /\ v \in Values(f) => Below(f, v) < Upto(f, v)
           /\ (\A x, y \in D : f[x] = f[y] => x = y) => Upto(f, v) <= Below(f, v) + 1
<1> DEFINE Lo(w) == {x \in DOMAIN f : f[x] < w}
           Hi(w) == {x \in DOMAIN f : f[x] <= w}
<1>1. DOMAIN f = D /\ \A x \in D : f[x] \in Nat
  OBVIOUS
<1>2. \A w : Lo(w) \in SUBSET D /\ Hi(w) \in SUBSET D
  BY <1>1
<1>3. Lo(v) \in SUBSET Hi(v) /\ \A w \in Nat : v < w => Hi(v) \in SUBSET Lo(w)
  BY <1>1
<1>4. v \in Values(f) => Lo(v) # Hi(v)
  BY <1>1 DEF Values
<1>5. ASSUME \A x, y \in D : f[x] = f[y] => x = y
      PROVE  Hi(v) = Lo(v) \/ \E x \in D : Hi(v) = Lo(v) \cup {x}
  <2>1. CASE v \in Values(f)
    <3>1. PICK x \in D : f[x] = v
      BY <1>1, <2>1 DEF Values
    <3>2. \A y \in D : f[y] <= v => f[y] < v \/ y = x
      BY <1>1, <1>5, <3>1
    <3>3. Hi(v) = Lo(v) \cup {x}
      BY <1>1, <3>1, <3>2
    <3>4. QED
      BY <3>3
  <2>2. CASE v \notin Values(f)
    <3>1. Hi(v) = Lo(v)
      BY <1>1, <2>2 DEF Values
    <3>2. QED
      BY <3>1
  <2>3. QED
    BY <2>1, <2>2
<1>6. Below(f, v) = Cardinality(Lo(v)) /\ Upto(f, v) = Cardinality(Hi(v))
      /\ \A w : Below(f, w) = Cardinality(Lo(w))
  BY DEF Below, Upto
<1> HIDE DEF Lo, Hi
<1>7. \A w : IsFiniteSet(Lo(w)) /\ IsFiniteSet(Hi(w)) /\ Cardinality(Lo(w)) \in Nat
             /\ Cardinality(Hi(w)) \in Nat /\ Cardinality(Hi(w)) <= Cardinality(D)
  BY <1>2, FS_Subset, FS_CardinalityType
<1>8. Cardinality(Lo(v)) <= Cardinality(Hi(v))
      /\ (v \in Values(f) => Cardinality(Lo(v)) # Cardinality(Hi(v)))
  BY <1>3, <1>4, <1>7, FS_Subset
<1>9. \A w \in Nat : v < w => Cardinality(Hi(v)) <= Cardinality(Lo(w))
  BY <1>3, <1>7, FS_Subset
<1>10. (\A x, y \in D : f[x] = f[y] => x = y) => Cardinality(Hi(v)) <= Cardinality(Lo(v)) + 1
  <2> SUFFICES ASSUME \A x, y \in D : f[x] = f[y] => x = y
               PROVE  Cardinality(Hi(v)) <= Cardinality(Lo(v)) + 1
    OBVIOUS
  <2>1. CASE Hi(v) = Lo(v)
    BY <2>1, <1>7
  <2>2. CASE \E x \in D : Hi(v) = Lo(v) \cup {x}
    <3>1. PICK x \in D : Hi(v) = Lo(v) \cup {x}
      BY <2>2
    <3>2. Cardinality(Hi(v)) = IF x \in Lo(v) THEN Cardinality(Lo(v)) ELSE Cardinality(Lo(v)) + 1
      BY <3>1, <1>7, FS_AddElement
    <3>3. QED
      BY <3>2, <1>7
  <2>3. QED
    BY <1>5, <2>1, <2>2
<1>11. QED
  BY <1>6, <1>7, <1>8, <1>9, <1>10

\* Each place has one value, and each value a place.
LEMMA PlacesHaveValues ==
    ASSUME NEW D, IsFiniteSet(D), NEW f \in [D -> Nat], NEW n \in 1..Cardinality(D)
    PROVE  \E v \in Nat : HasPlace(f, n, v)
<1>1. Values(f) \in SUBSET Nat /\ Cardinality(D) \in Nat
  BY FS_CardinalityType DEF Values
<1> DEFINE A == {v \in Values(f) : n <= Upto(f, v)}
<1>2. A # {}
  <2>1. D # {}
    <3>1. D = {} => Cardinality(D) = 0
      BY FS_EmptySet
    <3>2. QED
      BY <3>1, <1>1
  <2> DEFINE g == [x \in D |-> f[x]]
  <2>2. g \in Surjection(D, Values(f))
    BY DEF Surjection, Values
  <2>3. IsFiniteSet(Values(f)) /\ Values(f) # {}
    BY <2>1, <2>2, FS_Surjection DEF Values
  <2>4. PICK v \in Values(f) : \A w \in Values(f) : w <= v
    BY <1>1, <2>3, GreatestOf
  <2>5. {x \in DOMAIN f : f[x] <= v} = D
    BY <2>4 DEF Values
  <2>6. Upto(f, v) = Cardinality(D)
    BY <2>5 DEF Upto
  <2>7. QED
    BY <1>1, <2>6
<1> HIDE DEF A
<1>3. A \in SUBSET Nat
  BY <1>1 DEF A
<1>4. PICK v \in A : \A w \in A : v <= w
  BY <1>2, <1>3, LeastOf
<1>5. v \in Nat /\ v \in Values(f) /\ n <= Upto(f, v)
  BY <1>3, <1>4 DEF A
<1>6. Below(f, v) < n
  <2> DEFINE B == {x \in D : f[x] < v}
             W == {f[x] : x \in B}
  <2>1. CASE B = {}
    <3>1. Below(f, v) = 0
      BY <2>1, FS_EmptySet DEF Below
    <3>2. QED
      BY <3>1, <1>1
  <2>2. CASE B # {}
    <3>1. IsFiniteSet(B)
      BY FS_Subset
    <3>2. [x \in B |-> f[x]] \in Surjection(B, W)
      BY DEF Surjection
    <3>3. IsFiniteSet(W) /\ W # {} /\ W \in SUBSET Nat
      BY <2>2, <3>1, <3>2, FS_Surjection
    <3>4. PICK w \in W : \A u \in W : u <= w
      BY <3>3, GreatestOf
    <3>5. w \in Nat /\ w \in Values(f) /\ w < v
      BY <3>3, <3>4 DEF Values
    <3>6. {x \in DOMAIN f : f[x] < v} = {x \in DOMAIN f : f[x] <= w}
      BY <3>4, <3>5, <1>5
    <3>7. Below(f, v) = Upto(f, w)
      BY <3>6 DEF Below, Upto
    <3>8. ~(n <= Upto(f, w))
      BY <3>5, <1>4, <1>5 DEF A
    <3>9. Upto(f, w) \in Nat
      BY <3>5, Counted
    <3>10. QED
      BY <3>7, <3>8, <3>9, <1>1
  <2>3. QED
    BY <2>1, <2>2
<1>7. QED
  BY <1>5, <1>6 DEF HasPlace

\* What is at a place of a sequence in order.
InOrder(s, f) ==
    /\ DOMAIN s = 1..Cardinality(DOMAIN f)
    /\ s = [n \in 1..Cardinality(DOMAIN f) |-> s[n]]
    /\ \A n \in DOMAIN s : s[n] \in Nat /\ HasPlace(f, n, s[n])

LEMMA OrderedIs ==
    ASSUME NEW D, IsFiniteSet(D), NEW f \in [D -> Nat]
    PROVE  InOrder(Ordered(f), f)
<1> PICK s : s = Ordered(f)
  OBVIOUS
<1>1. Cardinality(D) \in Nat /\ DOMAIN f = D
  BY FS_CardinalityType
<1>2. s = [n \in 1..Cardinality(D) |->
             CHOOSE v \in Values(f) : n \in Below(f, v) + 1 .. Upto(f, v)]
  BY <1>1 DEF Ordered, Values, Below, Upto
<1>3. DOMAIN s = 1..Cardinality(D) /\ s = [n \in 1..Cardinality(D) |-> s[n]]
  BY <1>2
<1>4. ASSUME NEW n \in 1..Cardinality(D) PROVE s[n] \in Nat /\ HasPlace(f, n, s[n])
  <2>1. PICK v \in Nat : HasPlace(f, n, v)
    BY PlacesHaveValues
  <2>2. v \in Values(f) /\ n \in Below(f, v) + 1 .. Upto(f, v)
    <3>1. Below(f, v) \in Nat /\ Upto(f, v) \in Nat
      BY Counted
    <3>2. QED
      BY <1>1, <2>1, <3>1 DEF HasPlace
  <2>3. s[n] \in Values(f) /\ n \in Below(f, s[n]) + 1 .. Upto(f, s[n])
    <3>1. s[n] = CHOOSE w \in Values(f) : n \in Below(f, w) + 1 .. Upto(f, w)
      BY <1>2
    <3>2. QED
      BY <2>2, <3>1
  <2>4. s[n] \in Nat
    BY <2>3 DEF Values
  <2>5. Below(f, s[n]) \in Nat /\ Upto(f, s[n]) \in Nat
    BY <2>4, Counted
  <2>6. QED
    BY <1>1, <2>3, <2>4, <2>5 DEF HasPlace
<1>5. QED
  BY <1>1, <1>3, <1>4 DEF InOrder

LEMMA OrderOfPlaces ==
    ASSUME NEW D, IsFiniteSet(D), NEW f \in [D -> Nat], NEW s, InOrder(s, f)
    PROVE  /\ \A n, m \in DOMAIN s : n <= m => s[n] <= s[m]
           /\ \A v \in Values(f) : \E n \in DOMAIN s : s[n] = v
           /\ (\A x, y \in D : f[x] = f[y] => x = y) =>
                  \A n, m \in DOMAIN s : n < m => s[n] < s[m]
<1>1. Cardinality(D) \in Nat /\ DOMAIN s = 1..Cardinality(D) /\ Values(f) \in SUBSET Nat
  BY FS_CardinalityType DEF InOrder, Values
<1>2. ASSUME NEW n \in DOMAIN s, NEW m \in DOMAIN s, n <= m PROVE s[n] <= s[m]
  <2> PICK v, w : v = s[n] /\ w = s[m]
    OBVIOUS
  <2>1. v \in Nat /\ w \in Nat /\ Below(f, v) < n /\ m <= Upto(f, w)
    BY DEF InOrder, HasPlace
  <2>2. w < v => Upto(f, w) <= Below(f, v)
    BY <2>1, Counted
  <2>3. Upto(f, w) \in Nat /\ Below(f, v) \in Nat
    BY <2>1, Counted
  <2>4. n \in Nat /\ m \in Nat
    BY <1>1
  <2>5. v <= w
    BY ONLY <1>2, <2>1, <2>2, <2>3, <2>4
  <2>6. QED
    BY <2>5
<1>3. ASSUME NEW v \in Values(f) PROVE \E n \in DOMAIN s : s[n] = v
  <2> PICK n : n = Upto(f, v)
    OBVIOUS
  <2>1. /\ v \in Nat /\ n \in Nat /\ Below(f, v) < n /\ Below(f, v) \in Nat /\ n <= Cardinality(D)
        /\ \A w \in Nat : v < w => n <= Below(f, w)
    BY <1>1, Counted
  <2>2. n \in DOMAIN s
    BY <1>1, <2>1
  <2> PICK w : w = s[n]
    OBVIOUS
  <2>3. w \in Nat /\ Below(f, w) < n /\ n <= Upto(f, w)
    BY <2>2 DEF InOrder, HasPlace
  <2>4. w < v => Upto(f, w) <= Below(f, v)
    BY <2>1, <2>3, Counted
  <2>5. Upto(f, w) \in Nat /\ Below(f, w) \in Nat
    BY <2>3, Counted
  <2>6. w = v
    BY ONLY <2>1, <2>3, <2>4, <2>5
  <2>7. QED
    BY <2>2, <2>6
<1>4. ASSUME \A x, y \in D : f[x] = f[y] => x = y,
             NEW n \in DOMAIN s, NEW m \in DOMAIN s, n < m
      PROVE  s[n] < s[m]
  <2> PICK v, w : v = s[n] /\ w = s[m]
    OBVIOUS
  <2>1. v \in Nat /\ w \in Nat /\ Below(f, v) < n /\ m <= Upto(f, w)
    BY DEF InOrder, HasPlace
  <2>2. (w < v => Upto(f, w) <= Below(f, v)) /\ Upto(f, w) <= Below(f, w) + 1
    BY <1>4, <2>1, Counted
  <2>3. Upto(f, w) \in Nat /\ Below(f, v) \in Nat
    BY <2>1, Counted
  <2>4. n \in Nat /\ m \in Nat
    BY <1>1
  <2>5. w # v
    BY <1>4, <2>1, <2>2, <2>3, <2>4
  <2>6. ~(w < v)
    BY ONLY <1>4, <2>1, <2>2, <2>3, <2>4
  <2>7. v < w
    BY ONLY <2>1, <2>5, <2>6
  <2>8. QED
    BY <2>7
<1>5. QED
  BY <1>2, <1>3, <1>4
\* The places of a sequence in order are its domain.
LEMMA OrderedSeq ==
    ASSUME NEW D, IsFiniteSet(D), NEW f \in [D -> Nat], NEW s, InOrder(s, f)
    PROVE  /\ s \in Seq(Nat) /\ Len(s) = Cardinality(D) /\ DOMAIN s = 1..Len(s)
           /\ Values(f) = {s[n] : n \in DOMAIN s}
<1>1. Cardinality(D) \in Nat /\ DOMAIN f = D
  BY FS_CardinalityType
<1>2. s \in [1..Cardinality(D) -> Nat]
  BY <1>1 DEF InOrder
<1>3. s \in Seq(Nat) /\ Len(s) = Cardinality(D)
  BY <1>1, <1>2
<1>4. Values(f) = {s[n] : n \in DOMAIN s}
  <2>1. \A n \in DOMAIN s : s[n] \in Values(f)
    BY DEF InOrder, HasPlace
  <2>2. \A v \in Values(f) : \E n \in DOMAIN s : s[n] = v
    BY OrderOfPlaces
  <2>3. QED
    BY ONLY <2>1, <2>2
<1>5. QED
  BY <1>1, <1>2, <1>3, <1>4

\* The frames of a state.
AreFrames(F, parts) ==
    /\ F \in Seq(Nat) /\ Len(F) \in Nat /\ DOMAIN F = 1..Len(F)
    /\ {FrameOf[l] : l \in parts} = {F[n] : n \in DOMAIN F}
    /\ parts = {} <=> F = <<>>

LEMMA FramesAre ==
    ASSUME NEW parts \in SUBSET Locs
    PROVE  AreFrames(Frames(parts), parts)
<1> PICK f : f = [l \in parts |-> FrameOf[l]]
  OBVIOUS
<1> PICK F : F = Frames(parts)
  OBVIOUS
<1>1. IsFiniteSet(parts) /\ f \in [parts -> Nat]
  BY StatesConstants, FS_Subset
<1>2. InOrder(F, f)
  BY <1>1, OrderedIs DEF Frames
<1>3. /\ F \in Seq(Nat) /\ Len(F) = Cardinality(parts) /\ DOMAIN F = 1..Len(F)
      /\ Values(f) = {F[n] : n \in DOMAIN F}
  BY <1>1, <1>2, OrderedSeq
<1>4. Values(f) = {FrameOf[l] : l \in parts}
  BY DEF Values
<1>5. parts = {} <=> F = <<>>
  <2>1. parts = {} <=> Len(F) = 0
    BY <1>1, <1>3, FS_EmptySet
  <2>2. QED
    BY <1>3, <2>1
<1>6. AreFrames(F, parts)
  <2>1. Len(F) \in Nat
    BY <1>3
  <2>2. {FrameOf[l] : l \in parts} = {F[n] : n \in DOMAIN F}
    BY ONLY <1>3, <1>4
  <2>3. QED
    BY ONLY <1>3, <1>5, <2>1, <2>2 DEF AreFrames
<1>7. QED
  BY <1>6

(***************************************************************************)
(* calc_segments: the runs.                                                *)
(***************************************************************************)

Segments == Seq(Seq(Int))

LEMMA OneMore ==
    ASSUME NEW segments \in Segments, NEW a \in Int, NEW b \in Int
    PROVE  /\ Append(segments, <<a, b>>) \in Segments
           /\ Covered(Append(segments, <<a, b>>)) = Covered(segments) \cup a..b
<1> PICK s : s = <<a, b>>
  OBVIOUS
<1>1. s \in Seq(Int) /\ s[1] = a /\ s[2] = b
  OBVIOUS
<1> PICK t : t = Append(segments, s)
  OBVIOUS
<1>2. /\ t \in Segments /\ DOMAIN t = DOMAIN segments \cup {Len(segments) + 1}
      /\ t[Len(segments) + 1] = s
      /\ \A k \in DOMAIN segments : t[k] = segments[k]
  BY <1>1 DEF Segments
<1>3. ASSUME NEW x PROVE x \in Covered(t) <=> x \in Covered(segments) \cup s[1]..s[2]
  <2>1. x \in Covered(t) <=> \E k \in DOMAIN t : x \in t[k][1]..t[k][2]
    BY DEF Covered
  <2>2. x \in Covered(segments) <=> \E k \in DOMAIN segments : x \in segments[k][1]..segments[k][2]
    BY DEF Covered
  <2>3. QED
    BY <1>2, <2>1, <2>2
<1>4. QED
  BY <1>1, <1>2, <1>3

\* The run after the i-th localization.
RunStep(F, before, i) ==
    IF i = 1 THEN [first |-> F[1], last |-> F[1], done |-> <<>>]
    ELSE IF F[i] - 1 = before.last THEN [before EXCEPT !.last = F[i]]
    ELSE [first |-> F[i], last |-> F[i], done |-> Closed(before)]

\* There is a function as Runs says: there is none for the fewest localizations otherwise.
LEMMA RunsAre ==
    ASSUME NEW F, Len(F) \in Nat
    PROVE  LET run == Runs(F) IN run = [i \in 1..Len(F) |-> RunStep(F, run[i - 1], i)]
<1> DEFINE Is(g, n) == g = [i \in 1..n |-> RunStep(F, g[i - 1], i)]
           Bad == {n \in Nat : ~\E g : Is(g, n)}
<1>1. \E g : Is(g, Len(F))
  <2> SUFFICES ASSUME Bad # {} PROVE FALSE
    OBVIOUS
  <2>1. PICK n \in Bad : \A k \in Bad : n <= k
    BY LeastOf
  <2>2. CASE n = 0
    <3>1. Is([i \in 1..0 |-> 0], 0)
      OBVIOUS
    <3>2. QED
      BY <2>1, <2>2, <3>1
  <2>3. CASE n # 0
    <3>1. n \in Nat /\ n - 1 \in Nat /\ n - 1 \notin Bad
      BY <2>1, <2>3
    <3>2. PICK g : Is(g, n - 1)
      BY <3>1
    <3> DEFINE h == [i \in 1..n |-> IF i = n THEN RunStep(F, g[n - 1], n) ELSE g[i]]
    <3>3. ASSUME NEW i \in 1..n PROVE h[i] = RunStep(F, h[i - 1], i)
      <4>1. CASE i = 1
        <5>1. n = 1 => h[1] = RunStep(F, g[0], 1)
          BY <3>1
        <5>2. n # 1 => h[1] = RunStep(F, g[0], 1)
          BY <3>1, <3>2
        <5>3. \A b : RunStep(F, b, 1) = [first |-> F[1], last |-> F[1], done |-> <<>>]
          BY DEF RunStep
        <5>4. QED
          BY <4>1, <5>1, <5>2, <5>3
      <4>2. CASE i # 1
        <5>1. i - 1 \in 1..n /\ i - 1 # n
          BY <3>1, <4>2
        <5>2. h[i - 1] = g[i - 1]
          BY <5>1
        <5>3. CASE i = n
          BY <5>2, <5>3
        <5>4. CASE i # n
          <6>1. i \in 1..n - 1
            BY <3>1, <5>4
          <6>2. h[i] = g[i] /\ g[i] = RunStep(F, g[i - 1], i)
            BY <3>2, <5>4, <6>1
          <6>3. QED
            BY <5>2, <6>2
        <5>5. QED
          BY <5>3, <5>4
      <4>3. QED
        BY <4>1, <4>2
    <3>4. h = [i \in 1..n |-> h[i]]
      OBVIOUS
    <3> HIDE DEF h
    <3>5. Is(h, n)
      BY <3>3, <3>4
    <3>6. QED
      BY <2>1, <3>5
  <2>4. QED
    BY <2>2, <2>3
<1>2. Runs(F) = CHOOSE g : Is(g, Len(F))
  BY DEF Runs, RunStep
<1> HIDE DEF Is
<1>3. Is(Runs(F), Len(F))
  BY <1>1, <1>2
<1>4. QED
  BY <1>3 DEF Is

\* The run after n localizations: what it has closed, and what is open, are their frames.
RunCovers(F, run, n) ==
    /\ run \in [first : Nat, last : Nat, done : Segments]
    /\ run.first <= run.last /\ run.last = F[n]
    /\ Covered(run.done) \cup run.first..run.last = {F[j] : j \in 1..n}

LEMMA NoneCovered == <<>> \in Segments /\ Covered(<<>>) = {}
  BY DEF Segments, Covered

LEMMA RunStepCovers ==
    ASSUME NEW F \in Seq(Nat), NEW n \in Nat, n + 1 \in 1..Len(F), n # 0,
           NEW before, RunCovers(F, before, n)
    PROVE  RunCovers(F, RunStep(F, before, n + 1), n + 1)
<1> PICK f \in Nat : f = F[n + 1]
  OBVIOUS
<1> PICK run : run = RunStep(F, before, n + 1)
  OBVIOUS
<1>1. /\ before.first \in Nat /\ before.last \in Nat /\ before.done \in Segments
      /\ before.first <= before.last
      /\ Covered(before.done) \cup before.first..before.last = {F[j] : j \in 1..n}
  BY DEF RunCovers
<1>2. {F[j] : j \in 1..n + 1} = {F[j] : j \in 1..n} \cup {f}
  <2>1. 1..n + 1 = 1..n \cup {n + 1}
    OBVIOUS
  <2>2. QED
    BY <2>1
<1>3. run = IF f - 1 = before.last THEN [before EXCEPT !.last = f]
            ELSE [first |-> f, last |-> f, done |-> Closed(before)]
  BY DEF RunStep
<1>4. CASE f - 1 = before.last
  <2>1. /\ run \in [first : Nat, last : Nat, done : Segments]
        /\ run.first = before.first /\ run.last = f /\ run.done = before.done
    BY <1>3, <1>4 DEF RunCovers
  <2>2. before.first..f = before.first..before.last \cup {f}
    BY <1>1, <1>4
  <2>3. QED
    BY <1>1, <1>2, <1>4, <2>1, <2>2 DEF RunCovers
<1>5. CASE f - 1 # before.last
  <2>1. run = [first |-> f, last |-> f, done |-> Closed(before)]
    BY <1>3, <1>5
  <2>2. /\ Closed(before) \in Segments
        /\ Covered(Closed(before)) = Covered(before.done) \cup before.first..before.last
    BY <1>1, OneMore DEF Closed
  <2>3. f..f = {f}
    OBVIOUS
  <2>4. QED
    BY <1>1, <1>2, <2>1, <2>2, <2>3 DEF RunCovers
<1>6. QED
  BY <1>4, <1>5

LEMMA RunsCover ==
    ASSUME NEW F \in Seq(Nat), F # <<>>
    PROVE  RunCovers(F, Runs(F)[Len(F)], Len(F))
<1> PICK run : run = Runs(F)
  OBVIOUS
<1>1. Len(F) \in Nat /\ Len(F) # 0 /\ F[1] \in Nat
  OBVIOUS
<1>2. \A i \in 1..Len(F) : run[i] = RunStep(F, run[i - 1], i)
  BY <1>1, RunsAre
<1> DEFINE Bad == {n \in Nat : n + 1 \in 1..Len(F) /\ ~RunCovers(F, run[n + 1], n + 1)}
<1>3. SUFFICES Bad = {}
  <2>1. Len(F) - 1 \in Nat /\ (Len(F) - 1) + 1 = Len(F) /\ Len(F) \in 1..Len(F)
    BY <1>1
  <2>2. QED
    BY <1>3, <2>1
<1>4. SUFFICES ASSUME Bad # {} PROVE FALSE
  OBVIOUS
<1>5. PICK n \in Bad : \A k \in Bad : n <= k
  BY <1>4, LeastOf
<1>6. n \in Nat /\ n + 1 \in 1..Len(F) /\ run[n + 1] = RunStep(F, run[n], n + 1)
  <2>1. n \in Nat /\ n + 1 \in 1..Len(F)
    BY <1>5
  <2>2. (n + 1) - 1 = n
    BY <2>1
  <2>3. run[n + 1] = RunStep(F, run[(n + 1) - 1], n + 1)
    BY <1>2, <2>1
  <2>4. QED
    BY <2>1, <2>2, <2>3
<1>7. CASE n = 0
  <2>1. run[1] = [first |-> F[1], last |-> F[1], done |-> <<>>]
    BY <1>6, <1>7 DEF RunStep
  <2>2. {F[j] : j \in 1..1} = {F[1]} /\ F[1]..F[1] = {F[1]}
    BY <1>1
  <2>3. RunCovers(F, run[1], 1)
    BY <1>1, <2>1, <2>2, NoneCovered DEF RunCovers
  <2>4. QED
    BY <1>5, <1>7, <2>3
<1>8. CASE n # 0
  <2>1. n - 1 \in Nat /\ (n - 1) + 1 = n /\ n \in 1..Len(F) /\ ~(n <= n - 1)
    BY <1>1, <1>6, <1>8
  <2>2. n - 1 \notin Bad
    BY <1>5, <2>1
  <2>3. RunCovers(F, run[n], n)
    BY <2>1, <2>2
  <2>4. RunCovers(F, run[n + 1], n + 1)
    BY <1>6, <1>8, <2>3, RunStepCovers
  <2>5. QED
    BY <1>5, <2>4
<1>9. QED
  BY <1>7, <1>8

LEMMA CalcCovers ==
    ASSUME NEW parts \in SUBSET Locs
    PROVE  /\ CalcSegments(parts) \in Segments
           /\ parts # {} => Covered(CalcSegments(parts)) = {FrameOf[l] : l \in parts}
<1> PICK F : F = Frames(parts)
  OBVIOUS
<1>1. /\ F \in Seq(Nat) /\ DOMAIN F = 1..Len(F)
      /\ {FrameOf[l] : l \in parts} = {F[n] : n \in DOMAIN F}
      /\ parts = {} <=> F = <<>>
  <2>1. AreFrames(F, parts)
    BY FramesAre
  <2>2. QED
    BY ONLY <2>1 DEF AreFrames
<1> PICK run : run = Runs(F)[Len(F)]
  OBVIOUS
<1>2. CASE F = <<>>
  <2>1. CalcSegments(parts) = << <<None, None>> >>
    BY <1>2 DEF CalcSegments
  <2>2. QED
    BY <1>1, <1>2, <2>1 DEF Segments, None
<1>3. CASE F # <<>>
  <2>1. CalcSegments(parts) = Closed(run)
    BY <1>3 DEF CalcSegments
  <2>2. RunCovers(F, run, Len(F))
    BY <1>1, <1>3, RunsCover
  <2>3. run.first \in Nat /\ run.last \in Nat /\ run.done \in Segments
    BY <2>2 DEF RunCovers
  <2>4. /\ Closed(run) \in Segments
        /\ Covered(Closed(run)) = Covered(run.done) \cup run.first..run.last
    <3>1. run.first \in Int /\ run.last \in Int /\ run.done \in Segments
      BY ONLY <2>3
    <3>2. /\ Append(run.done, <<run.first, run.last>>) \in Segments
          /\ Covered(Append(run.done, <<run.first, run.last>>)) =
                 Covered(run.done) \cup run.first..run.last
      BY ONLY <3>1, OneMore
    <3>3. QED
      BY ONLY <3>2 DEF Closed
  <2>5. QED
    BY <1>1, <2>1, <2>2, <2>4 DEF RunCovers
<1>4. QED
  BY <1>2, <1>3

(***************************************************************************)
(* POST: the splits.                                                       *)
(***************************************************************************)

\* Between two starts the frames follow one another.
LEMMA Follow ==
    ASSUME NEW F \in Seq(Nat), NEW a \in 1..Len(F), NEW b \in 1..Len(F), a <= b,
           \A j \in 1..Len(F) : a < j /\ j <= b => F[j] - F[j - 1] = 1
    PROVE  \A j \in 1..Len(F) : a <= j /\ j <= b => F[j] = F[a] + (j - a)
<1> DEFINE Bad == {j \in 1..Len(F) : a <= j /\ j <= b /\ F[j] # F[a] + (j - a)}
<1>1. SUFFICES ASSUME Bad # {} PROVE FALSE
  OBVIOUS
<1>2. Bad \in SUBSET Nat
  OBVIOUS
<1> HIDE DEF Bad
<1>3. PICK j \in Bad : \A k \in Bad : j <= k
  BY <1>1, <1>2, LeastOf
<1>4. j \in 1..Len(F) /\ a <= j /\ j <= b /\ F[j] # F[a] + (j - a)
  BY <1>3 DEF Bad
<1>5. j # a
  BY <1>4
<1>6. j - 1 \in 1..Len(F) /\ a <= j - 1 /\ j - 1 <= b /\ ~(j <= j - 1) /\ a < j
  BY <1>4, <1>5
<1>7. F[j - 1] = F[a] + ((j - 1) - a)
  BY <1>3, <1>6 DEF Bad
<1>8. F[j] - F[j - 1] = 1
  BY <1>4, <1>6
<1>9. F[j] \in Nat /\ F[j - 1] \in Nat /\ F[a] \in Nat
  <2>1. \A i \in 1..Len(F) : F[i] \in Nat
    OBVIOUS
  <2>2. QED
    BY <1>4, <1>6, <2>1
<1>10. QED
  BY <1>4, <1>7, <1>8, <1>9

LEMMA SplitCovers ==
    ASSUME NEW parts \in SUBSET Locs
    PROVE  /\ SplitSegments(parts) \in Segments
           /\ Covered(SplitSegments(parts)) = {FrameOf[l] : l \in parts}
<1> PICK F : F = Frames(parts)
  OBVIOUS
<1>1. /\ F \in Seq(Nat) /\ DOMAIN F = 1..Len(F) /\ Len(F) \in Nat
      /\ {FrameOf[l] : l \in parts} = {F[n] : n \in DOMAIN F}
  <2>1. AreFrames(F, parts)
    BY FramesAre
  <2>2. QED
    BY ONLY <2>1 DEF AreFrames
<1> DEFINE B == {i \in DOMAIN F : i = 1 \/ F[i] - F[i - 1] # 1}
<1> PICK f : f = [i \in B |-> i]
  OBVIOUS
<1> PICK st : st = Ordered(f)
  OBVIOUS
<1>2. B \in SUBSET (1..Len(F)) /\ IsFiniteSet(B) /\ f \in [B -> Nat]
  <2>1. IsFiniteSet(1..Len(F)) /\ B \in SUBSET (1..Len(F))
    BY <1>1, FS_Interval
  <2>2. QED
    BY <2>1, FS_Subset
<1>3. \A i \in 1..Len(F) : i \in B <=> i = 1 \/ F[i] - F[i - 1] # 1
  BY <1>1
<1>4. SplitSegments(parts) =
        [k \in DOMAIN st |->
            <<F[st[k]], F[IF k = Len(st) THEN Len(F) ELSE st[k + 1] - 1]>>]
  BY DEF SplitSegments
<1> HIDE DEF B
<1>5. InOrder(st, f)
  BY <1>2, OrderedIs
<1>6. /\ st \in Seq(Nat) /\ Len(st) \in Nat /\ DOMAIN st = 1..Len(st)
      /\ B = {st[n] : n \in DOMAIN st}
  <2>1. Values(f) = B
    BY DEF Values
  <2>2. /\ st \in Seq(Nat) /\ Len(st) = Cardinality(B) /\ DOMAIN st = 1..Len(st)
        /\ Values(f) = {st[n] : n \in DOMAIN st}
    BY ONLY <1>2, <1>5, OrderedSeq
  <2>3. Len(st) \in Nat
    BY <2>2
  <2>4. QED
    BY ONLY <2>1, <2>2, <2>3
<1>7. \A n, m \in 1..Len(st) : n < m => st[n] < st[m]
  <2>1. \A x, y \in B : f[x] = f[y] => x = y
    OBVIOUS
  <2>2. \A n, m \in DOMAIN st : n < m => st[n] < st[m]
    BY ONLY <1>2, <1>5, <2>1, OrderOfPlaces
  <2>3. QED
    BY ONLY <1>6, <2>2
<1> DEFINE end(k) == IF k = Len(st) THEN Len(F) ELSE st[k + 1] - 1
<1>8. ASSUME NEW k \in 1..Len(st)
      PROVE  /\ st[k] \in 1..Len(F) /\ end(k) \in 1..Len(F) /\ st[k] <= end(k)
             /\ \A j \in 1..Len(F) : st[k] < j /\ j <= end(k) => F[j] - F[j - 1] = 1
             /\ k # Len(st) => k + 1 \in 1..Len(st)
  <2>1. st[k] \in 1..Len(F)
    BY <1>2, <1>6
  <2>2. k # Len(st) => k + 1 \in 1..Len(st) /\ st[k + 1] \in 1..Len(F) /\ st[k] < st[k + 1]
    <3> SUFFICES ASSUME k # Len(st)
                 PROVE  k + 1 \in 1..Len(st) /\ st[k + 1] \in 1..Len(F) /\ st[k] < st[k + 1]
      OBVIOUS
    <3>1. k + 1 \in 1..Len(st) /\ k < k + 1
      BY <1>6
    <3>2. QED
      BY <1>2, <1>6, <1>7, <3>1
  <2>3. end(k) \in 1..Len(F) /\ st[k] <= end(k)
    BY <1>1, <2>1, <2>2
  <2>4. ASSUME NEW j \in 1..Len(F), st[k] < j, j <= end(k) PROVE F[j] - F[j - 1] = 1
    <3>1. SUFFICES j \notin B
      BY <1>3, <3>1
    <3>2. SUFFICES ASSUME NEW m \in 1..Len(st), j = st[m] PROVE FALSE
      BY <1>6
    <3>3. k < m
      <4>1. m < k => st[m] < st[k]
        BY <1>7
      <4>2. st[m] # st[k] /\ ~(st[m] < st[k])
        BY <2>1, <2>4, <3>2
      <4>3. QED
        BY <1>6, <4>1, <4>2
    <3>4. k # Len(st)
      BY <1>6, <3>3
    <3>5. m = k + 1 \/ k + 1 < m
      BY <1>6, <3>3
    <3>6. st[k + 1] <= st[m]
      BY <1>7, <2>2, <3>2, <3>4, <3>5
    <3>7. QED
      BY <2>2, <2>4, <3>2, <3>4, <3>6
  <2>5. QED
    BY <2>1, <2>2, <2>3, <2>4
<1> PICK segments : segments = SplitSegments(parts)
  OBVIOUS
<1>9. ASSUME NEW k \in 1..Len(st) PROVE segments[k] = <<F[st[k]], F[end(k)]>>
  BY <1>4, <1>6
<1>10. DOMAIN segments = 1..Len(st) /\ segments = [k \in 1..Len(st) |-> <<F[st[k]], F[end(k)]>>]
  BY <1>4, <1>6
<1>11. ASSUME NEW k \in 1..Len(st)
       PROVE  /\ F[st[k]] \in Nat /\ F[end(k)] \in Nat
              /\ \A x \in Int : x \in F[st[k]]..F[end(k)] <=>
                    \E j \in 1..Len(F) : st[k] <= j /\ j <= end(k) /\ x = F[j]
  <2> PICK a, b : a = st[k] /\ b = end(k)
    OBVIOUS
  <2> HIDE DEF end
  <2>1. /\ a \in 1..Len(F) /\ b \in 1..Len(F) /\ a <= b
        /\ \A j \in 1..Len(F) : a < j /\ j <= b => F[j] - F[j - 1] = 1
    BY <1>8
  <2>2. \A j \in 1..Len(F) : a <= j /\ j <= b => F[j] = F[a] + (j - a)
    BY ONLY <1>1, <2>1, Follow
  <2>3. F[a] \in Nat /\ F[b] \in Nat /\ F[b] = F[a] + (b - a)
    BY <1>1, <2>1, <2>2
  <2>4. ASSUME NEW x \in Int, x \in F[a]..F[b]
        PROVE  \E j \in 1..Len(F) : a <= j /\ j <= b /\ x = F[j]
    <3> PICK j : j = a + (x - F[a])
      OBVIOUS
    <3>1. j \in 1..Len(F) /\ a <= j /\ j <= b /\ x = F[a] + (j - a)
      <4>1. j = a + (x - F[a])
        OBVIOUS
      <4>2. x \in Int /\ x \in F[a]..F[b]
        BY <2>4
      <4>3. PICK p, q \in Nat : p = F[a] /\ q = F[b]
        BY <2>3
      <4>4. /\ a \in 1..Len(F) /\ b \in 1..Len(F) /\ Len(F) \in Nat
            /\ q = p + (b - a) /\ x \in p..q /\ j = a + (x - p)
            /\ p \in Nat /\ q \in Nat
        BY <1>1, <2>1, <2>3, <4>1, <4>2, <4>3
      <4>5. j \in 1..Len(F) /\ a <= j /\ j <= b /\ x = p + (j - a)
        BY ONLY <4>4
      <4>6. QED
        BY <4>3, <4>5
    <3>2. x = F[j]
      BY <2>2, <3>1
    <3>3. QED
      BY <3>1, <3>2
  <2>5. ASSUME NEW j \in 1..Len(F), a <= j, j <= b PROVE F[j] \in F[a]..F[b]
    <3>1. F[j] = F[a] + (j - a)
      BY <2>2, <2>5
    <3>2. QED
      BY <1>1, <2>1, <2>3, <2>5, <3>1
  <2>6. QED
    BY <2>3, <2>4, <2>5
<1>12. ASSUME NEW j \in 1..Len(F)
       PROVE  \E k \in 1..Len(st) : st[k] <= j /\ j <= end(k)
  <2> DEFINE K == {k \in 1..Len(st) : st[k] <= j}
  <2>1. 1 \in 1..Len(F) /\ 1 \in B
    BY <1>1, <1>3
  <2>2. PICK o \in 1..Len(st) : st[o] = 1
    BY <1>6, <2>1
  <2>3. K # {} /\ K \in SUBSET (1..Len(st)) /\ K \in SUBSET Nat
    <3>1. o \in K
      <4>1. 1 <= j
        OBVIOUS
      <4>2. QED
        BY <2>2, <4>1
    <3>2. 1..Len(st) \in SUBSET Nat
      BY <1>6
    <3>3. QED
      BY <3>1, <3>2
  <2>4. IsFiniteSet(K)
    <3>1. IsFiniteSet(1..Len(st))
      BY <1>6, FS_Interval
    <3>2. QED
      BY <2>3, <3>1, FS_Subset
  <2>5. PICK k \in K : \A m \in K : m <= k
    BY <2>3, <2>4, GreatestOf
  <2>6. k \in 1..Len(st) /\ st[k] <= j
    BY <2>5
  <2>7. k # Len(st) => j < st[k + 1]
    <3> SUFFICES ASSUME k # Len(st) PROVE j < st[k + 1]
      OBVIOUS
    <3>1. k + 1 \in 1..Len(st) /\ ~(k + 1 <= k)
      <4>1. k \in 1..Len(st) /\ k # Len(st) /\ Len(st) \in Nat
        BY <1>6, <2>6
      <4>2. QED
        BY ONLY <4>1
    <3>2. ~(st[k + 1] <= j)
      BY <2>5, <3>1
    <3>3. st[k + 1] \in Nat
      BY ONLY <1>6, <3>1
    <3>4. QED
      BY <3>2, <3>3
  <2>8. j <= end(k)
    <3>1. k # Len(st) => st[k + 1] \in Nat
      <4>1. k # Len(st) => k + 1 \in 1..Len(st)
        BY <1>8, <2>6
      <4>2. \A m \in 1..Len(st) : st[m] \in Nat
        BY ONLY <1>6
      <4>3. QED
        BY ONLY <4>1, <4>2
    <3>2. QED
      BY <1>1, <2>7, <3>1
  <2>9. QED
    BY <2>6, <2>8
<1> HIDE DEF end
<1>13. segments \in Segments
  <2>1. \A k \in 1..Len(st) : <<F[st[k]], F[end(k)]>> \in Seq(Int)
    BY <1>11
  <2>2. segments \in [1..Len(st) -> Seq(Int)]
    BY <1>10, <2>1
  <2>3. QED
    BY ONLY <1>6, <2>2 DEF Segments
<1>14. ASSUME NEW x PROVE x \in Covered(segments) <=> \E j \in 1..Len(F) : x = F[j]
  <2>1. x \in Covered(segments) <=>
            \E k \in 1..Len(st) : x \in F[st[k]]..F[end(k)]
    <3>1. x \in Covered(segments) <=> \E k \in DOMAIN segments : x \in segments[k][1]..segments[k][2]
      BY DEF Covered
    <3>2. \A k \in 1..Len(st) : segments[k][1] = F[st[k]] /\ segments[k][2] = F[end(k)]
      BY <1>10
    <3>3. QED
      BY <1>10, <3>1, <3>2
  <2>2. ASSUME NEW k \in 1..Len(st), x \in F[st[k]]..F[end(k)] PROVE \E j \in 1..Len(F) : x = F[j]
    <3>1. x \in Int
      BY <1>11, <2>2
    <3>2. QED
      BY <1>11, <2>2, <3>1
  <2>3. ASSUME NEW j \in 1..Len(F), x = F[j] PROVE \E k \in 1..Len(st) : x \in F[st[k]]..F[end(k)]
    <3>1. PICK k \in 1..Len(st) : st[k] <= j /\ j <= end(k)
      BY <1>12
    <3>2. x \in Int
      BY <1>1, <2>3
    <3>3. QED
      BY <1>11, <2>3, <3>1, <3>2
  <2>4. QED
    BY <2>1, <2>2, <2>3
<1>15. Covered(segments) = {F[n] : n \in DOMAIN F}
  BY <1>1, <1>14
<1>16. QED
  BY <1>1, <1>13, <1>15

(***************************************************************************)
(* The segments of what is shown, and the types                            *)
(*                                                                         *)
(* The segments of a row are what one of the two algorithms made of its    *)
(* localizations, as long as the row is the end of its branch.  A PATCH    *)
(* leaves a row behind that has the new localizations and the old segments,*)
(* but also a later mark, which only a prune takes back.                   *)
(***************************************************************************)
Fits(row) == row.segments \in {CalcSegments(row.parts), SplitSegments(row.parts)}

Segmented ==
    \A i \in Ids : Shown(i) /\ rows[i].el \notin spoiled => Fits(rows[i])

Cover == Once /\ spoiled \subseteq Elements /\ Segmented

LEMMA CoverTypes == Cover => TypeOK
<1> SUFFICES ASSUME Cover PROVE TypeOK
  OBVIOUS
<1>1. SegmentValues \subseteq Seq(Seq(Int))
  BY CalcCovers, SplitCovers DEF SegmentValues, Segments
<1>2. Row \subseteq Revision
  BY <1>1 DEF Row, Revision
<1>3. Typed /\ rows \in Seq(Row)
  BY DEF Cover, Once, Inv, Typed, Numbered
<1>4. rows \in Seq(Revision)
  BY <1>2, <1>3
<1>5. QED
  BY <1>3, <1>4 DEF Cover, Typed, TypeOK

LEMMA CoverSuffices == Cover => SegmentsCover
<1> SUFFICES ASSUME Cover, NEW i \in Ids, Shown(i), rows[i].parts # {}, rows[i].el \notin spoiled
             PROVE  Covered(rows[i].segments) = {FrameOf[l] : l \in rows[i].parts}
  BY DEF SegmentsCover
<1> PICK parts : parts = rows[i].parts
  OBVIOUS
<1>1. parts \in SUBSET Locs
  BY RowIsRow DEF Cover, Once, Inv, Typed, Ids, Row
<1>2. rows[i].segments \in {CalcSegments(parts), SplitSegments(parts)}
  BY DEF Cover, Segmented, Fits
<1>3. Covered(rows[i].segments) = {FrameOf[l] : l \in parts}
  BY <1>1, <1>2, CalcCovers, SplitCovers
<1>4. QED
  BY <1>3

\* A step that inserts no row.
LEMMA WriteSegments ==
    ASSUME Cover, Ids' = Ids, spoiled \subseteq spoiled',
           \A k \in Ids : rows'[k].el = rows[k].el,
           \A k \in Ids : Shown(k)' /\ rows'[k].el \notin spoiled' =>
               Fits(rows'[k]) \/ (Shown(k) /\ rows'[k].parts = rows[k].parts
                                    /\ rows'[k].segments = rows[k].segments)
    PROVE  Segmented'
<1> SUFFICES ASSUME NEW k \in Ids', Shown(k)', rows'[k].el \notin spoiled'
             PROVE  Fits(rows'[k])
  BY DEF Segmented, Fits
<1>1. k \in Ids /\ rows[k].el \notin spoiled
  OBVIOUS
<1>2. CASE Fits(rows'[k])
  BY <1>2
<1>3. CASE Shown(k) /\ rows'[k].parts = rows[k].parts /\ rows'[k].segments = rows[k].segments
  BY <1>1, <1>3 DEF Cover, Segmented, Fits
<1>4. QED
  BY <1>1, <1>2, <1>3

\* A step that inserts one: then no other row of its state is the end of the branch.
LEMMA InsertSegments ==
    ASSUME Cover, NEW e \in Elements, NEW table, Numbered(table), DOMAIN table = Ids,
           NEW row \in Row, row.el = e, rows' = Insert(table, row), Refresh(e),
           spoiled \subseteq spoiled',
           \A k \in Ids : table[k].el = rows[k].el /\ (rows[k].el # e => table[k] = rows[k]),
           e \in spoiled' \/ (~row.gone /\ row.there /\ (row.variant \/ Fits(row)))
    PROVE  Segmented'
<1> SUFFICES ASSUME NEW i \in Ids', Shown(i)', rows'[i].el \notin spoiled'
             PROVE  Fits(rows'[i])
  BY DEF Segmented, Fits
<1> PICK n : n = Len(table) + 1
  OBVIOUS
<1>1. latest \in [Elements -> Nat] /\ Refresh(row.el)
  BY DEF Cover, Once, Inv, Typed
<1>2. /\ Numbered(rows') /\ latest' \in [Elements -> Nat]
      /\ \A d \in Elements \ {e} : latest'[d] = latest[d]
      /\ Ids' = Ids \cup {n}
      /\ \A k \in Ids : rows'[k] = table[k]
      /\ Copied(rows'[n], row)
  BY <1>1, InsertTypes
<1>3. rows'[i] \in Row
  BY <1>2, RowIsRow DEF Ids
<1>4. /\ rows'[i].there /\ ~rows'[i].gone /\ rows'[i].mark = latest'[rows'[i].el]
      /\ ~rows'[i].variant
  BY DEF Shown, Current
<1>5. CASE rows'[i].el = e
  <2>1. ~row.gone /\ row.there /\ (row.variant \/ Fits(row))
    BY <1>5
  <2>2. CASE i = n
    BY <1>2, <1>4, <2>1, <2>2 DEF Copied, Fits
  <2>3. CASE i # n
    <3>1. i \in DOMAIN table /\ rows'[i] = table[i]
      BY <1>2, <2>3
    <3>2. \A k \in DOMAIN table : table[k].el = row.el /\ table[k].there /\ ~table[k].gone =>
              table[k].mark < latest'[row.el]
      BY ONLY <1>1, <2>1, row \in Row, Numbered(table), rows' = Insert(table, row), InsertIsLast
    <3>3. rows'[i].mark < latest'[e] /\ rows'[i].mark = latest'[e]
      BY <1>4, <1>5, <3>1, <3>2
    <3>4. rows'[i].mark \in Nat
      BY <1>3 DEF Row
    <3>5. QED
      BY <3>3, <3>4
  <2>4. QED
    BY <2>2, <2>3
<1>6. CASE rows'[i].el # e
  <2>1. i \in Ids /\ rows'[i] = table[i]
    BY <1>2, <1>6 DEF Copied
  <2>2. rows'[i] = rows[i]
    BY <1>6, <2>1
  <2>3. rows[i].el \in Elements \ {e}
    BY <1>3, <1>6, <2>2 DEF Row
  <2>4. latest'[rows[i].el] = latest[rows[i].el]
    BY <1>2, <2>3
  <2>5. Shown(i)
    BY <1>4, <2>2, <2>4 DEF Shown, Current
  <2>6. QED
    BY <2>1, <2>2, <2>5 DEF Cover, Segmented
<1>7. QED
  BY <1>5, <1>6

LEMMA PostCover ==
    ASSUME Cover, NEW e \in Elements, NEW parts \in SUBSET alive, Post(e, parts)
    PROVE  Segmented'
<1> PICK row : row = [el |-> e, mark |-> 0, variant |-> FALSE, gone |-> FALSE,
                      there |-> TRUE, parts |-> parts, segments |-> SplitSegments(parts)]
  OBVIOUS
<1>1. Numbered(rows) /\ parts \in SUBSET Locs
  BY DEF Cover, Once, Inv, Typed
<1>2. /\ row \in Row /\ row.el = e /\ ~row.gone /\ row.there /\ Fits(row)
  BY <1>1 DEF Row, SegmentValues, Fits
<1>3. rows' = Insert(rows, row) /\ Refresh(e) /\ spoiled' = spoiled
  BY DEF Post
<1>4. DOMAIN rows = Ids
  BY DEF Ids
<1>5. QED
  BY <1>1, <1>2, <1>3, <1>4, InsertSegments

LEMMA PatchCover ==
    ASSUME Cover, NEW i \in Ids, NEW parts \in SUBSET Locs, NEW in_place \in BOOLEAN,
           Patch(i, parts, in_place)
    PROVE  Segmented'
<1>1. PICK t, patched :
         /\ t \in EndOf(i)
         /\ patched = [rows[t] EXCEPT !.parts = parts,
                         !.segments = IF parts = rows[t].parts THEN rows[t].segments
                                      ELSE CalcSegments(parts)]
         /\ \/ rows' = [rows EXCEPT ![t] = patched] /\ latest' = latest
            \/ rows' = Insert([rows EXCEPT ![t].parts = parts], patched) /\ Refresh(rows[t].el)
         /\ spoiled' = spoiled
  BY DEF Patch
<1>2. /\ t \in Ids /\ rows[t].there /\ rows[t].mark = latest[rows[t].el]
  BY <1>1 DEF EndOf, Of, Ids
<1>3. Numbered(rows) /\ rows[t] \in Row
  BY <1>2, RowIsRow DEF Cover, Once, Inv, Typed, Ids
<1> PICK e \in Elements : e = rows[t].el
  BY <1>3 DEF Row
<1>4. /\ patched \in Row /\ patched.el = e /\ patched.mark = rows[t].mark
      /\ patched.variant = rows[t].variant /\ patched.gone = rows[t].gone /\ patched.there
      /\ patched.parts = parts
      /\ patched.segments = IF parts = rows[t].parts THEN rows[t].segments
                            ELSE CalcSegments(parts)
  BY <1>1, <1>2, <1>3 DEF Row, SegmentValues
<1>5. e \in spoiled \/ (~patched.gone /\ (patched.variant \/ Fits(patched)))
  <2> SUFFICES ASSUME e \notin spoiled, ~rows[t].variant PROVE ~rows[t].gone /\ Fits(patched)
    BY <1>2, <1>4 DEF Cover, Once, PrunedIsSpoiled
  <2>1. ~rows[t].gone
    BY <1>2 DEF Cover, Once, PrunedIsSpoiled
  <2>2. Shown(t)
    BY <1>2, <2>1 DEF Shown, Current
  <2>3. Fits(rows[t])
    BY <1>2, <2>2 DEF Cover, Segmented
  <2>4. QED
    BY <1>4, <2>1, <2>3 DEF Fits
<1>6. CASE rows' = [rows EXCEPT ![t] = patched] /\ latest' = latest
  <2>1. /\ Ids' = Ids /\ rows'[t] = patched
        /\ \A k \in Ids : k # t => rows'[k] = rows[k]
    BY <1>2, <1>3, <1>4, <1>6, WriteKeepsNumbers DEF Ids
  <2>2. \A k \in Ids : rows'[k].el = rows[k].el
    BY <1>4, <2>1
  <2>3. ASSUME NEW k \in Ids, Shown(k)', rows'[k].el \notin spoiled'
        PROVE  \/ Fits(rows'[k])
               \/ /\ Shown(k) /\ rows'[k].parts = rows[k].parts
                  /\ rows'[k].segments = rows[k].segments
    <3>1. CASE k = t
      BY <1>1, <1>4, <1>5, <2>1, <2>3, <3>1 DEF Shown
    <3>2. CASE k # t
      BY <1>6, <2>1, <2>3, <3>2 DEF Shown, Current
    <3>3. QED
      BY <3>1, <3>2
  <2>4. QED
    BY <1>1, <2>1, <2>2, <2>3, WriteSegments
<1>7. CASE rows' = Insert([rows EXCEPT ![t].parts = parts], patched) /\ Refresh(e)
  <2> PICK kept : kept = [rows[t] EXCEPT !.parts = parts]
    OBVIOUS
  <2> PICK table : table = [rows EXCEPT ![t] = kept]
    OBVIOUS
  <2>1. kept \in Row /\ kept.mark = rows[t].mark /\ kept.el = e
    BY <1>3 DEF Row
  <2>2. /\ Numbered(table) /\ DOMAIN table = Ids /\ table[t] = kept
        /\ \A k \in Ids : k # t => table[k] = rows[k]
    BY <1>2, <1>3, <2>1, WriteKeepsNumbers DEF Ids
  <2>3. rows' = Insert(table, patched)
    BY <1>7
  <2>4. \A k \in Ids : table[k].el = rows[k].el /\ (rows[k].el # e => table[k] = rows[k])
    BY <2>1, <2>2
  <2>5. e \in Elements /\ patched \in Row /\ patched.el = e /\ spoiled \subseteq spoiled'
    BY <1>1, <1>4
  <2>6. e \in spoiled' \/ (~patched.gone /\ patched.there /\ (patched.variant \/ Fits(patched)))
    BY <1>1, <1>4, <1>5
  <2>7. Cover /\ Refresh(e)
    BY <1>7
  <2>8. QED
    BY ONLY <2>2, <2>3, <2>4, <2>5, <2>6, <2>7, InsertSegments
<1>8. QED
  BY <1>1, <1>6, <1>7

\* A deletion is not shown.
LEMMA DeleteCover ==
    ASSUME Cover, NEW i \in Ids, BulkDelete(i) \/ \E p \in Requests : DeleteState(p, i)
    PROVE  Segmented'
<1>1. PICK row : /\ \/ row = [rows[i] EXCEPT !.variant = TRUE, !.parts = {}]
                    \/ row = [rows[i] EXCEPT !.variant = TRUE]
                 /\ rows' = Insert(rows, row) /\ Refresh(rows[i].el)
                 /\ ~rows[i].gone /\ rows[i].there /\ spoiled \subseteq spoiled'
  BY DEF BulkDelete, DeleteState, Current, history
<1>2. Numbered(rows) /\ rows[i] \in Row /\ DOMAIN rows = Ids
  BY RowIsRow DEF Cover, Once, Inv, Typed, Ids
<1>3. /\ row \in Row /\ row.el = rows[i].el /\ rows[i].el \in Elements /\ row.variant
      /\ ~row.gone /\ row.there
  BY <1>1, <1>2 DEF Row
<1>4. QED
  BY <1>1, <1>2, <1>3, InsertSegments

LEMMA PruneCover ==
    ASSUME Cover, NEW i \in Ids, NEW p \in Requests, PruneState(p, i)
    PROVE  Segmented'
<1>1. /\ Numbered(rows) /\ rows[i] \in Row /\ latest \in [Elements -> Nat]
  BY RowIsRow DEF Cover, Once, Inv, Typed, Ids
<1> PICK e \in Elements : e = rows[i].el
  BY <1>1 DEF Row
<1> PICK row : row = [rows[i] EXCEPT !.gone = TRUE]
  OBVIOUS
<1>2. row \in Row /\ row.el = e /\ row.mark = rows[i].mark
  BY <1>1 DEF Row
<1>3. rows' = [rows EXCEPT ![i] = row] /\ Refresh(e) /\ spoiled' = spoiled \cup {e}
  BY DEF PruneState
<1>4. /\ Ids' = Ids /\ rows'[i] = row
      /\ \A k \in Ids : k # i => rows'[k] = rows[k]
  BY <1>1, <1>2, <1>3, WriteKeepsNumbers DEF Ids
<1>5. \A k \in Ids : rows'[k].el = rows[k].el
  BY <1>2, <1>4
<1>6. ASSUME NEW k \in Ids, Shown(k)', rows'[k].el \notin spoiled'
      PROVE  /\ Shown(k) /\ rows'[k].parts = rows[k].parts
             /\ rows'[k].segments = rows[k].segments
  <2>1. rows'[k] = rows[k] /\ rows[k].el # e
    BY <1>2, <1>3, <1>4, <1>6
  <2>2. latest'[rows[k].el] = latest[rows[k].el]
    <3>1. rows[k].el \in Elements
      BY <1>1, RowIsRow DEF Ids, Row
    <3>2. QED
      BY <1>1, <1>3, <2>1, <3>1 DEF Refresh
  <2>3. QED
    BY <1>6, <2>1, <2>2 DEF Shown, Current
<1>7. QED
  BY <1>3, <1>4, <1>5, <1>6, WriteSegments

LEMMA MergeCover ==
    ASSUME Cover, NEW i \in Ids, NEW other \in Ids, Merge(i, other)
    PROVE  spoiled' \subseteq Elements /\ Segmented'
<1>1. Inv
  BY DEF Cover, Once
<1>2. /\ Ids' = Ids
      /\ \A k \in Ids :
                 /\ rows'[k].el = rows[k].el /\ rows'[k].mark = rows[k].mark
                 /\ rows'[k].variant = rows[k].variant /\ rows'[k].gone = rows[k].gone
                 /\ rows'[k].there <=> rows[k].there /\ k # other
                 /\ k # i /\ k # other => rows'[k] = rows[k]
      /\ i # other =>
            /\ rows'[i].parts = rows[i].parts \cup rows[other].parts
            /\ rows'[i].segments = IF rows[other].parts = {} THEN rows[i].segments
                                   ELSE CalcSegments(rows'[i].parts)
  BY <1>1, MergedRows
<1>3. /\ latest' = latest
      /\ spoiled' = spoiled \cup IF Shown(other) THEN {} ELSE {rows[other].el}
  BY <1>1, MergedRest
<1>4. spoiled' \subseteq Elements
  BY <1>1, <1>3, RowIsRow DEF Cover, Inv, Typed, Ids, Row
<1>5. ASSUME NEW k \in Ids, Shown(k)', rows'[k].el \notin spoiled'
      PROVE  \/ Fits(rows'[k])
             \/ /\ Shown(k) /\ rows'[k].parts = rows[k].parts
                /\ rows'[k].segments = rows[k].segments
  <2>1. k # other /\ Shown(k)
    BY <1>2, <1>3, <1>5 DEF Shown, Current
  <2>2. CASE k = i
    <3>1. CASE rows[other].parts = {}
      BY <1>2, <2>1, <2>2, <3>1
    <3>2. CASE rows[other].parts # {}
      BY <1>2, <2>1, <2>2, <3>2 DEF Fits
    <3>3. QED
      BY <3>1, <3>2
  <2>3. CASE k # i
    BY <1>2, <2>1, <2>3
  <2>4. QED
    BY <2>2, <2>3
<1>6. QED
  BY <1>2, <1>3, <1>4, <1>5, WriteSegments

LEMMA TrimCover ==
    ASSUME Cover, NEW i \in Ids, NEW cut, Trim(i, cut)
    PROVE  Segmented'
<1> PICK parts : parts = rows[i].parts \ cut
  OBVIOUS
<1>1. /\ latest' = latest /\ spoiled' = spoiled /\ rows[i] \in Row /\ Numbered(rows)
  BY RowIsRow DEF Trim, history, Cover, Once, Inv, Typed, Ids
<1>2. /\ Ids' = Ids /\ rows'[i].parts = parts
      /\ rows'[i].segments = IF cut = {} THEN rows[i].segments ELSE CalcSegments(parts)
      /\ rows'[i].el = rows[i].el /\ rows'[i].mark = rows[i].mark
      /\ rows'[i].variant = rows[i].variant /\ rows'[i].gone = rows[i].gone
      /\ rows'[i].there = rows[i].there
      /\ \A k \in Ids : k # i => rows'[k] = rows[k]
  BY <1>1 DEF Trim, Ids, Row, Numbered
<1>3. \A k \in Ids : rows'[k].el = rows[k].el
  BY <1>2
<1>4. ASSUME NEW k \in Ids, Shown(k)', rows'[k].el \notin spoiled'
      PROVE  \/ Fits(rows'[k])
             \/ /\ Shown(k) /\ rows'[k].parts = rows[k].parts
                /\ rows'[k].segments = rows[k].segments
  <2>1. Shown(k)
    BY <1>1, <1>2, <1>4 DEF Shown, Current
  <2>2. CASE k = i /\ cut # {}
    BY <1>2, <2>2 DEF Fits
  <2>3. CASE k = i /\ cut = {}
    BY <1>2, <2>1, <2>3
  <2>4. CASE k # i
    BY <1>2, <2>1, <2>4
  <2>5. QED
    BY <2>2, <2>3, <2>4
<1>5. QED
  BY <1>1, <1>2, <1>3, <1>4, WriteSegments

LEMMA StepCover == Cover /\ [Next]_vars => Cover'
<1> SUFFICES ASSUME Cover, [Next]_vars PROVE Cover'
  OBVIOUS
<1>1. Once'
  BY StepOnce DEF Cover
<1>2. \A i \in Ids : rows[i].el \in Elements
  BY RowIsRow DEF Cover, Once, Inv, Typed, Ids, Row
<1>3. ASSUME rows' = rows, latest' = latest, spoiled' = spoiled PROVE Segmented'
  <2>1. Ids' = Ids /\ \A k \in Ids : Shown(k)' => Shown(k)
    BY <1>3 DEF Ids, Shown, Current
  <2>2. QED
    BY <1>3, <2>1, WriteSegments
<1>4. ASSUME NEW e \in Elements, NEW parts \in SUBSET alive, Post(e, parts)
      PROVE  spoiled' = spoiled /\ Segmented'
  BY <1>4, PostCover DEF Post
<1>5. ASSUME NEW i \in Ids, Change(i) PROVE spoiled' \subseteq Elements /\ Segmented'
  <2>1. ASSUME NEW parts \in SUBSET Locs, NEW in_place \in BOOLEAN, Patch(i, parts, in_place)
        PROVE  spoiled' = spoiled /\ Segmented'
    BY <2>1, PatchCover DEF Patch
  <2>2. CASE BulkDelete(i)
    BY <1>2, <2>2, DeleteCover DEF BulkDelete, Cover
  <2>3. ASSUME NEW other \in Ids, Merge(i, other)
        PROVE  spoiled' \subseteq Elements /\ Segmented'
    BY <2>3, MergeCover
  <2>4. ASSUME NEW l \in rows[i].parts,
               Trim(i, Before(i, FrameOf[l])) \/ Trim(i, After(i, FrameOf[l]))
        PROVE  spoiled' = spoiled /\ Segmented'
    BY <2>4, TrimCover DEF Trim, history
  <2>5. QED
    BY <1>5, <2>1, <2>2, <2>3, <2>4 DEF Change, Cover
<1>6. ASSUME NEW p \in Requests, Deletion(p) PROVE spoiled' \subseteq Elements /\ Segmented'
  <2>1. ASSUME NEW i \in Ids, DeleteState(p, i) PROVE spoiled' = spoiled /\ Segmented'
    BY <2>1, DeleteCover DEF DeleteState, history
  <2>2. ASSUME NEW i \in Ids, PruneState(p, i) PROVE spoiled' \subseteq Elements /\ Segmented'
    BY <1>2, <2>2, PruneCover DEF PruneState, Cover
  <2>3. CASE DeleteChildren(p) \/ Die(p)
    BY <1>3, <2>3 DEF DeleteChildren, Die, history, Cover
  <2>4. QED
    BY <1>6, <2>1, <2>2, <2>3 DEF Deletion, Cover
<1>7. ASSUME UNCHANGED vars PROVE spoiled' \subseteq Elements /\ Segmented'
  BY <1>3, <1>7 DEF vars, history, Cover
<1>8. spoiled' \subseteq Elements /\ Segmented'
  BY <1>4, <1>5, <1>6, <1>7 DEF Next, Cover
<1>9. QED
  BY <1>1, <1>8 DEF Cover

LEMMA InitCover == Init => Cover
<1> SUFFICES ASSUME Init PROVE Cover
  OBVIOUS
<1>1. Ids = {} /\ spoiled = {}
  BY DEF Init, Ids
<1>2. Once
  BY <1>1, InitInv DEF Once, PrunedIsSpoiled, DeletionIsLast, OwnIsAway
<1>3. QED
  BY <1>1, <1>2 DEF Cover, Segmented

\* The segments that a state shows are made of the frames of its localizations, no
\* frame more and none less, whether POST split them or calc_segments went through them,
\* and however often requests patch, merge, trim and copy them (src/api/main/models.py,
\* src/api/main/rest/state.py).
THEOREM SegmentsAreRight == Spec => []SegmentsCover
<1>1. Cover => SegmentsCover
  BY CoverSuffices
<1>2. QED
  BY <1>1, InitCover, StepCover, PTL DEF Spec

\* Every variable has its type; the segments are pairs of numbers, whatever the frames
\* (calc_segments in src/api/main/models.py).
THEOREM TypeCorrect == Spec => []TypeOK
<1>1. Cover => TypeOK
  BY CoverTypes
<1>2. QED
  BY <1>1, InitCover, StepCover, PTL DEF Spec

=============================================================================
