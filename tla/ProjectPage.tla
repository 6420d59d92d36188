---------------------------- MODULE ProjectPage ----------------------------
(* The project page: the folder that is open, its filter and its pages of    *)
(* cards (media-section.js), the selection of cards and what is done to it   *)
(* (entity-gallery-bulk-edit.js), and the dialogs around it                  *)
(* (project-detail.js).                                                      *)
(*                                                                           *)
(* A load is two requests, the count and then the list of media, and nothing *)
(* keeps loads from overlapping.  Requests are served and answered in any    *)
(* order.  A dialog dims the page: the mouse then reaches only the dialogs,  *)
(* and the keyboard still everything.                                        *)
EXTENDS Integers, Sequences, SequencesExt, FiniteSets, FiniteSetsExt

CONSTANTS
    Media,         \* ids of media, numbers: the order of the cards
    Types, TypeOf, \* media types, which bulk edit works through in order
    Folders,       \* sections of the project
    All, Nowhere,  \* the choice "All Media", and where media are in no section
    Gone,          \* where a deleted media is
    Hits,          \* the media that a filter of the user lets through
    Sizes,         \* the page sizes that are offered
    DefaultSize,
    SeedPlace,     \* where the media are to begin with
    NaN,           \* what JavaScript makes of undefined - 1
    MaxActs,       \* bound: loads and picks of the user, and dialogs opened
    MaxRequests,   \* bound: requests under way when the user acts
    MaxFaults      \* bound: requests to write that fail

ASSUME MediaAssumption ==
    /\ Media \subseteq Nat /\ IsFiniteSet(Media) /\ Hits \subseteq Media
    /\ Types \subseteq Nat /\ TypeOf \in [Media -> Types]
    /\ SeedPlace \in [Media -> Folders \cup {Nowhere}]
    /\ {All, Nowhere, Gone} \cap Folders = {}
ASSUME BoundsAssumption ==
    /\ Sizes \subseteq Nat \ {0} /\ DefaultSize \in Sizes /\ NaN \notin Int
    /\ {MaxActs, MaxRequests, MaxFaults} \subseteq Nat

VARIABLES
    place, attr, folders,   \* the server: media, their attribute, the sections
    tree,                   \* the sections that the page knows
    sec, filter,            \* what is to be shown: section, filter or none,
    start, stop, psize,     \* and the range of the page
    pager,                  \* the paginators: [page, num]
    url,                    \* the parameters of the page in the URL
    els,                    \* the cards of the last load, known to bulk edit
    stub,                   \* the cards there are instead after a broken load
    broken,                 \* the last load ended in the middle
    wait,                   \* "Loading..." is shown
    edit, sel,              \* select mode; id -> its card object is known
    dialog, dim, fading,    \* dialogs, the dimmer, messages that will fade
    asked,                  \* the requests under way
    acts, faults,
    latest,                 \* history: the cards are those of the newest list
    missed,                 \* history: a change was not followed by a load
    skipped                 \* history: the filter is not in the URL, its load broke

server  == <<place, attr, folders>>
range   == <<start, stop, psize>>
gallery == <<els, stub, broken>>
picks   == <<edit, sel>>
front   == <<dialog, dim, fading>>
bounds  == <<acts, faults>>
history == <<latest, missed, skipped>>
vars    == <<server, tree, sec, filter, range, pager, url, gallery, wait, picks,
             front, asked, bounds, history>>

-----------------------------------------------------------------------------
(* Numbers in their order.                                                  *)

\* The k-th of a set of numbers, and the elements of a sequence at such places.
Nth(S, k) == CHOOSE m \in S : Cardinality({n \in S : n < m}) = k - 1
InOrder(S) == [k \in 1..Cardinality(S) |-> Nth(S, k)]
Only(seq, places) == [k \in 1..Cardinality(places) |-> seq[Nth(places, k)]]

-----------------------------------------------------------------------------
(* The server.                                                              *)

InFolder(m, s) == place[m] # Gone /\ (s = All \/ place[m] = s)
Found(s, f) == {m \in Media : InFolder(m, s) /\ (f => m \in Hits)}

\* The media from start to stop, in the order of the cards.
Page(s, f, from, to) ==
    LET found == Found(s, f)
        last  == IF to < Cardinality(found) THEN to ELSE Cardinality(found)
    IN  [i \in 1..(IF last > from THEN last - from ELSE 0) |->
            [id |-> Nth(found, from + i), val |-> attr[Nth(found, from + i)]]]

-----------------------------------------------------------------------------
(* Requests.                                                                *)

\* k: what it is; then: what waits for the load; ids and rest: the media of a
\* write and of those still to be sent; flag: of the newest list, of a deletion
\* with media, of an edit that has failed in part; good, count, list: the answer.
Request(k, ids) ==
    [n |-> 0, k |-> k, then |-> "nothing", ids |-> ids, rest |-> <<>>, to |-> All,
     sec |-> All, filter |-> FALSE, start |-> 0, stop |-> 0, flag |-> FALSE,
     served |-> FALSE, good |-> FALSE, count |-> 0, list |-> <<>>]

Quiet == asked = {}

\* n tells requests apart that are otherwise alike.
Alike(q, r) ==
    \A field \in {"k", "then", "ids", "rest", "to", "sec", "filter", "start", "stop"} :
        q[field] = r[field]
Asking(reqs, r) ==
    LET n == Min({i \in 0..Cardinality(reqs) : \A q \in reqs : q.n = i => ~Alike(q, r)})
    IN  reqs \cup {[r EXCEPT !.n = n]}

\* reload: the count with the section and filter of this moment.
Reload(reqs, s, f, then) ==
    Asking(reqs, [Request("count", {}) EXCEPT !.sec = s, !.filter = f, !.then = then])

\* _loadMedia: the list, which is then the newest.
LoadMedia(reqs, from, to, then) ==
    Asking({[r EXCEPT !.flag = @ /\ r.k # "list"] : r \in reqs},
           [Request("list", {}) EXCEPT !.sec = sec, !.filter = filter, !.then = then,
               !.start = from, !.stop = to, !.flag = TRUE])

Replace(r, new) == (asked \ {r}) \cup new

-----------------------------------------------------------------------------
(* Paginators (entity-gallery-paginator.js), the two of them in step.       *)

PagesOf(num) == (num + psize - 1) \div psize
Smaller(a, b) == IF a < b THEN a ELSE b
PageAt(from, size) == IF from = NaN THEN NaN ELSE from \div size

\* _emit, and the answer of the media section to it: the range of the page.
From(p, size) == IF p = NaN THEN NaN ELSE p * size
To(p, size) == IF p = NaN THEN NaN ELSE Smaller(pager.num, (p + 1) * size)

\* _updatePageArgs: no parameters for the first page of the default size.
NoPage == [page |-> 0, size |-> 0]
PageArgs(from, size, p) ==
    IF from = 0 /\ size = DefaultSize THEN NoPage
    ELSE [page |-> IF p = NaN THEN NaN ELSE p + 1, size |-> size]
UrlWith(s, args) == [sec |-> s, filter |-> url.filter, page |-> args.page, size |-> args.size]

-----------------------------------------------------------------------------
(* Cards and the selection (section-files.js, entity-gallery-bulk-edit.js). *)

Fresh(list) == [i \in DOMAIN list |->
    [id |-> list[i].id, val |-> list[i].val, ticked |-> FALSE, shown |-> TRUE]]
Cards == IF broken THEN stub ELSE Only(els, {i \in DOMAIN els : els[i].shown})

Picked == DOMAIN sel
\* clearAllCheckboxes reaches the cards that bulk edit knows.
Unticked(cards) == [i \in DOMAIN cards |-> [cards[i] EXCEPT !.ticked = FALSE]]
Ticked(cards, ids) ==
    [i \in DOMAIN cards |-> [cards[i] EXCEPT !.ticked = @ \/ cards[i].id \in ids]]
Known(ids) == [m \in ids |-> TRUE]
With(s, ids) == [m \in DOMAIN s \cup ids |-> IF m \in ids THEN TRUE ELSE s[m]]
Nobody == Known({})

\* _makeCards: in select mode a card of the selection is added to it again,
\* before it has its card object, and the load ends there.
Again(list) == {i \in DOMAIN list : edit /\ list[i].id \in Picked}
MakeCards_WaitsForOne(list) ==
    /\ els' = Fresh(list) /\ stub' = <<>>
    /\ broken' = FALSE /\ wait' = (wait /\ list = <<>>)
    /\ UNCHANGED sel
MakeCards(list) ==
    IF Again(list) = {}
    THEN /\ els' = Fresh(list) /\ stub' = <<>>
         /\ broken' = FALSE /\ wait' = FALSE
         /\ UNCHANGED sel
    ELSE LET at == Min(Again(list))
         IN  /\ stub' = Fresh(SubSeq(list, 1, at - 1))
             /\ broken' = TRUE
             /\ sel' = [sel EXCEPT ![list[at].id] = FALSE]
             /\ UNCHANGED <<els, wait>>

-----------------------------------------------------------------------------
(* What the user looks at.                                                  *)

\* The mouse reaches the page when nothing dims it.
Act == acts < MaxActs /\ Cardinality(asked) < MaxRequests /\ acts' = acts + 1
Clicks == ~dim /\ Act

\* selectSection and init of the media section: the page is undefined.
Select_SamePage(s, reqs) ==
    /\ sec' = s /\ wait' = TRUE
    /\ start' = 0 /\ stop' = psize
    /\ UNCHANGED pager
    /\ url' = UrlWith(s, PageArgs(start, psize, pager.page))
    /\ asked' = Reload(reqs, s, filter, "nothing")
Select(s, reqs) ==
    /\ sec' = s /\ wait' = TRUE
    /\ start' = 0 /\ stop' = psize
    /\ pager' = [pager EXCEPT !.page = NaN]
    /\ url' = UrlWith(s, PageArgs(0, psize, NaN))
    /\ asked' = Reload(reqs, s, filter, "nothing")

SelectSection(s) ==
    /\ Clicks
    /\ s \in tree \cup {All}
    /\ Select(s, asked)
    /\ missed' = FALSE
    /\ UNCHANGED <<server, tree, filter, psize, gallery, picks, front, faults, latest, skipped>>

\* _setPage of the media section: the ticks go, the selection stays; a range
\* that is no number is not asked for.  Without media there are no paginators (and
\* a deletion can make the count -1 until the next answer).
SetPage(p, size) ==
    /\ Clicks
    /\ pager.num > 0
    /\ psize' = size
    /\ start' = From(p, size) /\ stop' = To(p, size)
    /\ pager' = [pager EXCEPT !.page = p]
    /\ url' = UrlWith(url.sec, PageArgs(start', size, p))
    /\ els' = Unticked(els)
    /\ IF p = NaN THEN UNCHANGED asked
       ELSE asked' = LoadMedia(asked, From(p, size), To(p, size), "nothing")
    /\ missed' = (missed /\ p = NaN)
    /\ UNCHANGED <<server, tree, sec, filter, stub, broken, wait, picks, front,
                   faults, latest, skipped>>

PrevPage == SetPage(IF pager.page = NaN THEN NaN
                    ELSE IF pager.page > 0 THEN pager.page - 1 ELSE 0, psize)
NextPage == SetPage(IF pager.page = NaN THEN NaN
                    ELSE Smaller(PagesOf(pager.num) - 1, pager.page + 1), psize)
GoToPage(p) == p < PagesOf(pager.num) /\ SetPage(p, psize)
ChangeSize(size) == size # psize /\ SetPage(0, size)

\* updateFilterResults: the first page, with the page of the paginator in the
\* URL as it was.
ChangeFilter ==
    /\ Clicks
    /\ filter' = ~filter
    /\ start' = 0 /\ stop' = psize
    /\ url' = UrlWith(url.sec, PageArgs(0, psize, pager.page))
    /\ asked' = Reload(asked, sec, ~filter, "filter")
    /\ missed' = FALSE
    /\ UNCHANGED <<server, tree, sec, psize, pager, gallery, wait, picks, front,
                   faults, latest, skipped>>

ClickReload ==
    /\ Clicks
    /\ asked' = Reload(asked, sec, filter, "nothing")
    /\ missed' = FALSE
    /\ UNCHANGED <<server, tree, sec, filter, range, pager, url, gallery, wait, picks,
                   front, faults, latest, skipped>>

\* _updateFilterResults goes on when the load is done, or has ended with an
\* exception: then the URL is not updated.
FilterDone(r, well) ==
    IF r.then = "filter"
    THEN /\ dim' = FALSE
         /\ url' = IF well THEN [url EXCEPT !.filter = filter] ELSE url
         /\ skipped' = ~well
    ELSE UNCHANGED <<dim, url, skipped>>

\* What the server answers, if it has not done so already.
CountFor(r) == IF r.served THEN r.count ELSE Cardinality(Found(r.sec, r.filter))
ListFor(r) == IF r.served THEN r.list ELSE Page(r.sec, r.filter, r.start, r.stop)

\* The count has arrived: the paginators are set to the start, and the list is
\* asked for with what is to be shown now.
AnswerCount(r) ==
    /\ r.k = "count"
    /\ pager' = [num |-> CountFor(r), page |-> PageAt(start, psize)]
    /\ IF NaN \in {start, stop}
       THEN asked' = asked \ {r} /\ FilterDone(r, TRUE)
       ELSE asked' = LoadMedia(asked \ {r}, start, stop, r.then) /\ UNCHANGED <<dim, url, skipped>>
    /\ UNCHANGED <<server, tree, sec, filter, range, gallery, wait, picks, dialog, fading,
                   bounds, latest, missed>>

AnswerList(r) ==
    /\ r.k = "list"
    /\ MakeCards(ListFor(r))
    /\ FilterDone(r, Again(ListFor(r)) = {})
    /\ asked' = asked \ {r}
    /\ latest' = r.flag
    /\ UNCHANGED <<server, tree, sec, filter, range, pager, edit, dialog, fading,
                   bounds, missed>>

-----------------------------------------------------------------------------
(* The selection.                                                           *)

PicksOnly == UNCHANGED <<server, tree, sec, filter, range, pager, url, broken, wait, front,
                         asked, faults, history>>

\* startEditMode: cards that are ticked are added.
EnterSelectMode ==
    /\ ~dim /\ ~edit
    /\ edit' = TRUE
    /\ sel' = With(sel, {els[i].id : i \in {j \in DOMAIN els : els[j].ticked}} \ Picked)
    /\ UNCHANGED <<els, stub, acts>>
    /\ PicksOnly

\* A click on a card: the tick decides what it does.
Toggle(cards, i) == [cards EXCEPT ![i].ticked = ~@]
Pick(i) ==
    /\ ~dim /\ edit /\ acts < MaxActs /\ acts' = acts + 1
    /\ LET card == Cards[i]
       IN  /\ sel' = IF card.ticked THEN Restrict(sel, Picked \ {card.id})
                     ELSE With(sel, {card.id})
           /\ IF broken THEN stub' = Toggle(stub, i) /\ UNCHANGED els
              ELSE /\ els' = [j \in DOMAIN els |->
                                IF els[j] = card THEN [card EXCEPT !.ticked = ~@] ELSE els[j]]
                   /\ UNCHANGED stub
    /\ UNCHANGED edit
    /\ PicksOnly

\* Ctrl-A: selectAllOnPage.
SelectAll ==
    /\ edit /\ acts < MaxActs /\ acts' = acts + 1
    /\ LET more == {els[i].id : i \in {j \in DOMAIN els : ~els[j].ticked}} \ Picked
       IN  sel' = With(sel, more) /\ els' = Ticked(els, more)
    /\ UNCHANGED <<edit, stub>>
    /\ PicksOnly

ClearSelection_Ticked == sel' = Nobody /\ UNCHANGED els
ClearSelection == sel' = Nobody /\ els' = Unticked(els)

\* Escape clears the selection, whatever is open or under way; the button of
\* the panel leaves select mode.
Escape ==
    /\ edit /\ ClearSelection
    /\ UNCHANGED <<edit, stub, acts>>
    /\ PicksOnly
LeaveSelectMode ==
    /\ ~dim /\ edit /\ edit' = FALSE
    /\ ClearSelection
    /\ UNCHANGED <<stub, acts>>
    /\ PicksOnly

-----------------------------------------------------------------------------
(* Dialogs.  Each one dims the page, and its end lights it, whatever else   *)
(* is open.                                                                 *)

NoDialog == [delete |-> {}, move |-> {}, section |-> All, media |-> FALSE,
             modal |-> "closed", form |-> <<>>, error |-> FALSE]
Opened == dialog.delete # {} \/ dialog.move # {} \/ dialog.section # All
          \/ dialog.modal # "closed" \/ dialog.error

FrontOnly == UNCHANGED <<server, tree, sec, filter, range, pager, url, gallery, wait, picks,
                         fading, faults, history>>
Open(d) == dialog' = d /\ dim' = TRUE
Close(d) == dialog' = d /\ dim' = FALSE

\* The media of the selection, or the one of a card's menu.
Chosen == {ids \in {Picked} \cup {{Cards[i].id} : i \in DOMAIN Cards} : ids # {}}

OpenDelete(ids) == Clicks /\ Open([dialog EXCEPT !.delete = ids]) /\ FrontOnly /\ UNCHANGED asked
OpenMove(ids) == Clicks /\ Open([dialog EXCEPT !.move = ids]) /\ FrontOnly /\ UNCHANGED asked
OpenSection(media) ==
    /\ Clicks /\ sec # All
    /\ Open([dialog EXCEPT !.section = sec, !.media = media])
    /\ FrontOnly /\ UNCHANGED asked

\* _saveConfirmation: the ids of each type at this moment, for the types that
\* the user has filled in.
FormOf(types) ==
    LET ofType(t) == {m \in Picked : TypeOf[m] = t}
        order     == InOrder({t \in types : ofType(t) # {}})
    IN  [i \in DOMAIN order |-> ofType(order[i])]
OpenConfirm(types) ==
    /\ Clicks /\ edit /\ FormOf(types) # <<>>
    /\ Open([dialog EXCEPT !.modal = "confirm", !.form = FormOf(types)])
    /\ FrontOnly /\ UNCHANGED asked

Cancel ==
    /\ \E d \in {[dialog EXCEPT !.delete = {}], [dialog EXCEPT !.move = {}],
                 [dialog EXCEPT !.section = All], [dialog EXCEPT !.error = FALSE],
                 [dialog EXCEPT !.modal = "closed", !.form = <<>>]} :
            d # dialog /\ Close(d)
    /\ FrontOnly /\ UNCHANGED <<asked, acts>>

\* _success: fadeOut closes the modal after a while, whatever it shows then.
Fade ==
    /\ fading > 0 /\ fading' = fading - 1
    /\ Close([dialog EXCEPT !.modal = "closed", !.form = <<>>])
    /\ UNCHANGED <<server, tree, sec, filter, range, pager, url, gallery, wait, picks,
                   asked, bounds, history>>

-----------------------------------------------------------------------------
(* What the dialogs send.                                                   *)

Sends(r) ==
    /\ Cardinality(asked) < MaxRequests
    /\ asked' = Asking(asked, r)
    /\ UNCHANGED <<server, tree, sec, filter, range, pager, url, gallery, wait, picks,
                   fading, bounds, history>>

\* delete-file-form: it stays open until the answer.
AcceptDelete ==
    /\ dialog.delete # {}
    /\ Sends(Request("delete", dialog.delete))
    /\ UNCHANGED <<dialog, dim>>

AcceptMove(to) ==
    /\ dialog.move # {} /\ to \in tree
    /\ dialog' = [dialog EXCEPT !.move = {}]
    /\ Sends([Request("move", dialog.move) EXCEPT !.to = to])
    /\ UNCHANGED dim

\* The media of the section first, if they are to go too.
AcceptSection ==
    /\ dialog.section # All
    /\ dialog' = [dialog EXCEPT !.section = All]
    /\ Sends([Request(IF dialog.media THEN "section media" ELSE "section", {})
                EXCEPT !.to = dialog.section])
    /\ UNCHANGED dim

\* _editMedia: one request for each type, one after the other.
AcceptEdit ==
    /\ dialog.modal = "confirm"
    /\ dialog' = [dialog EXCEPT !.modal = "closed", !.form = <<>>]
    /\ dim' = TRUE
    /\ Sends([Request("edit", Head(dialog.form)) EXCEPT !.rest = Tail(dialog.form)])

-----------------------------------------------------------------------------
(* Their answers.                                                           *)

\* removeMedia: the card of a single media goes (a list of ids as text matches
\* no card), the ticks go, and the selection stays.
Hidden(ids) == [i \in DOMAIN els |->
    [els[i] EXCEPT !.ticked = FALSE, !.shown = @ /\ els[i].id \notin ids]]
AnswerDelete(r) ==
    /\ r.k = "delete" /\ r.served
    /\ LET single == IF Cardinality(r.ids) = 1 THEN r.ids ELSE {}
           onPage == \E i \in DOMAIN Cards : Cards[i].id \in single
       IN  /\ els' = IF broken THEN Unticked(els) ELSE Hidden(single)
           /\ stub' = Only(stub, {i \in DOMAIN stub : stub[i].id \notin single})
           /\ pager' = IF onPage THEN [num |-> pager.num - 1, page |-> PageAt(start, psize)]
                       ELSE pager
    /\ asked' = Reload(asked \ {r}, sec, filter, "nothing")
    /\ Close([dialog EXCEPT !.delete = {}])
    /\ missed' = FALSE
    /\ UNCHANGED <<server, tree, sec, filter, range, url, broken, wait, picks, fading,
                   bounds, latest, skipped>>

\* The page goes to All Media; an error is shown without the dimmer.
AnswerMove(r) ==
    /\ r.k = "move" /\ r.served
    /\ dim' = FALSE
    /\ IF r.good
       THEN /\ Select(All, asked \ {r}) /\ ClearSelection
            /\ missed' = FALSE
            /\ UNCHANGED dialog
       ELSE /\ dialog' = [dialog EXCEPT !.error = TRUE]
            /\ asked' = asked \ {r}
            /\ UNCHANGED <<sec, start, stop, pager, url, wait, sel, els, missed>>
    /\ UNCHANGED <<server, tree, filter, psize, stub, broken, edit, fading, bounds, latest, skipped>>

\* confirmDelete: an error of the first request leaves the dimmer to the error.
AnswerSection(r) ==
    /\ r.k \in {"section media", "section"} /\ r.served
    /\ IF r.good
       THEN /\ asked' = Replace(r, {[r EXCEPT !.served = FALSE, !.flag = r.k # "section",
                            !.k = IF r.k = "section" THEN "sections" ELSE "section"]})
            /\ UNCHANGED <<dialog, dim, missed>>
       ELSE /\ asked' = asked \ {r}
            /\ dialog' = [dialog EXCEPT !.error = TRUE]
            /\ dim' = IF r.k = "section" THEN FALSE ELSE dim
            /\ missed' = (missed \/ r.flag)
    /\ UNCHANGED <<server, tree, sec, filter, range, pager, url, gallery, wait, picks,
                   fading, bounds, latest, skipped>>

\* getSections has been answered: All Media, with nothing selected.
AnswerSections_Dims(r) ==
    /\ r.k = "sections"
    /\ tree' = folders
    /\ Select(All, asked \ {r}) /\ ClearSelection
    /\ missed' = FALSE
    /\ UNCHANGED <<server, filter, psize, stub, broken, edit, front, bounds, latest, skipped>>
AnswerSections_Stays(r) ==
    /\ r.k = "sections"
    /\ tree' = folders
    /\ Select(sec, asked \ {r}) /\ ClearSelection
    /\ dim' = FALSE
    /\ missed' = FALSE
    /\ UNCHANGED <<server, filter, psize, stub, broken, edit, dialog, fading, bounds, latest, skipped>>
AnswerSections(r) ==
    /\ r.k = "sections"
    /\ tree' = folders
    /\ Select(All, asked \ {r}) /\ ClearSelection
    /\ dim' = FALSE
    /\ missed' = FALSE
    /\ UNCHANGED <<server, filter, psize, stub, broken, edit, dialog, fading, bounds, latest, skipped>>

\* updateSelectionObjects: a reload for each media that is selected now and
\* whose card object is known.
ReloadSelected_Never(reqs) == reqs
ReloadSelected(reqs) ==
    LET reload == [Request("count", {}) EXCEPT !.sec = sec, !.filter = filter]
        many   == Cardinality({m \in Picked : sel[m]})
        free   == {i \in 0..Cardinality(reqs) + many : \A q \in reqs : q.n = i => ~Alike(q, reload)}
    IN  reqs \cup {[reload EXCEPT !.n = Nth(free, k)] : k \in 1..many}

\* The next type, or the end: the selection is cleared and a message opened;
\* that of a success fades.
AnswerEdit(r) ==
    /\ r.k = "edit" /\ r.served
    /\ LET failed == r.flag \/ ~r.good
           others == asked \ {r}
           after  == IF r.good THEN ReloadSelected(others) ELSE others
       IN  /\ missed' = (missed \/ (r.good /\ \A m \in Picked : ~sel[m]))
           /\ IF r.rest # <<>>
              THEN /\ asked' = after \cup
                        {[Request("edit", Head(r.rest)) EXCEPT
                            !.rest = Tail(r.rest), !.flag = failed]}
                   /\ UNCHANGED <<sel, els, dialog, dim, fading>>
              ELSE /\ asked' = after
                   /\ ClearSelection
                   /\ Open([dialog EXCEPT !.modal = "message", !.form = <<>>])
                   /\ fading' = fading + (IF failed THEN 0 ELSE 1)
    /\ UNCHANGED <<server, tree, sec, filter, range, pager, url, stub, broken, wait, edit,
                   bounds, latest, skipped>>

-----------------------------------------------------------------------------
(* The server serves requests.                                              *)

IsRead(r) == r.k \in {"count", "list"}

\* A read is served as it is answered, unless a write overtakes it.
Read(r) ==
    /\ IsRead(r) /\ ~r.served
    /\ \E q \in asked : ~IsRead(q) /\ ~q.served
    /\ asked' = Replace(r, {[r EXCEPT !.served = TRUE,
                !.count = IF r.k = "count" THEN CountFor(r) ELSE 0,
                !.list = IF r.k = "list" THEN ListFor(r) ELSE <<>>]})
    /\ UNCHANGED <<server, tree, sec, filter, range, pager, url, gallery, wait, picks, front,
                   bounds, history>>

Present(ids) == {m \in ids : place[m] # Gone}
Relocate(ids, to) == [m \in Media |-> IF m \in Present(ids) THEN to ELSE place[m]]
Write(r) ==
    /\ ~r.served
    /\ \/ /\ r.k = "delete"
          /\ place' = Relocate(r.ids, Gone) /\ UNCHANGED <<attr, folders>>
       \/ /\ r.k = "move"
          /\ place' = Relocate(r.ids, r.to) /\ UNCHANGED <<attr, folders>>
       \/ /\ r.k = "edit"
          /\ attr' = [m \in Media |-> IF m \in Present(r.ids) THEN acts ELSE attr[m]]
          /\ UNCHANGED <<place, folders>>
       \/ /\ r.k = "section media"
          /\ place' = Relocate({m \in Media : place[m] = r.to}, Gone)
          /\ UNCHANGED <<attr, folders>>
       \/ /\ r.k = "section"
          /\ place' = Relocate({m \in Media : place[m] = r.to}, Nowhere)
          /\ folders' = folders \ {r.to} /\ UNCHANGED attr
    /\ asked' = Replace(r, {[r EXCEPT !.served = TRUE, !.good = TRUE]})
    /\ UNCHANGED <<tree, sec, filter, range, pager, url, gallery, wait, picks, front,
                   bounds, history>>

Fail(r) ==
    /\ ~r.served /\ r.k \notin {"count", "list", "sections"}
    /\ faults < MaxFaults /\ faults' = faults + 1
    /\ asked' = Replace(r, {[r EXCEPT !.served = TRUE, !.good = FALSE]})
    /\ UNCHANGED <<server, tree, sec, filter, range, pager, url, gallery, wait, picks, front,
                   acts, history>>

-----------------------------------------------------------------------------
\* The first load is over, on All Media, without parameters in the URL.
Init ==
    /\ place = SeedPlace /\ attr = [m \in Media |-> 0]
    /\ folders = Folders /\ tree = Folders
    /\ sec = All /\ filter = FALSE
    /\ start = 0 /\ stop = DefaultSize /\ psize = DefaultSize
    /\ pager = [page |-> 0, num |-> Cardinality(Media)]
    /\ url = [sec |-> All, filter |-> FALSE, page |-> 0, size |-> 0]
    /\ els = Fresh(Page(All, FALSE, 0, DefaultSize))
    /\ stub = <<>> /\ broken = FALSE /\ wait = FALSE
    /\ edit = FALSE /\ sel = Nobody
    /\ dialog = NoDialog /\ dim = FALSE /\ fading = 0
    /\ asked = {} /\ acts = 0 /\ faults = 0
    /\ latest = TRUE /\ missed = FALSE /\ skipped = FALSE

Look ==
    \/ \E s \in Folders \cup {All} : SelectSection(s)
    \/ PrevPage \/ NextPage
    \/ \E p \in 0..Cardinality(Media) - 1 : GoToPage(p)
    \/ \E size \in Sizes : ChangeSize(size)
    \/ ChangeFilter \/ ClickReload

Mark ==
    \/ EnterSelectMode \/ SelectAll \/ Escape \/ LeaveSelectMode
    \/ \E i \in DOMAIN Cards : Pick(i)

Talk ==
    \/ \E ids \in Chosen : OpenDelete(ids) \/ OpenMove(ids)
    \/ \E media \in BOOLEAN : OpenSection(media)
    \/ \E types \in SUBSET Types : OpenConfirm(types)
    \/ Cancel \/ Fade
    \/ AcceptDelete \/ AcceptSection \/ AcceptEdit
    \/ \E to \in Folders : AcceptMove(to)

Answer(r) ==
    \/ AnswerCount(r) \/ AnswerList(r) \/ AnswerDelete(r) \/ AnswerMove(r)
    \/ AnswerSection(r) \/ AnswerSections(r) \/ AnswerEdit(r)

Serve(r) == Read(r) \/ Write(r) \/ Fail(r)

Next == Look \/ Mark \/ Talk \/ \E r \in asked : Answer(r) \/ Serve(r)

Spec == Init /\ [][Next]_vars

-----------------------------------------------------------------------------
(* Properties.                                                              *)

Index == Int \cup {NaN}
CardType == [id : Media, val : Nat, ticked : BOOLEAN, shown : BOOLEAN]

\* Every variable has its type.
TypeOK ==
    /\ place \in [Media -> Folders \cup {Nowhere, Gone}] /\ attr \in [Media -> Nat]
    /\ folders \subseteq Folders /\ tree \subseteq Folders
    /\ sec \in tree \cup {All}
    /\ start \in Index /\ stop \in Index /\ psize \in Sizes
    /\ pager.page \in Index /\ pager.num \in Int
    /\ els \in Seq(CardType) /\ stub \in Seq(CardType)
    /\ Picked \subseteq Media
    /\ {filter, broken, wait, edit, dim, latest, missed, skipped} \subseteq BOOLEAN

\* The range to be shown is one.
Ranged == NaN \notin {start, stop}

\* When everything is answered, and the newest list was the last to arrive, the
\* cards are exactly what the server has for the section, filter and page that
\* the page says, after any deletions, moves and edits: unless the load broke on
\* a card of the selection, or an edit had no selection left to reload for.
CardsAreCurrent ==
    Quiet /\ latest /\ ~broken /\ ~missed /\ Ranged =>
        LET now == Page(sec, filter, start, stop)
        IN  /\ Len(Cards) = Len(now)
            /\ \A i \in DOMAIN now : Cards[i].id = now[i].id /\ Cards[i].val = now[i].val

\* When everything is answered, the ticked cards are those of the selection: what
\* is deleted, moved or edited is what the user sees selected, as far as it is
\* on this page.
SelectionIsShown ==
    Quiet /\ ~broken /\ Ranged /\ edit =>
        \A i \in DOMAIN Cards : Cards[i].ticked <=> Cards[i].id \in Picked

\* When everything is answered, the URL tells the section, the filter unless its load
\* broke, and the page as long as the default page size is kept.
UrlTellsView ==
    Quiet =>
        /\ url.sec = sec
        /\ url.filter = filter \/ skipped
        /\ psize = DefaultSize /\ Ranged =>
            IF url.page = 0 THEN start = 0 ELSE start = (url.page - 1) * url.size

\* The page does not stay at "Loading...": only a load that broke, or a page that
\* is not a number, leaves it there.
LoadingEnds == Quiet /\ wait => broken \/ ~Ranged

\* The dimmer does not outlive the dialogs and requests that it is for, or nothing
\* on the page could be clicked any more.
DimmerGoes == Quiet /\ ~Opened => ~dim
=============================================================================
