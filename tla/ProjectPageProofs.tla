------------------------- MODULE ProjectPageProofs -------------------------
(* Proofs about ProjectPage, for any media, folders, page sizes and bounds: *)
(* the page does not stay dim or at "Loading...", the URL tells what is     *)
(* shown, the cards are those of the server, and the ticks those of the     *)
(* selection.  Each is said of the moments when every request is answered;  *)
(* the invariants say which request under way will still see to it.         *)
EXTENDS ProjectPage, FiniteSetTheorems, WellFoundedInduction, TLAPS

-----------------------------------------------------------------------------
(* The shape of requests, dialogs and paginators.                           *)

IsRequest(r) ==
    /\ DOMAIN r = {"n", "k", "then", "ids", "rest", "to", "sec", "filter", "start",
                   "stop", "flag", "served", "good", "count", "list"}
    /\ r.count \in Nat
AreRequests(reqs) == \A r \in reqs : IsRequest(r)

Shaped ==
    /\ AreRequests(asked)
    /\ DOMAIN dialog = {"delete", "move", "section", "media", "modal", "form", "error"}
    /\ DOMAIN url = {"sec", "filter", "page", "size"}
    /\ DOMAIN pager = {"page", "num"}

PageNumber == Nat \cup {NaN}
Numbers ==
    /\ start \in PageNumber /\ pager.page \in PageNumber
    /\ psize \in Sizes /\ pager.num \in Int

(* What is under way: a load, one that ends in the new filter in the URL,   *)
(* and the requests that are sent from under the dimmer.                    *)
Loads(reqs) == \E r \in reqs : IsRead(r)
Filters(reqs) == \E r \in reqs : IsRead(r) /\ r.then = "filter"
Dims(reqs) == \E r \in reqs : r.k \in {"move", "section media", "section", "sections", "edit"}

\* A dimmed page has a dialog, or a request whose answer lights it.
Dimmed == dim => Opened \/ Dims(asked)
\* "Loading..." has a load under way.
Loading == wait => Loads(asked) \/ broken \/ ~Ranged
\* The URL has the section and the filter, or the load that puts it there.
SectionTold == url.sec = sec
FilterTold == url.filter = filter \/ skipped \/ Filters(asked)
PageTold ==
    psize = DefaultSize /\ Ranged =>
        IF url.page = 0 THEN start = 0 ELSE start = (url.page - 1) * url.size

Inv == Shaped /\ Numbers /\ Dimmed /\ Loading /\ SectionTold /\ FilterTold /\ PageTold

-----------------------------------------------------------------------------
(* Requests that are added, and those that stay.                            *)

\* The loads under way are kept.
Keeps(reqs, new) == (Loads(reqs) => Loads(new)) /\ (Filters(reqs) => Filters(new))

LEMMA RequestFields ==
    ASSUME NEW k, NEW ids
    PROVE  LET r == Request(k, ids)
           IN  IsRequest(r) /\ r.k = k /\ r.then = "nothing"
  BY DEF Request, IsRequest

LEMMA AskingAdds ==
    ASSUME NEW reqs, AreRequests(reqs), NEW r, IsRequest(r)
    PROVE  /\ AreRequests(Asking(reqs, r)) /\ Keeps(reqs, Asking(reqs, r))
           /\ \E q \in Asking(reqs, r) : q.k = r.k /\ q.then = r.then
<1> PICK n : Asking(reqs, r) = reqs \cup {[r EXCEPT !.n = n]}
  BY DEF Asking
<1>1. IsRequest([r EXCEPT !.n = n])
  BY DEF IsRequest
<1>2. [r EXCEPT !.n = n].k = r.k /\ [r EXCEPT !.n = n].then = r.then
  BY DEF IsRequest
<1>3. QED
  BY <1>1, <1>2 DEF AreRequests, Keeps, Loads, Filters

LEMMA ReloadAdds ==
    ASSUME NEW reqs, AreRequests(reqs), NEW s, NEW f, NEW then
    PROVE  LET new == Reload(reqs, s, f, then)
           IN  /\ AreRequests(new) /\ Keeps(reqs, new) /\ Loads(new)
               /\ (then = "filter") => Filters(new)
<1> PICK r : r = [Request("count", {}) EXCEPT !.sec = s, !.filter = f, !.then = then]
  OBVIOUS
<1>1. IsRequest(r) /\ r.k = "count" /\ r.then = then
  BY DEF Request, IsRequest
<1>2. Reload(reqs, s, f, then) = Asking(reqs, r)
  BY DEF Reload
<1> PICK new : new = Reload(reqs, s, f, then)
  OBVIOUS
<1>3. /\ AreRequests(new) /\ Keeps(reqs, new)
      /\ \E q \in new : q.k = r.k /\ q.then = r.then
  <2>1. new = Asking(reqs, r)
    BY <1>2
  <2>2. QED
    BY ONLY <1>1, <2>1, AreRequests(reqs), AskingAdds
<1>4. Loads(new) /\ (then = "filter" => Filters(new))
  BY <1>1, <1>3 DEF Loads, Filters, IsRead
<1>5. QED
  BY <1>3, <1>4

LEMMA LoadMediaAdds ==
    ASSUME NEW reqs, AreRequests(reqs), NEW from, NEW to, NEW then
    PROVE  LET new == LoadMedia(reqs, from, to, then)
           IN  /\ AreRequests(new) /\ Keeps(reqs, new) /\ Loads(new)
               /\ (then = "filter") => Filters(new)
               /\ Dims(reqs) => Dims(new)
<1> PICK r : r = [Request("list", {}) EXCEPT !.sec = sec, !.filter = filter, !.then = then,
                     !.start = from, !.stop = to, !.flag = TRUE]
  OBVIOUS
<1> DEFINE older(q) == [q EXCEPT !.flag = @ /\ q.k # "list"]
<1> PICK old : old = {older(q) : q \in reqs}
  OBVIOUS
<1>1. IsRequest(r) /\ r.k = "list" /\ r.then = then
  BY DEF Request, IsRequest
<1>2. \A q \in reqs : IsRequest(older(q)) /\ older(q).k = q.k /\ older(q).then = q.then
  BY DEF AreRequests, IsRequest
<1>3. LoadMedia(reqs, from, to, then) = Asking(old, r)
  BY DEF LoadMedia
<1> HIDE DEF older
<1>4. AreRequests(old) /\ Keeps(reqs, old) /\ (Dims(reqs) => Dims(old))
  BY <1>2 DEF AreRequests, Keeps, Loads, Filters, Dims, IsRead
<1> PICK new : new = LoadMedia(reqs, from, to, then)
  OBVIOUS
<1>5. Dims(old) => Dims(new)
  BY <1>3 DEF Dims, Asking
<1>6. /\ AreRequests(new) /\ Keeps(old, new)
      /\ \E q \in new : q.k = r.k /\ q.then = r.then
  <2>1. new = Asking(old, r)
    BY <1>3
  <2>2. QED
    BY ONLY <1>1, <1>4, <2>1, AskingAdds
<1>7. Loads(new) /\ (then = "filter" => Filters(new))
  BY <1>1, <1>6 DEF Loads, Filters, IsRead
<1>8. QED
  BY <1>4, <1>5, <1>6, <1>7 DEF Keeps

\* A request to write goes without a load.
LEMMA WithoutWrite ==
    ASSUME Inv, NEW r \in asked, ~IsRead(r)
    PROVE  AreRequests(asked \ {r}) /\ Keeps(asked, asked \ {r})
  BY DEF Inv, Shaped, AreRequests, Keeps, Loads, Filters

LEMMA KeepsOn ==
    ASSUME NEW reqs, NEW more, NEW new, Keeps(reqs, more), Keeps(more, new)
    PROVE  Keeps(reqs, new)
  BY DEF Keeps

-----------------------------------------------------------------------------
(* Steps that leave what is to be shown alone, and steps that load.         *)

LEMMA ViewStays ==
    ASSUME Inv, UNCHANGED <<sec, filter, range, pager, url, broken, wait, skipped>>,
           Shaped', Keeps(asked, asked'), Dimmed'
    PROVE  Inv'
<1>1. /\ sec' = sec /\ filter' = filter /\ start' = start /\ stop' = stop /\ psize' = psize
      /\ pager' = pager /\ url' = url /\ broken' = broken /\ wait' = wait /\ skipped' = skipped
  BY DEF range
<1>2. Numbers' /\ SectionTold' /\ PageTold'
  BY <1>1 DEF Inv, Numbers, SectionTold, PageTold, Ranged
<1>3. Loading' /\ FilterTold'
  BY <1>1 DEF Inv, Loading, FilterTold, Keeps, Ranged
<1>4. QED
  BY <1>2, <1>3 DEF Inv

\* A change of section starts on the first page, and of no page of the URL.
LEMMA SelectInv ==
    ASSUME Inv, NEW s, NEW reqs, AreRequests(reqs), Keeps(asked, reqs), Select(s, reqs),
           UNCHANGED <<filter, psize, broken, skipped>>,
           DOMAIN dialog' = DOMAIN dialog, Dimmed'
    PROVE  Inv'
<1>1. /\ AreRequests(asked') /\ Keeps(asked, asked') /\ Loads(asked')
  BY ReloadAdds DEF Select, Keeps
<1>2. pager' = [pager EXCEPT !.page = NaN] /\ url' = UrlWith(s, PageArgs(0, psize, NaN))
      /\ sec' = s /\ start' = 0 /\ stop' = psize
  BY DEF Select
<1>3. DOMAIN pager' = DOMAIN pager /\ pager'.page = NaN /\ pager'.num = pager.num
  BY <1>2 DEF Inv, Shaped
<1>4. /\ DOMAIN url' = {"sec", "filter", "page", "size"}
      /\ url'.sec = s /\ url'.filter = url.filter
      /\ psize = DefaultSize => url'.page = 0
  BY <1>2 DEF UrlWith, PageArgs, NoPage
<1>5. Shaped' /\ Numbers'
  BY <1>1, <1>2, <1>3, <1>4 DEF Inv, Shaped, Numbers, PageNumber
<1>6. Loading' /\ SectionTold' /\ PageTold'
  BY <1>1, <1>2, <1>4 DEF Loading, SectionTold, PageTold
<1>7. FilterTold'
  BY <1>1, <1>4 DEF Inv, FilterTold, Keeps
<1>8. QED
  BY <1>5, <1>6, <1>7 DEF Inv

LEMMA PageProduct == \A p \in Nat, size \in Sizes : p * size \in Nat /\ size \in Nat \ {0}
  BY BoundsAssumption

\* A page of a paginator is not below the first.
LEMMA SetPageInv ==
    ASSUME Inv, NEW p \in PageNumber, NEW size \in Sizes, SetPage(p, size)
    PROVE  Inv'
<1>1. /\ ~dim /\ dim' = dim /\ dialog' = dialog /\ psize' = size
      /\ start' = From(p, size) /\ stop' = To(p, size)
      /\ pager' = [pager EXCEPT !.page = p]
      /\ url' = UrlWith(url.sec, PageArgs(start', size, p))
      /\ sec' = sec /\ filter' = filter /\ broken' = broken /\ wait' = wait /\ skipped' = skipped
  BY DEF SetPage, Clicks, front
<1>2. AreRequests(asked') /\ Keeps(asked, asked') /\ (p # NaN => Loads(asked'))
  <2>1. CASE p = NaN
    BY <2>1 DEF SetPage, Inv, Shaped, Keeps
  <2>2. CASE p # NaN
    BY <2>2, LoadMediaAdds DEF SetPage, Inv, Shaped
  <2>3. QED
    BY <2>1, <2>2
<1>3. DOMAIN pager' = DOMAIN pager /\ pager'.page = p /\ pager'.num = pager.num
  BY <1>1 DEF Inv, Shaped
<1>4. start' \in PageNumber /\ (p # NaN => start' = p * size) /\ (p = NaN => start' = NaN)
  BY <1>1, PageProduct DEF From, PageNumber
<1>5. /\ DOMAIN url' = {"sec", "filter", "page", "size"}
      /\ url'.sec = url.sec /\ url'.filter = url.filter
      /\ start' = 0 /\ size = DefaultSize => url'.page = 0
      /\ p # NaN /\ start' # 0 => url'.page = p + 1 /\ url'.size = size
  BY <1>1 DEF UrlWith, PageArgs, NoPage
<1>6. Shaped' /\ Numbers'
  BY <1>1, <1>2, <1>3, <1>4, <1>5 DEF Inv, Shaped, Numbers
<1>7. Dimmed' /\ SectionTold' /\ FilterTold'
  BY <1>1, <1>2, <1>5 DEF Inv, Dimmed, SectionTold, FilterTold, Keeps
<1>8. Loading'
  BY <1>1, <1>2, <1>4 DEF Inv, Loading, Ranged
<1>9. ASSUME psize' = DefaultSize, Ranged'
      PROVE  IF url'.page = 0 THEN start' = 0 ELSE start' = (url'.page - 1) * url'.size
  <2>1. p # NaN /\ p \in Nat /\ size = DefaultSize /\ start' = p * size
    BY <1>1, <1>4, <1>9 DEF Ranged, PageNumber
  <2>2. CASE start' = 0
    BY <1>5, <2>1, <2>2
  <2>3. CASE start' # 0
    <3>1. url'.page = p + 1 /\ url'.size = size
      BY <1>5, <2>1, <2>3
    <3>2. url'.page # 0 /\ url'.page - 1 = p
      BY <2>1, <3>1
    <3>3. QED
      BY <2>1, <3>1, <3>2
  <2>4. QED
    BY <2>2, <2>3
<1>10. PageTold'
  BY <1>9 DEF PageTold
<1>11. QED
  BY <1>6, <1>7, <1>8, <1>10 DEF Inv

\* Every step of the user's view is one of four.
LEMMA LookCases ==
    ASSUME Inv, Look
    PROVE  \/ \E s \in Folders \cup {All} : SelectSection(s)
           \/ \E p \in PageNumber, size \in Sizes : SetPage(p, size)
           \/ ChangeFilter \/ ClickReload
<1>1. psize \in Sizes
  BY DEF Inv, Numbers
<1>2. ASSUME NEW p, NEW size, SetPage(p, size) PROVE pager.num \in Nat \ {0}
  BY <1>2 DEF SetPage, Inv, Numbers
<1>3. CASE PrevPage
  <2> PICK p : p = (IF pager.page = NaN THEN NaN ELSE IF pager.page > 0 THEN pager.page - 1 ELSE 0)
    OBVIOUS
  <2>1. p \in PageNumber /\ SetPage(p, psize)
    BY <1>3 DEF PrevPage, Inv, Numbers, PageNumber
  <2>2. QED
    BY <1>1, <2>1
<1>4. CASE NextPage
  <2> PICK p : p = (IF pager.page = NaN THEN NaN
                    ELSE Smaller(PagesOf(pager.num) - 1, pager.page + 1))
    OBVIOUS
  <2>1. SetPage(p, psize)
    BY <1>4 DEF NextPage
  <2>2. pager.num \in Nat \ {0} /\ psize \in Nat \ {0} /\ pager.page \in PageNumber
    BY <1>2, <2>1, PageProduct DEF Inv, Numbers
  <2>3. PagesOf(pager.num) - 1 \in Nat
    BY <2>2 DEF PagesOf
  <2>4. p \in PageNumber
    BY <2>2, <2>3 DEF Smaller, PageNumber
  <2>5. QED
    BY <1>1, <2>1, <2>4
<1>5. ASSUME NEW p \in 0..Cardinality(Media) - 1, GoToPage(p)
      PROVE  p \in PageNumber /\ SetPage(p, psize)
  BY <1>5, MediaAssumption, FS_CardinalityType DEF GoToPage, PageNumber
<1>6. ASSUME NEW size \in Sizes, ChangeSize(size)
      PROVE  0 \in PageNumber /\ SetPage(0, size)
  BY <1>6 DEF ChangeSize, PageNumber
<1>7. QED
  BY <1>1, <1>3, <1>4, <1>5, <1>6 DEF Look

LEMMA LookInv ==
    ASSUME Inv, Look
    PROVE  Inv'
<1>1. ASSUME NEW s \in Folders \cup {All}, SelectSection(s)
      PROVE  Inv'
  <2>1. AreRequests(asked) /\ Keeps(asked, asked)
    BY DEF Inv, Shaped, Keeps
  <2>2. /\ Select(s, asked) /\ UNCHANGED <<filter, psize, broken, skipped>>
        /\ ~dim /\ dim' = dim /\ dialog' = dialog
    BY <1>1 DEF SelectSection, gallery, front, Clicks
  <2>3. Dimmed'
    BY <2>2 DEF Dimmed
  <2>4. QED
    BY <2>1, <2>2, <2>3, SelectInv
<1>2. ASSUME NEW p \in PageNumber, NEW size \in Sizes, SetPage(p, size)
      PROVE  Inv'
  BY <1>2, SetPageInv
<1>3. CASE ChangeFilter
  <2>1. /\ filter' = ~filter /\ start' = 0 /\ stop' = psize /\ sec' = sec /\ psize' = psize
        /\ url' = UrlWith(url.sec, PageArgs(0, psize, pager.page)) /\ pager' = pager
        /\ asked' = Reload(asked, sec, ~filter, "filter")
        /\ ~dim /\ dim' = dim /\ dialog' = dialog
    BY <1>3 DEF ChangeFilter, Clicks, front
  <2>2. AreRequests(asked') /\ Loads(asked') /\ Filters(asked')
    BY <2>1, ReloadAdds DEF Inv, Shaped
  <2>3. /\ DOMAIN url' = {"sec", "filter", "page", "size"} /\ url'.sec = url.sec
        /\ psize = DefaultSize => url'.page = 0
    BY <2>1 DEF UrlWith, PageArgs, NoPage
  <2>4. Shaped' /\ Numbers'
    BY <2>1, <2>2, <2>3 DEF Inv, Shaped, Numbers, PageNumber
  <2>5. Dimmed' /\ Loading' /\ SectionTold' /\ FilterTold' /\ PageTold'
    BY <2>1, <2>2, <2>3 DEF Inv, Dimmed, Loading, SectionTold, FilterTold, PageTold
  <2>6. QED
    BY <2>4, <2>5 DEF Inv
<1>4. CASE ClickReload
  <2>1. /\ UNCHANGED <<sec, filter, range, pager, url, broken, wait, skipped>>
        /\ asked' = Reload(asked, sec, filter, "nothing")
        /\ ~dim /\ dim' = dim /\ dialog' = dialog
    BY <1>4 DEF ClickReload, Clicks, front, gallery
  <2>2. AreRequests(asked') /\ Keeps(asked, asked')
    BY <2>1, ReloadAdds DEF Inv, Shaped
  <2>3. Shaped' /\ Dimmed'
    BY <2>1, <2>2 DEF Inv, Shaped, Dimmed
  <2>4. QED
    BY <2>1, <2>2, <2>3, ViewStays
<1>5. QED
  BY <1>1, <1>2, <1>3, <1>4, LookCases

-----------------------------------------------------------------------------
(* Answers.                                                                 *)

LEMMA CountIsNat == ASSUME Inv, NEW r \in asked PROVE CountFor(r) \in Nat
<1>1. Found(r.sec, r.filter) \subseteq Media
  BY DEF Found
<1>2. Cardinality(Found(r.sec, r.filter)) \in Nat
  BY <1>1, MediaAssumption, FS_Subset, FS_CardinalityType
<1>3. QED
  BY <1>2 DEF CountFor, Inv, Shaped, AreRequests, IsRequest

LEMMA PageAtNumber == ASSUME Inv PROVE PageAt(start, psize) \in PageNumber
<1>1. start \in PageNumber /\ psize \in Nat \ {0}
  BY PageProduct DEF Inv, Numbers
<1>2. start # NaN => start \div psize \in Nat
  BY <1>1 DEF PageNumber
<1>3. QED
  BY <1>2 DEF PageAt, PageNumber

\* The end of a change of filter: its URL, or the history that there is none.
LEMMA FilterEnds ==
    ASSUME Inv, NEW r, NEW well, FilterDone(r, well)
    PROVE  /\ DOMAIN url' = DOMAIN url /\ url'.sec = url.sec
           /\ url'.page = url.page /\ url'.size = url.size
           /\ r.then = "filter" => (url'.filter = filter \/ skipped') /\ dim' = FALSE
           /\ r.then # "filter" => url' = url /\ skipped' = skipped /\ dim' = dim
  BY DEF FilterDone, Inv, Shaped

LEMMA AnswerCountInv ==
    ASSUME Inv, NEW r \in asked, AnswerCount(r)
    PROVE  Inv'
<1>1. /\ r.k = "count" /\ pager' = [num |-> CountFor(r), page |-> PageAt(start, psize)]
      /\ sec' = sec /\ filter' = filter /\ start' = start /\ stop' = stop /\ psize' = psize
      /\ broken' = broken /\ wait' = wait /\ dialog' = dialog
  BY DEF AnswerCount, range, gallery
<1>2. DOMAIN pager' = {"page", "num"} /\ pager'.num \in Int /\ pager'.page \in PageNumber
  BY <1>1, CountIsNat, PageAtNumber
<1> PICK others : others = asked \ {r}
  OBVIOUS
<1>3. /\ AreRequests(others)
      /\ Dims(asked) => Dims(others)
      /\ Filters(asked) => Filters(others) \/ r.then = "filter"
  BY <1>1 DEF Inv, Shaped, AreRequests, Dims, Filters
<1>4. CASE Ranged
  <2>1. asked' = LoadMedia(others, start, stop, r.then) /\ dim' = dim /\ url' = url /\ skipped' = skipped
    BY <1>4 DEF AnswerCount, Ranged
  <2>2. /\ AreRequests(asked') /\ Loads(asked') /\ (Dims(asked) => Dims(asked'))
        /\ Filters(asked) => Filters(asked')
    BY <1>3, <2>1, LoadMediaAdds DEF Keeps
  <2>3. Shaped' /\ Numbers'
    BY <1>1, <1>2, <2>1, <2>2 DEF Inv, Shaped, Numbers
  <2>4. Loading' /\ SectionTold' /\ FilterTold' /\ PageTold'
    BY <1>1, <2>1, <2>2 DEF Inv, Loading, SectionTold, FilterTold, PageTold, Ranged
  <2>5. Dimmed'
    BY <1>1, <2>1, <2>2 DEF Inv, Dimmed, Opened
  <2>6. QED
    BY <2>3, <2>4, <2>5 DEF Inv
<1>5. CASE ~Ranged
  <2>1. asked' = others /\ FilterDone(r, TRUE)
    BY <1>5 DEF AnswerCount, Ranged
  <2>2. /\ DOMAIN url' = DOMAIN url /\ url'.sec = url.sec
        /\ r.then = "filter" => (url'.filter = filter \/ skipped') /\ dim' = FALSE
        /\ r.then # "filter" => url' = url /\ skipped' = skipped /\ dim' = dim
    BY <2>1, FilterEnds
  <2>3. Shaped' /\ Numbers'
    BY <1>1, <1>2, <1>3, <2>1, <2>2 DEF Inv, Shaped, Numbers
  <2>4. Loading' /\ SectionTold' /\ PageTold'
    BY <1>1, <1>5, <2>2 DEF Inv, Loading, SectionTold, PageTold, Ranged
  <2>5. FilterTold'
    BY <1>1, <1>3, <2>1, <2>2 DEF Inv, FilterTold
  <2>6. Dimmed'
    BY <1>1, <1>3, <2>1, <2>2 DEF Inv, Dimmed, Opened
  <2>7. QED
    BY <2>3, <2>4, <2>5, <2>6 DEF Inv
<1>6. QED
  BY <1>4, <1>5

LEMMA AnswerListInv ==
    ASSUME Inv, NEW r \in asked, AnswerList(r)
    PROVE  Inv'
<1>1. /\ r.k = "list" /\ pager' = pager /\ asked' = asked \ {r}
      /\ sec' = sec /\ filter' = filter /\ start' = start /\ stop' = stop /\ psize' = psize
      /\ dialog' = dialog /\ FilterDone(r, Again(ListFor(r)) = {})
  BY DEF AnswerList, range
<1>2. ~wait' \/ broken'
  BY DEF AnswerList, MakeCards
<1>3. /\ AreRequests(asked')
      /\ Dims(asked) => Dims(asked')
      /\ Filters(asked) => Filters(asked') \/ r.then = "filter"
  BY <1>1 DEF Inv, Shaped, AreRequests, Dims, Filters
<1>4. /\ DOMAIN url' = DOMAIN url /\ url'.sec = url.sec
      /\ url'.page = url.page /\ url'.size = url.size
      /\ r.then = "filter" => (url'.filter = filter \/ skipped') /\ dim' = FALSE
      /\ r.then # "filter" => url' = url /\ skipped' = skipped /\ dim' = dim
  BY <1>1, FilterEnds
<1>5. Shaped' /\ Numbers' /\ Loading'
  BY <1>1, <1>2, <1>3, <1>4 DEF Inv, Shaped, Numbers, Loading
<1>6. SectionTold' /\ PageTold'
  BY <1>1, <1>4 DEF Inv, SectionTold, PageTold, Ranged
<1>7. FilterTold'
  BY <1>1, <1>3, <1>4 DEF Inv, FilterTold
<1>8. Dimmed'
  BY <1>1, <1>3, <1>4 DEF Inv, Dimmed, Opened
<1>9. QED
  BY <1>5, <1>6, <1>7, <1>8 DEF Inv

LEMMA AnswerDeleteInv ==
    ASSUME Inv, NEW r \in asked, AnswerDelete(r)
    PROVE  Inv'
<1>1. /\ r.k = "delete" /\ asked' = Reload(asked \ {r}, sec, filter, "nothing")
      /\ sec' = sec /\ filter' = filter /\ start' = start /\ stop' = stop /\ psize' = psize
      /\ url' = url /\ broken' = broken /\ wait' = wait /\ skipped' = skipped
      /\ dialog' = [dialog EXCEPT !.delete = {}] /\ dim' = FALSE
      /\ \/ pager' = pager
         \/ pager' = [num |-> pager.num - 1, page |-> PageAt(start, psize)]
  BY DEF AnswerDelete, range, Close
<1>2. AreRequests(asked') /\ Keeps(asked, asked')
  <2>1. AreRequests(asked \ {r}) /\ Keeps(asked, asked \ {r})
    BY <1>1, WithoutWrite DEF IsRead
  <2>2. QED
    BY <1>1, <2>1, ReloadAdds DEF Keeps
<1>3. DOMAIN pager' = {"page", "num"} /\ pager'.num \in Int /\ pager'.page \in PageNumber
  BY <1>1, PageAtNumber DEF Inv, Shaped, Numbers
<1>4. Shaped' /\ Numbers' /\ Dimmed'
  BY <1>1, <1>2, <1>3 DEF Inv, Shaped, Numbers, Dimmed
<1>5. Loading' /\ SectionTold' /\ FilterTold' /\ PageTold'
  BY <1>1, <1>2 DEF Inv, Keeps, Loading, SectionTold, FilterTold, PageTold, Ranged
<1>6. QED
  BY <1>4, <1>5 DEF Inv

LEMMA AnswerMoveInv ==
    ASSUME Inv, NEW r \in asked, AnswerMove(r)
    PROVE  Inv'
<1>1. /\ r.k = "move" /\ dim' = FALSE
      /\ UNCHANGED <<filter, psize, broken, skipped>>
  BY DEF AnswerMove
<1>2. AreRequests(asked \ {r}) /\ Keeps(asked, asked \ {r})
  BY <1>1, WithoutWrite DEF IsRead
<1>3. Dimmed'
  BY <1>1 DEF Dimmed
<1>4. CASE r.good
  <2>1. Select(All, asked \ {r}) /\ dialog' = dialog
    BY <1>4 DEF AnswerMove
  <2>2. QED
    BY <1>1, <1>2, <1>3, <2>1, SelectInv
<1>5. CASE ~r.good
  <2>1. /\ UNCHANGED <<sec, filter, range, pager, url, broken, wait, skipped>>
        /\ asked' = asked \ {r} /\ dialog' = [dialog EXCEPT !.error = TRUE]
    BY <1>1, <1>5 DEF AnswerMove, range
  <2>2. Shaped'
    BY <1>2, <2>1 DEF Inv, Shaped
  <2>3. QED
    BY <1>2, <1>3, <2>1, <2>2, ViewStays
<1>6. QED
  BY <1>4, <1>5

LEMMA AnswerSectionInv ==
    ASSUME Inv, NEW r \in asked, AnswerSection(r)
    PROVE  Inv'
<1>1. /\ r.k \in {"section media", "section"}
      /\ UNCHANGED <<sec, filter, range, pager, url, broken, wait, skipped>>
  BY DEF AnswerSection, gallery
<1>2. AreRequests(asked \ {r}) /\ Keeps(asked, asked \ {r}) /\ IsRequest(r)
  BY <1>1, WithoutWrite DEF IsRead, Inv, Shaped, AreRequests
<1>3. CASE r.good
  <2> PICK new : new = [r EXCEPT !.served = FALSE, !.flag = r.k # "section",
                           !.k = IF r.k = "section" THEN "sections" ELSE "section"]
    OBVIOUS
  <2>1. asked' = (asked \ {r}) \cup {new} /\ dialog' = dialog
    BY <1>3 DEF AnswerSection, Replace
  <2>2. IsRequest(new) /\ new.k \in {"section", "sections"}
    BY <1>2 DEF IsRequest
  <2>3. AreRequests(asked') /\ Keeps(asked, asked') /\ Dims(asked')
    BY <1>2, <2>1, <2>2 DEF AreRequests, Keeps, Loads, Filters, Dims
  <2>4. Shaped' /\ Dimmed'
    BY <1>1, <2>1, <2>3 DEF Inv, Shaped, Dimmed
  <2>5. QED
    BY <1>1, <2>3, <2>4, ViewStays
<1>4. CASE ~r.good
  <2>1. asked' = asked \ {r} /\ dialog' = [dialog EXCEPT !.error = TRUE]
    BY <1>4 DEF AnswerSection
  <2>2. DOMAIN dialog' = DOMAIN dialog /\ dialog'.error = TRUE
    BY <2>1 DEF Inv, Shaped
  <2>3. Shaped' /\ Dimmed'
    BY <1>1, <1>2, <2>1, <2>2 DEF Inv, Shaped, Dimmed, Opened
  <2>4. QED
    BY <1>1, <1>2, <2>1, <2>3, ViewStays
<1>5. QED
  BY <1>3, <1>4

LEMMA AnswerSectionsInv ==
    ASSUME Inv, NEW r \in asked, AnswerSections(r)
    PROVE  Inv'
<1>1. /\ r.k = "sections" /\ dim' = FALSE /\ dialog' = dialog
      /\ UNCHANGED <<filter, psize, broken, skipped>> /\ Select(All, asked \ {r})
  BY DEF AnswerSections
<1>2. AreRequests(asked \ {r}) /\ Keeps(asked, asked \ {r})
  BY <1>1, WithoutWrite DEF IsRead
<1>3. Dimmed'
  BY <1>1 DEF Dimmed
<1>4. QED
  BY <1>1, <1>2, <1>3, SelectInv

LEMMA ReloadSelectedAdds ==
    ASSUME NEW reqs, AreRequests(reqs)
    PROVE  AreRequests(ReloadSelected(reqs)) /\ Keeps(reqs, ReloadSelected(reqs))
<1> PICK reload : reload = [Request("count", {}) EXCEPT !.sec = sec, !.filter = filter]
  OBVIOUS
<1>1. IsRequest(reload)
  BY DEF Request, IsRequest
<1> DEFINE many == Cardinality({m \in Picked : sel[m]})
           free == {i \in 0..Cardinality(reqs) + many :
                        \A q \in reqs : q.n = i => ~Alike(q, reload)}
           numbers == {Nth(free, k) : k \in 1..many}
<1>2. ReloadSelected(reqs) = reqs \cup {[reload EXCEPT !.n = i] : i \in numbers}
  <2>1. ReloadSelected(reqs) = reqs \cup {[reload EXCEPT !.n = Nth(free, k)] : k \in 1..many}
    BY DEF ReloadSelected
  <2>2. QED
    BY <2>1
<1> HIDE DEF numbers
<1>3. \A i : IsRequest([reload EXCEPT !.n = i])
  BY <1>1 DEF IsRequest
<1>4. QED
  BY <1>2, <1>3 DEF AreRequests, Keeps, Loads, Filters

LEMMA AnswerEditInv ==
    ASSUME Inv, NEW r \in asked, AnswerEdit(r)
    PROVE  Inv'
<1>1. /\ r.k = "edit"
      /\ UNCHANGED <<sec, filter, range, pager, url, broken, wait, skipped>>
  BY DEF AnswerEdit
<1> PICK after : after = IF r.good THEN ReloadSelected(asked \ {r}) ELSE asked \ {r}
  OBVIOUS
<1>2. AreRequests(after) /\ Keeps(asked, after)
  <2>1. AreRequests(asked \ {r}) /\ Keeps(asked, asked \ {r})
    BY <1>1, WithoutWrite DEF IsRead
  <2>2. QED
    BY <2>1, ReloadSelectedAdds DEF Keeps
<1>3. CASE r.rest # <<>>
  <2> PICK failed : failed = (r.flag \/ ~r.good)
    OBVIOUS
  <2> PICK new : new = [Request("edit", Head(r.rest)) EXCEPT !.rest = Tail(r.rest), !.flag = failed]
    OBVIOUS
  <2>1. asked' = after \cup {new} /\ dialog' = dialog
    BY <1>3 DEF AnswerEdit
  <2>2. IsRequest(new) /\ new.k = "edit"
    BY DEF Request, IsRequest
  <2>3. AreRequests(asked') /\ Keeps(asked, asked') /\ Dims(asked')
    BY <1>2, <2>1, <2>2 DEF AreRequests, Keeps, Loads, Filters, Dims
  <2>4. Shaped' /\ Dimmed'
    BY <1>1, <2>1, <2>3 DEF Inv, Shaped, Dimmed
  <2>5. QED
    BY <1>1, <2>3, <2>4, ViewStays
<1>4. CASE r.rest = <<>>
  <2>1. asked' = after /\ dialog' = [dialog EXCEPT !.modal = "message", !.form = <<>>]
    BY <1>4 DEF AnswerEdit, Open
  <2>2. DOMAIN dialog' = DOMAIN dialog /\ dialog'.modal = "message"
    BY <2>1 DEF Inv, Shaped
  <2>3. Shaped' /\ Dimmed'
    BY <1>1, <1>2, <2>1, <2>2 DEF Inv, Shaped, Dimmed, Opened
  <2>4. QED
    BY <1>1, <1>2, <2>1, <2>3, ViewStays
<1>5. QED
  BY <1>3, <1>4

-----------------------------------------------------------------------------
(* The selection, the dialogs and the server.                               *)

LEMMA MarkInv ==
    ASSUME Inv, Mark
    PROVE  Inv'
<1>1. PicksOnly
  BY DEF Mark, EnterSelectMode, SelectAll, Escape, LeaveSelectMode, Pick
<1>2. /\ UNCHANGED <<sec, filter, range, pager, url, broken, wait, skipped>>
      /\ asked' = asked /\ dim' = dim /\ dialog' = dialog
  BY <1>1 DEF PicksOnly, front, history
<1>3. Shaped' /\ Dimmed' /\ Keeps(asked, asked')
  BY <1>2 DEF Inv, Shaped, Dimmed, Opened, Keeps
<1>4. QED
  BY <1>2, <1>3, ViewStays

\* A dialog that opens dims the page, and it is one.
LEMMA OpenInv ==
    ASSUME Inv, NEW d, Open(d), FrontOnly, asked' = asked, DOMAIN d = DOMAIN dialog,
           \/ d.delete # {} \/ d.move # {} \/ d.section # All \/ d.modal # "closed"
    PROVE  Inv'
<1>1. /\ UNCHANGED <<sec, filter, range, pager, url, broken, wait, skipped>> /\ dialog' = d
  BY DEF FrontOnly, Open, gallery, history
<1>2. Shaped' /\ Dimmed' /\ Keeps(asked, asked')
  BY <1>1 DEF Inv, Shaped, Dimmed, Opened, Keeps
<1>3. QED
  BY <1>1, <1>2, ViewStays

\* What is sent from a dialog; the page is dim, or keeps what it has.
LEMMA SendsInv ==
    ASSUME Inv, NEW r, IsRequest(r), Sends(r), DOMAIN dialog' = DOMAIN dialog,
           \/ r.k \in {"move", "section media", "section", "edit"}
           \/ dialog' = dialog /\ dim' = dim
    PROVE  Inv'
<1>1. /\ UNCHANGED <<sec, filter, range, pager, url, broken, wait, skipped>>
      /\ asked' = Asking(asked, r)
  BY DEF Sends, gallery, history
<1>2. /\ AreRequests(asked') /\ Keeps(asked, asked')
      /\ \E q \in asked' : q.k = r.k /\ q.then = r.then
  BY <1>1, AskingAdds DEF Inv, Shaped
<1>3. asked \subseteq asked'
  BY <1>1 DEF Asking
<1>4. Shaped'
  BY <1>1, <1>2 DEF Inv, Shaped
<1>5. Dimmed'
  BY <1>2, <1>3 DEF Inv, Dimmed, Opened, Dims
<1>6. QED
  BY <1>1, <1>2, <1>4, <1>5, ViewStays

LEMMA TalkInv ==
    ASSUME Inv, Talk
    PROVE  Inv'
<1>1. DOMAIN dialog = {"delete", "move", "section", "media", "modal", "form", "error"}
  BY DEF Inv, Shaped
<1>2. ASSUME NEW ids \in Chosen, OpenDelete(ids) \/ OpenMove(ids)
      PROVE  Inv'
  <2>1. ids # {}
    BY DEF Chosen
  <2>2. CASE OpenDelete(ids)
    <3> PICK d : d = [dialog EXCEPT !.delete = ids]
      OBVIOUS
    <3>1. Open(d) /\ FrontOnly /\ asked' = asked /\ DOMAIN d = DOMAIN dialog /\ d.delete # {}
      BY <1>1, <2>1, <2>2 DEF OpenDelete
    <3>2. QED
      BY <3>1, OpenInv
  <2>3. CASE OpenMove(ids)
    <3> PICK d : d = [dialog EXCEPT !.move = ids]
      OBVIOUS
    <3>1. Open(d) /\ FrontOnly /\ asked' = asked /\ DOMAIN d = DOMAIN dialog /\ d.move # {}
      BY <1>1, <2>1, <2>3 DEF OpenMove
    <3>2. QED
      BY <3>1, OpenInv
  <2>4. QED
    BY <1>2, <2>2, <2>3
<1>3. ASSUME NEW media \in BOOLEAN, OpenSection(media)
      PROVE  Inv'
  <2> PICK d : d = [dialog EXCEPT !.section = sec, !.media = media]
    OBVIOUS
  <2>1. Open(d) /\ FrontOnly /\ asked' = asked /\ DOMAIN d = DOMAIN dialog /\ d.section # All
    BY <1>1, <1>3 DEF OpenSection
  <2>2. QED
    BY <2>1, OpenInv
<1>4. ASSUME NEW types \in SUBSET Types, OpenConfirm(types)
      PROVE  Inv'
  <2> PICK d : d = [dialog EXCEPT !.modal = "confirm", !.form = FormOf(types)]
    OBVIOUS
  <2>1. Open(d) /\ FrontOnly /\ asked' = asked /\ DOMAIN d = DOMAIN dialog /\ d.modal # "closed"
    BY <1>1, <1>4 DEF OpenConfirm
  <2>2. QED
    BY <2>1, OpenInv
<1>5. ASSUME NEW d, DOMAIN d = DOMAIN dialog, Close(d), asked' = asked,
             UNCHANGED <<sec, filter, range, pager, url, broken, wait, skipped>>
      PROVE  Inv'
  <2>1. Shaped' /\ Dimmed' /\ Keeps(asked, asked')
    BY <1>5 DEF Close, Inv, Shaped, Dimmed, Keeps
  <2>2. QED
    BY <1>5, <2>1, ViewStays

<1>6. CASE Cancel
  <2>1. PICK d : /\ d \in {[dialog EXCEPT !.delete = {}], [dialog EXCEPT !.move = {}],
                           [dialog EXCEPT !.section = All], [dialog EXCEPT !.error = FALSE],
                           [dialog EXCEPT !.modal = "closed", !.form = <<>>]}
                 /\ Close(d) /\ FrontOnly /\ asked' = asked
    BY <1>6 DEF Cancel
  <2>2. DOMAIN d = DOMAIN dialog
    BY <1>1, <2>1
  <2>3. UNCHANGED <<sec, filter, range, pager, url, broken, wait, skipped>>
    BY <2>1 DEF FrontOnly, gallery, history
  <2>4. QED
    BY <1>5, <2>1, <2>2, <2>3
<1>7. CASE Fade
  <2> PICK d : d = [dialog EXCEPT !.modal = "closed", !.form = <<>>]
    OBVIOUS
  <2>1. Close(d) /\ asked' = asked /\ DOMAIN d = DOMAIN dialog
    BY <1>1, <1>7 DEF Fade
  <2>2. UNCHANGED <<sec, filter, range, pager, url, broken, wait, skipped>>
    BY <1>7 DEF Fade, gallery, history
  <2>3. QED
    BY <1>5, <2>1, <2>2
<1>8. CASE AcceptDelete
  <2> PICK r : r = Request("delete", dialog.delete)
    OBVIOUS
  <2>1. IsRequest(r) /\ Sends(r) /\ dialog' = dialog /\ dim' = dim
    BY <1>8, RequestFields DEF AcceptDelete
  <2>2. QED
    BY <2>1, SendsInv
<1>9. ASSUME NEW to \in Folders, AcceptMove(to)
      PROVE  Inv'
  <2> PICK r : r = [Request("move", dialog.move) EXCEPT !.to = to]
    OBVIOUS
  <2>1. IsRequest(r) /\ r.k = "move"
    BY DEF Request, IsRequest
  <2>2. Sends(r) /\ DOMAIN dialog' = DOMAIN dialog
    BY <1>9 DEF AcceptMove
  <2>3. QED
    BY <2>1, <2>2, SendsInv
<1>10. CASE AcceptSection
  <2> PICK k : k = IF dialog.media THEN "section media" ELSE "section"
    OBVIOUS
  <2> PICK r : r = [Request(k, {}) EXCEPT !.to = dialog.section]
    OBVIOUS
  <2>1. IsRequest(r) /\ r.k \in {"section media", "section"}
    BY DEF Request, IsRequest
  <2>2. Sends(r) /\ DOMAIN dialog' = DOMAIN dialog
    BY <1>10 DEF AcceptSection
  <2>3. QED
    BY <2>1, <2>2, SendsInv
<1>11. CASE AcceptEdit
  <2> PICK r : r = [Request("edit", Head(dialog.form)) EXCEPT !.rest = Tail(dialog.form)]
    OBVIOUS
  <2>1. IsRequest(r) /\ r.k = "edit"
    BY DEF Request, IsRequest
  <2>2. Sends(r) /\ DOMAIN dialog' = DOMAIN dialog
    BY <1>11 DEF AcceptEdit
  <2>3. QED
    BY <2>1, <2>2, SendsInv
<1>12. QED
  BY <1>2, <1>3, <1>4, <1>6, <1>7, <1>8, <1>9, <1>10, <1>11 DEF Talk

\* The server marks a request as served; what it is stays.
LEMMA ServeInv ==
    ASSUME Inv, NEW r \in asked, Serve(r)
    PROVE  Inv'
<1>1. /\ UNCHANGED <<sec, filter, range, pager, url, broken, wait, skipped>>
      /\ dialog' = dialog /\ dim' = dim
  BY DEF Serve, Read, Write, Fail, gallery, front, history
<1>2. IsRequest(r)
  BY DEF Inv, Shaped, AreRequests
<1>3. PICK new : /\ asked' = (asked \ {r}) \cup {new}
                 /\ IsRequest(new) /\ new.k = r.k /\ new.then = r.then
  <2>1. CASE Read(r)
    <3> PICK count \in Nat : count = IF r.k = "count" THEN CountFor(r) ELSE 0
      BY CountIsNat
    <3> PICK new : new = [r EXCEPT !.served = TRUE, !.count = count,
                             !.list = IF r.k = "list" THEN ListFor(r) ELSE <<>>]
      OBVIOUS
    <3>1. asked' = (asked \ {r}) \cup {new}
      BY <2>1 DEF Read, Replace
    <3>2. IsRequest(new) /\ new.k = r.k /\ new.then = r.then
      BY <1>2 DEF IsRequest
    <3>3. QED
      BY <3>1, <3>2
  <2>2. ASSUME NEW good, asked' = Replace(r, {[r EXCEPT !.served = TRUE, !.good = good]})
        PROVE  \E new : /\ asked' = (asked \ {r}) \cup {new}
                        /\ IsRequest(new) /\ new.k = r.k /\ new.then = r.then
    <3> PICK new : new = [r EXCEPT !.served = TRUE, !.good = good]
      OBVIOUS
    <3>1. IsRequest(new) /\ new.k = r.k /\ new.then = r.then
      BY <1>2 DEF IsRequest
    <3>2. QED
      BY <2>2, <3>1 DEF Replace
  <2>3. QED
    BY <2>1, <2>2 DEF Serve, Write, Fail
<1>4. AreRequests(asked') /\ Keeps(asked, asked') /\ (Dims(asked) => Dims(asked'))
  BY <1>3 DEF Inv, Shaped, AreRequests, Keeps, Loads, Filters, Dims, IsRead
<1>5. Shaped' /\ Dimmed'
  BY <1>1, <1>4 DEF Inv, Shaped, Dimmed, Opened
<1>6. QED
  BY <1>1, <1>4, <1>5, ViewStays

-----------------------------------------------------------------------------
LEMMA InitInv == Init => Inv
<1> SUFFICES ASSUME Init PROVE Inv
  OBVIOUS
<1>1. Cardinality(Media) \in Int /\ DefaultSize \in Sizes
  BY MediaAssumption, BoundsAssumption, FS_CardinalityType
<1>2. Shaped /\ Numbers
  BY <1>1 DEF Init, Shaped, AreRequests, NoDialog, Numbers, PageNumber
<1>3. Dimmed /\ Loading /\ SectionTold /\ FilterTold /\ PageTold
  BY DEF Init, Dimmed, Loading, SectionTold, FilterTold, PageTold
<1>4. QED
  BY <1>2, <1>3 DEF Inv

LEMMA StepInv == Inv /\ [Next]_vars => Inv'
<1> SUFFICES ASSUME Inv, [Next]_vars PROVE Inv'
  OBVIOUS
<1>1. ASSUME NEW r \in asked, Answer(r) PROVE Inv'
  BY <1>1, AnswerCountInv, AnswerListInv, AnswerDeleteInv, AnswerMoveInv, AnswerSectionInv,
     AnswerSectionsInv, AnswerEditInv DEF Answer
<1>2. CASE UNCHANGED vars
  <2>1. /\ UNCHANGED <<sec, filter, range, pager, url, broken, wait, skipped>>
        /\ asked' = asked /\ dim' = dim /\ dialog' = dialog
    BY <1>2 DEF vars, gallery, front, history
  <2>2. Shaped' /\ Dimmed' /\ Keeps(asked, asked')
    BY <2>1 DEF Inv, Shaped, Dimmed, Opened, Keeps
  <2>3. QED
    BY <2>1, <2>2, ViewStays
<1>3. QED
  BY <1>1, <1>2, LookInv, MarkInv, TalkInv, ServeInv DEF Next

\* What is under way sees to the dimmer, to "Loading..." and to the URL.
THEOREM AlwaysSeenTo == Spec => []Inv
  BY InitInv, StepInv, PTL DEF Spec

\* The dimmer does not outlive the dialogs and requests that it is for, in whatever
\* order dialogs are opened and closed and requests are answered or fail
\* (src/ui/src/js/project-detail/project-detail.js).
THEOREM DimmerIsLifted == Spec => []DimmerGoes
<1>1. Inv => DimmerGoes
  BY DEF Inv, Dimmed, Dims, DimmerGoes, Quiet
<1>2. QED
  BY <1>1, AlwaysSeenTo, PTL

\* The page does not stay at "Loading...": only a load that broke, or a page that
\* is not a number, leaves it there (src/ui/src/js/project-detail/media-section.js).
THEOREM LoadingIsOver == Spec => []LoadingEnds
<1>1. Inv => LoadingEnds
  BY DEF Inv, Loading, Loads, LoadingEnds, Quiet
<1>2. QED
  BY <1>1, AlwaysSeenTo, PTL

\* The URL tells the section, the filter unless its load broke, and the page as
\* long as the default page size is kept, however loads overlap
\* (src/ui/src/js/project-detail/media-section.js).
THEOREM UrlIsTrue == Spec => []UrlTellsView
<1>1. Inv => UrlTellsView
  BY DEF Inv, SectionTold, FilterTold, PageTold, Filters, UrlTellsView, Quiet
<1>2. QED
  BY <1>1, AlwaysSeenTo, PTL

-----------------------------------------------------------------------------
(* Numbers in their order.                                                  *)

LEMMA NthIsThere ==
    ASSUME NEW S \in SUBSET Nat, IsFiniteSet(S), NEW k \in 1..Cardinality(S)
    PROVE  Nth(S, k) \in S
<1> DEFINE below(m) == {n \in S : n < m}
           T == 0..Cardinality(S) - 1
           rank == [m \in S |-> Cardinality(below(m))]
<1>1. Cardinality(S) \in Nat
  BY FS_CardinalityType
<1>2. ASSUME NEW m \in S
      PROVE  IsFiniteSet(below(m)) /\ Cardinality(below(m)) \in T
  <2>1. IsFiniteSet(below(m)) /\ Cardinality(below(m)) <= Cardinality(S)
        /\ (Cardinality(S) = Cardinality(below(m)) => S = below(m))
    BY FS_Subset
  <2>2. m \notin below(m)
    OBVIOUS
  <2>3. Cardinality(below(m)) \in Nat
    BY <2>1, FS_CardinalityType
  <2>4. QED
    BY <1>1, <2>1, <2>2, <2>3
<1>3. ASSUME NEW m \in S, NEW n \in S, m < n
      PROVE  Cardinality(below(m)) < Cardinality(below(n))
  <2>1. m \notin below(m) /\ m \in below(n)
    BY <1>3
  <2>4. below(m) \subseteq below(n)
    <3> SUFFICES ASSUME NEW i \in S, i < m PROVE i < n
      OBVIOUS
    <3>1. i \in Nat /\ m \in Nat /\ n \in Nat
      OBVIOUS
    <3>2. QED
      BY <1>3, <3>1
  <2>5. below(m) \cup {m} \in SUBSET below(n)
    BY <2>1, <2>4
  <2>2. Cardinality(below(m) \cup {m}) = Cardinality(below(m)) + 1
    BY <1>2, <2>1, FS_AddElement
  <2>3. Cardinality(below(m) \cup {m}) <= Cardinality(below(n))
    BY <1>2, <2>5, FS_Subset
  <2>6. Cardinality(below(m)) \in Nat /\ Cardinality(below(n)) \in Nat
    BY <1>1, <1>2
  <2>7. QED
    BY <2>2, <2>3, <2>6
<1>4. rank \in [S -> T]
  BY <1>2
<1>5. \A m, n \in S : rank[m] = rank[n] => m = n
  <2> SUFFICES ASSUME NEW m \in S, NEW n \in S, m # n PROVE rank[m] # rank[n]
    OBVIOUS
  <2>1. Cardinality(below(m)) \in Nat /\ Cardinality(below(n)) \in Nat
    BY <1>1, <1>2
  <2>2. m < n \/ n < m
    OBVIOUS
  <2>3. QED
    BY <1>3, <2>1, <2>2
<1>6. rank \in Injection(S, T)
  BY <1>4, <1>5 DEF Injection, IsInjective
<1>7. IsFiniteSet(T) /\ Cardinality(T) = Cardinality(S)
  <2>1. 0 \in Int /\ Cardinality(S) - 1 \in Int /\ Cardinality(S) >= 1
    BY <1>1
  <2>2. Cardinality(T) = Cardinality(S) - 1 - 0 + 1
    BY <1>1, <2>1, FS_Interval
  <2>3. IsFiniteSet(T)
    BY <2>1, FS_Interval
  <2>4. QED
    BY <1>1, <2>2, <2>3
<1>8. rank \in Surjection(S, T)
  BY <1>6, <1>7, FS_Injection
<1>9. PICK m \in S : rank[m] = k - 1
  <2>1. k - 1 \in T
    BY <1>1
  <2>2. QED
    BY <1>8, <2>1 DEF Surjection
<1>10. \E d \in S : Cardinality({n \in S : n < d}) = k - 1
  BY <1>9
<1>11. QED
  BY <1>10 DEF Nth

LEMMA NthOfAll ==
    ASSUME NEW n \in Nat, NEW k \in 1..n
    PROVE  Nth(1..n, k) = k
<1>1. ASSUME NEW m \in 1..n
      PROVE  Cardinality({i \in 1..n : i < m}) = m - 1
  <2>1. {i \in 1..n : i < m} = 1..m - 1
    OBVIOUS
  <2>2. Cardinality(1..m - 1) = m - 1
    BY FS_Interval
  <2>3. QED
    BY <2>1, <2>2
<1>2. \A m \in 1..n : Cardinality({i \in 1..n : i < m}) = k - 1 <=> m = k
  BY <1>1
<1>3. QED
  BY <1>2 DEF Nth

\* All places of a sequence are the sequence, and some of them a sequence too.
LEMMA OnlyAll ==
    ASSUME NEW T, NEW s \in Seq(T)
    PROVE  Only(s, DOMAIN s) = s
<1>1. DOMAIN s = 1..Len(s) /\ Len(s) \in Nat /\ s = [k \in 1..Len(s) |-> s[k]]
  OBVIOUS
<1>2. Cardinality(1..Len(s)) = Len(s)
  BY <1>1, FS_Interval
<1>3. Only(s, DOMAIN s) = [k \in 1..Len(s) |-> s[Nth(1..Len(s), k)]]
  BY <1>1, <1>2 DEF Only
<1>4. \A k \in 1..Len(s) : Nth(1..Len(s), k) = k
  BY <1>1, NthOfAll
<1>5. QED
  BY <1>1, <1>3, <1>4

LEMMA OnlySome ==
    ASSUME NEW T, NEW s \in Seq(T), NEW places \in SUBSET DOMAIN s
    PROVE  Only(s, places) \in Seq(T)
<1>1. DOMAIN s = 1..Len(s) /\ Len(s) \in Nat
  OBVIOUS
<1>2. IsFiniteSet(places) /\ places \in SUBSET Nat
  <2>1. IsFiniteSet(1..Len(s))
    BY <1>1, FS_Interval
  <2>2. QED
    BY <1>1, <2>1, FS_Subset
<1>3. Cardinality(places) \in Nat
  BY <1>2, FS_CardinalityType
<1>4. \A k \in 1..Cardinality(places) : s[Nth(places, k)] \in T
  BY <1>1, <1>2, NthIsThere
<1> PICK n \in Nat : n = Cardinality(places)
  BY <1>3
<1>5. Only(s, places) = [k \in 1..n |-> s[Nth(places, k)]]
  BY DEF Only
<1>6. QED
  BY <1>4, <1>5

LEMMA MinIsThere ==
    ASSUME NEW S \in SUBSET Nat, S # {}
    PROVE  Min(S) \in S /\ \A m \in S : Min(S) <= m
<1> DEFINE R == {d \in Nat \X Nat : d[1] < d[2]}
<1>1. IsWellFoundedOn(R, Nat)
  BY NatLessThanWellFounded DEF OpToRel
<1>2. S \subseteq Nat
  OBVIOUS
<1> HIDE DEF R
<1>3. PICK least \in S : \A d \in S : ~(<<d, least>> \in R)
  BY <1>1, <1>2, WFMin
<1>4. ASSUME NEW d \in S PROVE least <= d
  <2>1. d \in Nat /\ least \in Nat
    BY <1>2
  <2>2. ~(d < least)
    BY <1>3, <2>1 DEF R
  <2>3. QED
    BY <2>1, <2>2
<1>5. QED
  BY <1>4 DEF Min

-----------------------------------------------------------------------------
(* Types.  Those of the requests under way come with those of the variables *)
(* that their answers will change.                                          *)

Entry == [id : Media, val : Nat]
\* A list that says the same of a media wherever it has it.
Lists == {list \in Seq(Entry) :
              \A i, j \in DOMAIN list : list[i].id = list[j].id => list[i].val = list[j].val}

\* What is asked for is a range that is one; what is written goes to a folder.
TypedRequest(r) ==
    /\ IsRequest(r)
    /\ r.flag \in BOOLEAN
    /\ r.k = "list" => r.start \in Nat /\ r.stop \in Int
    /\ r.k \in {"move", "section media", "section"} => r.to \in Folders
    /\ r.list \in Lists
AreTyped(reqs) == \A r \in reqs : TypedRequest(r)

ServerTyped ==
    /\ place \in [Media -> Folders \cup {Nowhere, Gone}] /\ attr \in [Media -> Nat]
    /\ folders \subseteq Folders
ViewTyped ==
    /\ tree \subseteq Folders /\ sec \in tree \cup {All}
    /\ stop \in Index /\ acts \in Nat
    /\ dialog.section \in Folders \cup {All}
CardsTyped == els \in Seq(CardType) /\ stub \in Seq(CardType) /\ Picked \subseteq Media
FlagsTyped == {filter, broken, wait, edit, dim, latest, missed, skipped} \subseteq BOOLEAN

Typed ==
    Inv /\ AreTyped(asked) /\ ServerTyped /\ ViewTyped /\ CardsTyped /\ FlagsTyped

LEMMA TypedSuffices == Typed => TypeOK
  BY DEF Typed, TypeOK, Inv, Numbers, PageNumber, Index, ServerTyped, ViewTyped,
         CardsTyped, FlagsTyped

LEMMA EmptyList == <<>> \in Lists
<1>1. <<>> \in Seq(Entry) /\ DOMAIN <<>> = {}
  OBVIOUS
<1>2. QED
  BY <1>1 DEF Lists

\* A function on the places of a sequence is one.
LEMMA SamePlaces ==
    ASSUME NEW T, NEW s \in Seq(T), NEW U, NEW f,
           f = [i \in DOMAIN s |-> f[i]], \A i \in DOMAIN s : f[i] \in U
    PROVE  f \in Seq(U) /\ DOMAIN f = DOMAIN s /\ Len(f) = Len(s)
<1>1. DOMAIN s = 1..Len(s) /\ Len(s) \in Nat
  OBVIOUS
<1>2. f \in [1..Len(s) -> U]
  BY <1>1
<1>3. QED
  BY <1>1, <1>2

LEMMA NumberedTyped ==
    ASSUME NEW r, TypedRequest(r), NEW n
    PROVE  TypedRequest([r EXCEPT !.n = n])
<1> PICK q : q = [r EXCEPT !.n = n]
  OBVIOUS
<1>1. /\ IsRequest(q) /\ q.k = r.k /\ q.flag = r.flag /\ q.list = r.list
      /\ q.start = r.start /\ q.stop = r.stop /\ q.to = r.to
  BY DEF TypedRequest, IsRequest
<1>2. QED
  BY <1>1 DEF TypedRequest

LEMMA AskingTyped ==
    ASSUME NEW reqs, AreTyped(reqs), NEW r, TypedRequest(r)
    PROVE  AreTyped(Asking(reqs, r))
<1> PICK n : Asking(reqs, r) = reqs \cup {[r EXCEPT !.n = n]}
  BY DEF Asking
<1>1. TypedRequest([r EXCEPT !.n = n])
  BY NumberedTyped
<1>2. QED
  BY <1>1 DEF AreTyped

LEMMA ReloadTyped ==
    ASSUME NEW reqs, AreTyped(reqs), NEW s, NEW f, NEW then
    PROVE  AreTyped(Reload(reqs, s, f, then))
<1> PICK r : r = [Request("count", {}) EXCEPT !.sec = s, !.filter = f, !.then = then]
  OBVIOUS
<1>1. TypedRequest(r)
  <2>1. IsRequest(r) /\ r.k = "count" /\ r.flag = FALSE /\ r.list = <<>>
    BY DEF Request, IsRequest
  <2>2. QED
    BY <2>1, EmptyList DEF TypedRequest
<1>2. Reload(reqs, s, f, then) = Asking(reqs, r)
  BY DEF Reload
<1>3. QED
  BY <1>1, <1>2, AskingTyped

LEMMA LoadMediaTyped ==
    ASSUME NEW reqs, AreTyped(reqs), NEW from \in Nat, NEW to \in Int, NEW then
    PROVE  AreTyped(LoadMedia(reqs, from, to, then))
<1> PICK r : r = [Request("list", {}) EXCEPT !.sec = sec, !.filter = filter, !.then = then,
                     !.start = from, !.stop = to, !.flag = TRUE]
  OBVIOUS
<1> DEFINE older(q) == [q EXCEPT !.flag = @ /\ q.k # "list"]
<1> PICK old : old = {older(q) : q \in reqs}
  OBVIOUS
<1>1. TypedRequest(r)
  <2>1. /\ IsRequest(r) /\ r.k = "list" /\ r.flag = TRUE /\ r.list = <<>>
        /\ r.start = from /\ r.stop = to
    BY DEF Request, IsRequest
  <2>2. QED
    BY <2>1, EmptyList DEF TypedRequest
<1>2. ASSUME NEW q \in reqs PROVE TypedRequest(older(q))
  <2>1. TypedRequest(q)
    BY DEF AreTyped
  <2>2. /\ IsRequest(older(q)) /\ older(q).k = q.k /\ older(q).list = q.list
        /\ older(q).start = q.start /\ older(q).stop = q.stop /\ older(q).to = q.to
        /\ older(q).flag = (q.flag /\ q.k # "list")
    BY <2>1 DEF TypedRequest, IsRequest
  <2> HIDE DEF older
  <2>3. QED
    BY <2>1, <2>2 DEF TypedRequest
<1>3. LoadMedia(reqs, from, to, then) = Asking(old, r)
  BY DEF LoadMedia
<1> HIDE DEF older
<1>4. AreTyped(old)
  BY <1>2 DEF AreTyped
<1>5. QED
  BY ONLY <1>1, <1>3, <1>4, AskingTyped

LEMMA ReloadSelectedTyped ==
    ASSUME NEW reqs, AreTyped(reqs)
    PROVE  AreTyped(ReloadSelected(reqs))
<1> PICK reload : reload = [Request("count", {}) EXCEPT !.sec = sec, !.filter = filter]
  OBVIOUS
<1> DEFINE many == Cardinality({m \in Picked : sel[m]})
           free == {i \in 0..Cardinality(reqs) + many :
                        \A q \in reqs : q.n = i => ~Alike(q, reload)}
           numbers == {Nth(free, k) : k \in 1..many}
<1>1. TypedRequest(reload)
  <2>1. IsRequest(reload) /\ reload.k = "count" /\ reload.flag = FALSE /\ reload.list = <<>>
    BY DEF Request, IsRequest
  <2>2. QED
    BY <2>1, EmptyList DEF TypedRequest
<1>2. ReloadSelected(reqs) = reqs \cup {[reload EXCEPT !.n = i] : i \in numbers}
  <2>1. ReloadSelected(reqs) = reqs \cup {[reload EXCEPT !.n = Nth(free, k)] : k \in 1..many}
    BY DEF ReloadSelected
  <2>2. QED
    BY <2>1
<1> HIDE DEF numbers
<1>3. \A i : TypedRequest([reload EXCEPT !.n = i])
  BY <1>1, NumberedTyped
<1>4. QED
  BY <1>2, <1>3 DEF AreTyped

-----------------------------------------------------------------------------
(* Lists and cards.                                                         *)

\* A page of the media that are found, each with its attribute.
LEMMA PageTyped ==
    ASSUME ServerTyped, NEW s, NEW f, NEW from \in Nat, NEW to \in Int
    PROVE  LET page == Page(s, f, from, to)
           IN  /\ page \in Seq(Entry)
               /\ \A i \in DOMAIN page : page[i].val = attr[page[i].id]
<1> PICK found : found = Found(s, f)
  OBVIOUS
<1>1. found \in SUBSET Media /\ found \in SUBSET Nat /\ IsFiniteSet(found)
  <2>1. found \in SUBSET Media
    BY DEF Found
  <2>2. QED
    BY <2>1, MediaAssumption, FS_Subset
<1>2. Cardinality(found) \in Nat
  BY <1>1, FS_CardinalityType
<1> DEFINE last == IF to < Cardinality(found) THEN to ELSE Cardinality(found)
           many == IF last > from THEN last - from ELSE 0
<1>3. many \in Nat /\ \A i \in 1..many : from + i \in 1..Cardinality(found)
  BY <1>2
<1>4. \A i \in 1..many : Nth(found, from + i) \in Media
  BY <1>1, <1>3, NthIsThere
<1>5. Page(s, f, from, to) = [i \in 1..many |->
          [id |-> Nth(found, from + i), val |-> attr[Nth(found, from + i)]]]
  BY DEF Page
<1> HIDE DEF many
<1>6. \A i \in 1..many :
          [id |-> Nth(found, from + i), val |-> attr[Nth(found, from + i)]] \in Entry
  BY <1>4 DEF Entry, ServerTyped
<1> PICK page : page = Page(s, f, from, to)
  OBVIOUS
<1>7. page \in [1..many -> Entry] /\ \A i \in 1..many : page[i].val = attr[page[i].id]
  BY <1>5, <1>6
<1>8. page \in Seq(Entry) /\ DOMAIN page = 1..many
  BY <1>3, <1>7
<1>9. QED
  BY <1>7, <1>8

LEMMA ListTyped ==
    ASSUME Typed, NEW r \in asked, r.k = "list"
    PROVE  ListFor(r) \in Lists
<1>1. TypedRequest(r) /\ ServerTyped
  BY DEF Typed, AreTyped
<1>2. CASE r.served
  BY <1>1, <1>2 DEF ListFor, TypedRequest
<1>3. CASE ~r.served
  <2>1. ListFor(r) = Page(r.sec, r.filter, r.start, r.stop)
    BY <1>3 DEF ListFor
  <2>2. r.start \in Nat /\ r.stop \in Int
    BY <1>1 DEF TypedRequest
  <2>3. /\ ListFor(r) \in Seq(Entry)
        /\ \A i \in DOMAIN ListFor(r) : ListFor(r)[i].val = attr[ListFor(r)[i].id]
    BY <1>1, <2>1, <2>2, PageTyped
  <2>4. QED
    BY <2>3 DEF Lists
<1>4. QED
  BY <1>2, <1>3

LEMMA FreshTyped ==
    ASSUME NEW list \in Seq(Entry)
    PROVE  LET cards == Fresh(list)
           IN  /\ cards \in Seq(CardType) /\ DOMAIN cards = DOMAIN list
               /\ \A i \in DOMAIN list : /\ cards[i].id = list[i].id /\ cards[i].val = list[i].val
                                         /\ ~cards[i].ticked /\ cards[i].shown
<1>1. \A i \in DOMAIN list : list[i] \in Entry
  OBVIOUS
<1>2. \A i \in DOMAIN list :
          [id |-> list[i].id, val |-> list[i].val, ticked |-> FALSE, shown |-> TRUE] \in CardType
  BY <1>1 DEF Entry, CardType
<1>3. QED
  BY <1>2 DEF Fresh

\* Cards that are as they were but for the tick, or are hidden.
Ticks(new, cards) ==
    /\ DOMAIN new = DOMAIN cards
    /\ \A i \in DOMAIN cards : /\ new[i].id = cards[i].id /\ new[i].val = cards[i].val
                               /\ new[i].shown = cards[i].shown

LEMMA UntickedTyped ==
    ASSUME NEW cards \in Seq(CardType)
    PROVE  /\ Unticked(cards) \in Seq(CardType) /\ Ticks(Unticked(cards), cards)
           /\ \A i \in DOMAIN cards : ~Unticked(cards)[i].ticked
<1> DEFINE card(i) == [cards[i] EXCEPT !.ticked = FALSE]
<1>1. \A i \in DOMAIN cards : cards[i] \in CardType
  OBVIOUS
<1>2. \A i \in DOMAIN cards :
          /\ card(i) \in CardType /\ card(i).id = cards[i].id /\ card(i).val = cards[i].val
          /\ card(i).shown = cards[i].shown /\ ~card(i).ticked
  BY <1>1 DEF CardType
<1> PICK new : new = Unticked(cards)
  OBVIOUS
<1>3. new = [i \in DOMAIN cards |-> new[i]] /\ \A i \in DOMAIN cards : new[i] = card(i)
  BY DEF Unticked
<1> HIDE DEF card
<1>4. new \in Seq(CardType) /\ DOMAIN new = DOMAIN cards
  BY <1>2, <1>3, SamePlaces
<1>5. QED
  BY <1>2, <1>3, <1>4 DEF Ticks

LEMMA TickedTyped ==
    ASSUME NEW cards \in Seq(CardType), NEW ids
    PROVE  /\ Ticked(cards, ids) \in Seq(CardType) /\ Ticks(Ticked(cards, ids), cards)
           /\ \A i \in DOMAIN cards :
                  Ticked(cards, ids)[i].ticked <=> cards[i].ticked \/ cards[i].id \in ids
<1> DEFINE card(i) == [cards[i] EXCEPT !.ticked = @ \/ cards[i].id \in ids]
<1>1. \A i \in DOMAIN cards : cards[i] \in CardType
  OBVIOUS
<1>2. \A i \in DOMAIN cards :
          /\ card(i) \in CardType /\ card(i).id = cards[i].id /\ card(i).val = cards[i].val
          /\ card(i).shown = cards[i].shown
          /\ card(i).ticked <=> cards[i].ticked \/ cards[i].id \in ids
  BY <1>1 DEF CardType
<1> PICK new : new = Ticked(cards, ids)
  OBVIOUS
<1>3. new = [i \in DOMAIN cards |-> new[i]] /\ \A i \in DOMAIN cards : new[i] = card(i)
  BY DEF Ticked
<1> HIDE DEF card
<1>4. new \in Seq(CardType) /\ DOMAIN new = DOMAIN cards
  BY <1>2, <1>3, SamePlaces
<1>5. QED
  BY <1>2, <1>3, <1>4 DEF Ticks

LEMMA HiddenTyped ==
    ASSUME CardsTyped, NEW ids
    PROVE  /\ Hidden(ids) \in Seq(CardType) /\ DOMAIN Hidden(ids) = DOMAIN els
           /\ \A i \in DOMAIN els : /\ Hidden(ids)[i].id = els[i].id
                                    /\ Hidden(ids)[i].val = els[i].val
                                    /\ ~Hidden(ids)[i].ticked
                                    /\ Hidden(ids)[i].shown <=> els[i].shown /\ els[i].id \notin ids
<1> DEFINE card(i) == [els[i] EXCEPT !.ticked = FALSE, !.shown = @ /\ els[i].id \notin ids]
<1>1. els \in Seq(CardType) /\ \A i \in DOMAIN els : els[i] \in CardType
  BY DEF CardsTyped
<1>2. \A i \in DOMAIN els :
          /\ card(i) \in CardType /\ card(i).id = els[i].id /\ card(i).val = els[i].val
          /\ ~card(i).ticked /\ (card(i).shown <=> els[i].shown /\ els[i].id \notin ids)
  BY <1>1 DEF CardType
<1> PICK new : new = Hidden(ids)
  OBVIOUS
<1>3. new = [i \in DOMAIN els |-> new[i]] /\ \A i \in DOMAIN els : new[i] = card(i)
  BY DEF Hidden
<1> HIDE DEF card
<1>4. new \in Seq(CardType) /\ DOMAIN new = DOMAIN els
  BY <1>2, <1>3, <1>1, SamePlaces
<1>5. QED
  BY <1>2, <1>3, <1>4

LEMMA CardsAreCards == ASSUME CardsTyped PROVE Cards \in Seq(CardType)
<1>1. {i \in DOMAIN els : els[i].shown} \in SUBSET DOMAIN els
  OBVIOUS
<1>2. QED
  BY <1>1, OnlySome DEF Cards, CardsTyped

-----------------------------------------------------------------------------
(* The types are kept.                                                      *)

\* A page of a paginator is a range to ask for.
LEMMA RangeOfPage ==
    ASSUME Inv, NEW p \in PageNumber, NEW size \in Sizes
    PROVE  IF p = NaN THEN From(p, size) = NaN /\ To(p, size) = NaN
           ELSE From(p, size) \in Nat /\ To(p, size) \in Int
<1>1. p # NaN => p * size \in Nat /\ (p + 1) * size \in Int
  <2>1. SUFFICES ASSUME p \in Nat PROVE p * size \in Nat /\ (p + 1) * size \in Int
    BY DEF PageNumber
  <2>2. p + 1 \in Nat
    BY <2>1
  <2>3. QED
    BY <2>1, <2>2, PageProduct
<1>2. QED
  BY <1>1 DEF From, To, Smaller, Inv, Numbers

LEMMA SizesAreNat == Sizes \subseteq Nat
  BY BoundsAssumption

LEMMA LookTyped ==
    ASSUME Typed, Inv', Look
    PROVE  Typed'
<1>1. Inv /\ AreTyped(asked) /\ ServerTyped /\ ViewTyped /\ CardsTyped /\ FlagsTyped
      /\ psize \in Int /\ psize \in Sizes
  BY SizesAreNat DEF Typed, Inv, Numbers
<1>2. ASSUME NEW s \in Folders \cup {All}, SelectSection(s)
      PROVE  Typed'
  <2>1. /\ s \in tree \cup {All} /\ sec' = s /\ stop' = psize /\ acts' = acts + 1
        /\ asked' = Reload(asked, s, filter, "nothing")
        /\ UNCHANGED <<place, attr, folders, tree, filter, els, stub, broken, edit, sel,
                       dialog, dim, latest, skipped>>
        /\ wait' = TRUE /\ missed' = FALSE
    BY <1>2 DEF SelectSection, Select, Clicks, Act, server, gallery, picks, front
  <2>2. AreTyped(asked')
    BY <1>1, <2>1, ReloadTyped
  <2>3. ServerTyped' /\ ViewTyped' /\ CardsTyped'
    BY <1>1, <2>1 DEF ServerTyped, ViewTyped, CardsTyped, Index, Picked
  <2>4. FlagsTyped'
    BY <1>1, <2>1 DEF FlagsTyped
  <2>5. QED
    BY <2>2, <2>3, <2>4 DEF Typed
<1>3. ASSUME NEW p \in PageNumber, NEW size \in Sizes, SetPage(p, size)
      PROVE  Typed'
  <2>1. /\ stop' = To(p, size) /\ acts' = acts + 1 /\ els' = Unticked(els)
        /\ UNCHANGED <<place, attr, folders, tree, sec, filter, stub, broken, wait, edit, sel,
                       dialog, dim, latest, skipped>>
        /\ missed' = (missed /\ p = NaN)
    BY <1>3 DEF SetPage, Clicks, Act, server, picks, front
  <2>2. AreTyped(asked')
    <3>1. CASE p = NaN
      BY <1>1, <1>3, <3>1 DEF SetPage
    <3>2. CASE p # NaN
      <4>1. asked' = LoadMedia(asked, From(p, size), To(p, size), "nothing")
        BY <1>3, <3>2 DEF SetPage
      <4>2. From(p, size) \in Nat /\ To(p, size) \in Int
        BY <1>1, <3>2, RangeOfPage
      <4>3. QED
        BY <1>1, <4>1, <4>2, LoadMediaTyped
    <3>3. QED
      BY <3>1, <3>2
  <2>3. stop' \in Index
    BY <1>1, <2>1, RangeOfPage DEF Index
  <2>4. ServerTyped' /\ ViewTyped'
    BY <1>1, <2>1, <2>3 DEF ServerTyped, ViewTyped
  <2>5. CardsTyped'
    BY <1>1, <2>1, UntickedTyped DEF CardsTyped, Picked
  <2>6. FlagsTyped'
    BY <1>1, <2>1 DEF FlagsTyped
  <2>7. QED
    BY <2>2, <2>4, <2>5, <2>6 DEF Typed
<1>4. CASE ChangeFilter
  <2>1. /\ stop' = psize /\ acts' = acts + 1 /\ asked' = Reload(asked, sec, ~filter, "filter")
        /\ UNCHANGED <<place, attr, folders, tree, sec, els, stub, broken, wait, edit, sel,
                       dialog, dim, latest, skipped>>
        /\ filter' = ~filter /\ missed' = FALSE
    BY <1>4 DEF ChangeFilter, Clicks, Act, server, gallery, picks, front
  <2>2. AreTyped(asked')
    BY <1>1, <2>1, ReloadTyped
  <2>3. ServerTyped' /\ ViewTyped' /\ CardsTyped'
    BY <1>1, <2>1 DEF ServerTyped, ViewTyped, CardsTyped, Index, Picked
  <2>4. FlagsTyped'
    BY <1>1, <2>1 DEF FlagsTyped
  <2>5. QED
    BY <2>2, <2>3, <2>4 DEF Typed
<1>5. CASE ClickReload
  <2>1. /\ stop' = stop /\ acts' = acts + 1 /\ asked' = Reload(asked, sec, filter, "nothing")
        /\ UNCHANGED <<place, attr, folders, tree, sec, filter, els, stub, broken, wait, edit, sel,
                       dialog, dim, latest, skipped>>
        /\ missed' = FALSE
    BY <1>5 DEF ClickReload, Clicks, Act, server, gallery, picks, front, range
  <2>2. AreTyped(asked')
    BY <1>1, <2>1, ReloadTyped
  <2>3. ServerTyped' /\ ViewTyped' /\ CardsTyped'
    BY <1>1, <2>1 DEF ServerTyped, ViewTyped, CardsTyped, Picked
  <2>4. FlagsTyped'
    BY <1>1, <2>1 DEF FlagsTyped
  <2>5. QED
    BY <2>2, <2>3, <2>4 DEF Typed
<1>6. QED
  BY <1>1, <1>2, <1>3, <1>4, <1>5, LookCases

LEMMA WithPicks ==
    ASSUME NEW s, NEW ids
    PROVE  DOMAIN With(s, ids) = DOMAIN s \cup ids
  BY DEF With

\* The media of some of the cards.
LEMMA CardIds ==
    ASSUME NEW cards \in Seq(CardType)
    PROVE  \A i \in DOMAIN cards : cards[i].id \in Media
<1>1. \A i \in DOMAIN cards : cards[i] \in CardType
  OBVIOUS
<1>2. QED
  BY <1>1 DEF CardType

LEMMA ToggleTyped ==
    ASSUME NEW card \in CardType
    PROVE  LET new == [card EXCEPT !.ticked = ~@]
           IN  /\ new \in CardType /\ new.id = card.id /\ new.val = card.val
               /\ new.shown = card.shown /\ new.ticked = ~card.ticked
  BY DEF CardType

LEMMA PickTyped ==
    ASSUME CardsTyped, NEW i \in DOMAIN Cards, Pick(i)
    PROVE  CardsTyped'
<1> PICK card : card = Cards[i]
  OBVIOUS
<1>1. card \in CardType /\ card.id \in Media /\ els \in Seq(CardType) /\ stub \in Seq(CardType)
  <2>1. Cards \in Seq(CardType)
    BY CardsAreCards
  <2>2. card \in CardType /\ card.id \in Media
    BY <2>1, CardIds
  <2>3. QED
    BY <2>2 DEF CardsTyped
<1>2. Picked' \subseteq Media
  <2>1. sel' = IF card.ticked THEN Restrict(sel, Picked \ {card.id}) ELSE With(sel, {card.id})
    BY DEF Pick
  <2>2. Picked' \subseteq Picked \cup {card.id}
    BY <2>1, WithPicks DEF Picked, Restrict
  <2>3. QED
    BY <1>1, <2>2 DEF CardsTyped
<1> PICK new : new = [card EXCEPT !.ticked = ~@]
  OBVIOUS
<1>3. new \in CardType
  BY <1>1, ToggleTyped
<1>4. CASE broken
  <2>1. stub' = [stub EXCEPT ![i].ticked = ~@] /\ els' = els /\ card = stub[i]
    BY <1>4 DEF Pick, Toggle, Cards
  <2>2. stub' = [stub EXCEPT ![i] = new]
    BY <2>1
  <2>3. \A j \in DOMAIN stub : stub'[j] \in CardType
    BY <1>1, <1>3, <2>2
  <2>4. stub' = [j \in DOMAIN stub |-> stub'[j]]
    BY <2>2
  <2>5. stub' \in Seq(CardType)
    BY <1>1, <2>3, <2>4, SamePlaces
  <2>6. QED
    BY <1>1, <1>2, <2>1, <2>5 DEF CardsTyped
<1>5. CASE ~broken
  <2>1. stub' = stub /\ els' = [j \in DOMAIN els |-> IF els[j] = card THEN new ELSE els[j]]
    BY <1>5 DEF Pick
  <2>2. \A j \in DOMAIN els : els'[j] \in CardType
    BY <1>1, <1>3, <2>1
  <2>3. els' = [j \in DOMAIN els |-> els'[j]]
    BY <2>1
  <2>4. els' \in Seq(CardType)
    BY <1>1, <2>2, <2>3, SamePlaces
  <2>5. QED
    BY <1>1, <1>2, <2>1, <2>4 DEF CardsTyped
<1>6. QED
  BY <1>4, <1>5

LEMMA MarkTyped ==
    ASSUME Typed, Inv', Mark
    PROVE  Typed'
<1>1. Inv /\ AreTyped(asked) /\ ServerTyped /\ ViewTyped /\ CardsTyped /\ FlagsTyped
  BY DEF Typed
<1>2. /\ UNCHANGED <<place, attr, folders, tree, sec, filter, stop, broken, wait, dialog, dim,
                     asked, latest, missed, skipped>>
      /\ edit' \in BOOLEAN /\ acts' \in Nat
  <2>1. edit \in BOOLEAN /\ acts \in Nat
    BY <1>1 DEF FlagsTyped, ViewTyped
  <2>2. PicksOnly
    BY DEF Mark, EnterSelectMode, SelectAll, Escape, LeaveSelectMode, Pick
  <2>3. edit' = edit \/ edit' = TRUE \/ edit' = FALSE
    BY DEF Mark, EnterSelectMode, SelectAll, Escape, LeaveSelectMode, Pick
  <2>5. acts' = acts \/ acts' = acts + 1
    BY DEF Mark, EnterSelectMode, SelectAll, Escape, LeaveSelectMode, Pick
  <2>6. edit' \in BOOLEAN
    BY <2>1, <2>3, Zenon
  <2>7. acts' \in Nat
    BY <2>1, <2>5
  <2>4. QED
    BY <2>2, <2>6, <2>7 DEF PicksOnly, server, range, front, history
<1>3. ServerTyped' /\ ViewTyped' /\ AreTyped(asked')
  BY <1>1, <1>2 DEF ServerTyped, ViewTyped
<1>4. FlagsTyped'
  BY <1>1, <1>2 DEF FlagsTyped
<1>5. \A i \in DOMAIN els : els[i].id \in Media
  BY <1>1, CardIds DEF CardsTyped
<1>6. CASE EnterSelectMode
  <2>1. els' = els /\ stub' = stub
        /\ sel' = With(sel, {els[i].id : i \in {j \in DOMAIN els : els[j].ticked}} \ Picked)
    BY <1>6 DEF EnterSelectMode
  <2> PICK more : more = {els[i].id : i \in {j \in DOMAIN els : els[j].ticked}} \ Picked
    OBVIOUS
  <2>4. more \subseteq Media
    BY <1>5
  <2>5. Picked' = Picked \cup more
    BY <2>1, WithPicks DEF Picked
  <2>2. CardsTyped'
    BY <1>1, <2>1, <2>4, <2>5 DEF CardsTyped
  <2>3. QED
    BY <1>3, <1>4, <2>2 DEF Typed
<1>7. CASE SelectAll
  <2> PICK more : more = {els[i].id : i \in {j \in DOMAIN els : ~els[j].ticked}} \ Picked
    OBVIOUS
  <2>1. stub' = stub /\ sel' = With(sel, more) /\ els' = Ticked(els, more)
    BY <1>7 DEF SelectAll
  <2>2. more \subseteq Media
    BY <1>5
  <2>3. CardsTyped'
    BY <1>1, <2>1, <2>2, WithPicks, TickedTyped DEF CardsTyped, Picked
  <2>4. QED
    BY <1>3, <1>4, <2>3 DEF Typed
<1>8. CASE Escape \/ LeaveSelectMode
  <2>1. stub' = stub /\ sel' = Nobody /\ els' = Unticked(els)
    BY <1>8 DEF Escape, LeaveSelectMode, ClearSelection
  <2>2. CardsTyped'
    BY <1>1, <2>1, UntickedTyped DEF CardsTyped, Picked, Nobody, Known
  <2>3. QED
    BY <1>3, <1>4, <2>2 DEF Typed
<1>9. ASSUME NEW i \in DOMAIN Cards, Pick(i)
      PROVE  Typed'
  BY <1>1, <1>3, <1>4, <1>9, PickTyped DEF Typed
<1>10. QED
  BY <1>6, <1>7, <1>8, <1>9 DEF Mark

\* Steps that touch the dialogs and requests, and nothing that is shown.
LEMMA FrontTyped ==
    ASSUME Typed, Inv',
           UNCHANGED <<place, attr, folders, tree, sec, filter, stop, els, stub, broken, wait,
                       edit, sel>>,
           AreTyped(asked'), acts' \in Nat, dialog'.section \in Folders \cup {All},
           dim' \in BOOLEAN, latest' \in BOOLEAN, missed' \in BOOLEAN, skipped' \in BOOLEAN
    PROVE  Typed'
<1>1. ServerTyped' /\ ViewTyped' /\ CardsTyped'
  BY DEF Typed, ServerTyped, ViewTyped, CardsTyped, Picked
<1>2. FlagsTyped'
  BY DEF Typed, FlagsTyped
<1>3. QED
  BY <1>1, <1>2 DEF Typed

LEMMA SendsTyped ==
    ASSUME Typed, Inv', NEW r, TypedRequest(r), Sends(r),
           dialog'.section \in Folders \cup {All}, dim' \in BOOLEAN
    PROVE  Typed'
<1>1. AreTyped(asked) /\ acts \in Nat
      /\ latest \in BOOLEAN /\ missed \in BOOLEAN /\ skipped \in BOOLEAN
  BY DEF Typed, ViewTyped, FlagsTyped
<1>2. /\ asked' = Asking(asked, r)
      /\ UNCHANGED <<place, attr, folders, tree, sec, filter, stop, els, stub, broken, wait,
                     edit, sel, acts, latest, missed, skipped>>
  BY DEF Sends, server, range, gallery, picks, bounds, history
<1>3. AreTyped(asked')
  BY <1>1, <1>2, AskingTyped
<1>4. QED
  BY <1>1, <1>2, <1>3, FrontTyped

LEMMA TalkTyped ==
    ASSUME Typed, Inv', Talk
    PROVE  Typed'
<1>1. /\ AreTyped(asked) /\ acts \in Nat /\ dialog.section \in Folders \cup {All}
      /\ dim \in BOOLEAN /\ latest \in BOOLEAN /\ missed \in BOOLEAN /\ skipped \in BOOLEAN
      /\ tree \subseteq Folders /\ sec \in tree \cup {All}
      /\ DOMAIN dialog = {"delete", "move", "section", "media", "modal", "form", "error"}
  BY DEF Typed, ViewTyped, FlagsTyped, Inv, Shaped
<1>2. ASSUME NEW d, dialog' = d, d.section \in Folders \cup {All}, dim' \in BOOLEAN,
             acts' = acts \/ acts' = acts + 1, asked' = asked,
             UNCHANGED <<server, tree, sec, filter, range, gallery, wait, picks, history>>
      PROVE  Typed'
  <2>1. acts' \in Nat
    BY <1>1, <1>2
  <2>2. UNCHANGED <<place, attr, folders, tree, sec, filter, stop, els, stub, broken, wait,
                     edit, sel, latest, missed, skipped>>
    BY <1>2 DEF server, range, gallery, picks, history
  <2>3. QED
    BY <1>1, <1>2, <2>1, <2>2, FrontTyped
<1>3. ASSUME NEW ids \in Chosen, OpenDelete(ids) \/ OpenMove(ids)
      PROVE  Typed'
  <2>1. PICK d \in {[dialog EXCEPT !.delete = ids], [dialog EXCEPT !.move = ids]} :
            dialog' = d /\ dim' = TRUE /\ FrontOnly /\ asked' = asked /\ acts' = acts + 1
    BY <1>3 DEF OpenDelete, OpenMove, Open, Clicks, Act
  <2>2. d.section = dialog.section
    BY <1>1
  <2>3. QED
    BY <1>1, <1>2, <2>1, <2>2 DEF FrontOnly
<1>4. ASSUME NEW media \in BOOLEAN, OpenSection(media)
      PROVE  Typed'
  <2> PICK d : d = [dialog EXCEPT !.section = sec, !.media = media]
    OBVIOUS
  <2>1. dialog' = d /\ dim' = TRUE /\ FrontOnly /\ asked' = asked /\ acts' = acts + 1
    BY <1>4 DEF OpenSection, Open, Clicks, Act
  <2>2. d.section = sec
    BY <1>1
  <2>3. QED
    BY <1>1, <1>2, <2>1, <2>2 DEF FrontOnly
<1>5. ASSUME NEW types \in SUBSET Types, OpenConfirm(types)
      PROVE  Typed'
  <2> PICK d : d = [dialog EXCEPT !.modal = "confirm", !.form = FormOf(types)]
    OBVIOUS
  <2>1. dialog' = d /\ dim' = TRUE /\ FrontOnly /\ asked' = asked /\ acts' = acts + 1
    BY <1>5 DEF OpenConfirm, Open, Clicks, Act
  <2>2. d.section = dialog.section
    BY <1>1
  <2>3. QED
    BY <1>1, <1>2, <2>1, <2>2 DEF FrontOnly
<1>6. CASE Cancel
  <2>1. PICK d \in {[dialog EXCEPT !.delete = {}], [dialog EXCEPT !.move = {}],
                    [dialog EXCEPT !.section = All], [dialog EXCEPT !.error = FALSE],
                    [dialog EXCEPT !.modal = "closed", !.form = <<>>]} :
            dialog' = d /\ dim' = FALSE /\ FrontOnly /\ asked' = asked /\ acts' = acts
    BY <1>6 DEF Cancel, Close
  <2>2. d.section = dialog.section \/ d.section = All
    BY <1>1
  <2>3. QED
    BY <1>1, <1>2, <2>1, <2>2 DEF FrontOnly
<1>7. CASE Fade
  <2> PICK d : d = [dialog EXCEPT !.modal = "closed", !.form = <<>>]
    OBVIOUS
  <2>1. dialog' = d /\ dim' = FALSE /\ asked' = asked /\ acts' = acts
        /\ UNCHANGED <<server, tree, sec, filter, range, gallery, wait, picks, history>>
    BY <1>7 DEF Fade, Close, bounds
  <2>2. d.section = dialog.section
    BY <1>1
  <2>3. QED
    BY <1>1, <1>2, <2>1, <2>2
<1>8. CASE AcceptDelete
  <2> PICK r : r = Request("delete", dialog.delete)
    OBVIOUS
  <2>1. IsRequest(r) /\ r.k = "delete" /\ r.flag = FALSE /\ r.list = <<>>
    BY DEF Request, IsRequest
  <2>2. TypedRequest(r)
    BY <2>1, EmptyList DEF TypedRequest
  <2>3. Sends(r) /\ dialog' = dialog /\ dim' = dim
    BY <1>8 DEF AcceptDelete
  <2>4. QED
    BY <1>1, <2>2, <2>3, SendsTyped
<1>9. ASSUME NEW to \in Folders, AcceptMove(to)
      PROVE  Typed'
  <2> PICK r : r = [Request("move", dialog.move) EXCEPT !.to = to]
    OBVIOUS
  <2>1. IsRequest(r) /\ r.k = "move" /\ r.flag = FALSE /\ r.list = <<>> /\ r.to = to
    BY DEF Request, IsRequest
  <2>2. TypedRequest(r)
    BY <2>1, EmptyList DEF TypedRequest
  <2>3. Sends(r) /\ dialog' = [dialog EXCEPT !.move = {}] /\ dim' = dim
    BY <1>9 DEF AcceptMove
  <2>4. dialog'.section = dialog.section
    BY <1>1, <2>3
  <2>5. QED
    BY <1>1, <2>2, <2>3, <2>4, SendsTyped
<1>10. CASE AcceptSection
  <2> PICK k : k = IF dialog.media THEN "section media" ELSE "section"
    OBVIOUS
  <2> PICK r : r = [Request(k, {}) EXCEPT !.to = dialog.section]
    OBVIOUS
  <2>1. IsRequest(r) /\ r.k \in {"section media", "section"} /\ r.flag = FALSE /\ r.list = <<>>
        /\ r.to = dialog.section
    BY DEF Request, IsRequest
  <2>2. Sends(r) /\ dialog' = [dialog EXCEPT !.section = All] /\ dim' = dim
        /\ dialog.section # All
    BY <1>10 DEF AcceptSection
  <2>3. r.to \in Folders
    BY <1>1, <2>1, <2>2
  <2>4. TypedRequest(r)
    BY <2>1, <2>3, EmptyList DEF TypedRequest
  <2>5. dialog'.section = All
    BY <1>1, <2>2
  <2>6. QED
    BY <1>1, <2>2, <2>4, <2>5, SendsTyped
<1>11. CASE AcceptEdit
  <2> PICK r : r = [Request("edit", Head(dialog.form)) EXCEPT !.rest = Tail(dialog.form)]
    OBVIOUS
  <2>1. IsRequest(r) /\ r.k = "edit" /\ r.flag = FALSE /\ r.list = <<>>
    BY DEF Request, IsRequest
  <2>2. TypedRequest(r)
    BY <2>1, EmptyList DEF TypedRequest
  <2>3. Sends(r) /\ dialog' = [dialog EXCEPT !.modal = "closed", !.form = <<>>] /\ dim' = TRUE
    BY <1>11 DEF AcceptEdit
  <2>4. dialog'.section = dialog.section
    BY <1>1, <2>3
  <2>5. QED
    BY <1>1, <2>2, <2>3, <2>4, SendsTyped
<1>12. QED
  BY <1>3, <1>4, <1>5, <1>6, <1>7, <1>8, <1>9, <1>10, <1>11 DEF Talk

\* What the server moves or edits it moves to a folder, or away.
LEMMA RelocateTyped ==
    ASSUME ServerTyped, NEW ids, NEW to \in Folders \cup {Nowhere, Gone}
    PROVE  Relocate(ids, to) \in [Media -> Folders \cup {Nowhere, Gone}]
  BY DEF Relocate, ServerTyped

LEMMA WriteTyped ==
    ASSUME Typed, NEW r \in asked, Write(r)
    PROVE  ServerTyped'
<1>1. ServerTyped /\ acts \in Nat /\ TypedRequest(r)
  BY DEF Typed, ViewTyped, AreTyped
<1>2. CASE r.k = "delete" /\ place' = Relocate(r.ids, Gone) /\ UNCHANGED <<attr, folders>>
  BY <1>1, <1>2, RelocateTyped DEF ServerTyped
<1>3. CASE r.k = "move" /\ place' = Relocate(r.ids, r.to) /\ UNCHANGED <<attr, folders>>
  <2>1. r.to \in Folders
    BY <1>1, <1>3 DEF TypedRequest
  <2>2. QED
    BY <1>1, <1>3, <2>1, RelocateTyped DEF ServerTyped
<1>4. CASE /\ r.k = "edit"
           /\ attr' = [m \in Media |-> IF m \in Present(r.ids) THEN acts ELSE attr[m]]
           /\ UNCHANGED <<place, folders>>
  BY <1>1, <1>4 DEF ServerTyped
<1>5. CASE /\ r.k = "section media"
           /\ place' = Relocate({m \in Media : place[m] = r.to}, Gone)
           /\ UNCHANGED <<attr, folders>>
  BY <1>1, <1>5, RelocateTyped DEF ServerTyped
<1>6. CASE /\ r.k = "section"
           /\ place' = Relocate({m \in Media : place[m] = r.to}, Nowhere)
           /\ folders' = folders \ {r.to} /\ UNCHANGED attr
  BY <1>1, <1>6, RelocateTyped DEF ServerTyped
<1>7. QED
  BY <1>2, <1>3, <1>4, <1>5, <1>6 DEF Write

\* A request that is served keeps what it is.
LEMMA ServedTyped ==
    ASSUME Typed, NEW r \in asked, Serve(r)
    PROVE  AreTyped(asked')
<1>1. AreTyped(asked) /\ TypedRequest(r)
  BY DEF Typed, AreTyped
<1>2. CASE Read(r)
  <2> PICK list : list = IF r.k = "list" THEN ListFor(r) ELSE <<>>
    OBVIOUS
  <2> PICK count : count = IF r.k = "count" THEN CountFor(r) ELSE 0
    OBVIOUS
  <2>1. list \in Lists /\ count \in Nat
    BY ListTyped, EmptyList, CountIsNat DEF Typed
  <2> PICK new : new = [r EXCEPT !.served = TRUE, !.count = count, !.list = list]
    OBVIOUS
  <2>2. asked' = (asked \ {r}) \cup {new}
    BY <1>2 DEF Read, Replace
  <2>3. /\ IsRequest(new) /\ new.k = r.k /\ new.flag = r.flag /\ new.to = r.to
        /\ new.start = r.start /\ new.stop = r.stop /\ new.list = list
    BY <1>1, <2>1 DEF TypedRequest, IsRequest
  <2>4. TypedRequest(new)
    BY <1>1, <2>1, <2>3 DEF TypedRequest
  <2>5. QED
    BY <1>1, <2>2, <2>4 DEF AreTyped
<1>3. ASSUME NEW good, asked' = Replace(r, {[r EXCEPT !.served = TRUE, !.good = good]})
      PROVE  AreTyped(asked')
  <2> PICK new : new = [r EXCEPT !.served = TRUE, !.good = good]
    OBVIOUS
  <2>1. /\ IsRequest(new) /\ new.k = r.k /\ new.flag = r.flag /\ new.to = r.to
        /\ new.start = r.start /\ new.stop = r.stop /\ new.list = r.list
    BY <1>1 DEF TypedRequest, IsRequest
  <2>2. TypedRequest(new)
    BY <1>1, <2>1 DEF TypedRequest
  <2>3. QED
    BY <1>1, <1>3, <2>2 DEF AreTyped, Replace
<1>4. QED
  BY <1>2, <1>3 DEF Serve, Write, Fail

LEMMA ServeTyped ==
    ASSUME Typed, Inv', NEW r \in asked, Serve(r)
    PROVE  Typed'
<1>1. /\ UNCHANGED <<tree, sec, filter, stop, els, stub, broken, wait, edit, sel, acts, dialog,
                     dim, latest, missed, skipped>>
      /\ Read(r) \/ Fail(r) => UNCHANGED <<place, attr, folders>>
  BY DEF Serve, Read, Write, Fail, server, range, gallery, picks, front, bounds, history
<1>2. ServerTyped'
  <2>1. CASE Write(r)
    BY <2>1, WriteTyped
  <2>2. CASE Read(r) \/ Fail(r)
    BY <1>1, <2>2 DEF Typed, ServerTyped
  <2>3. QED
    BY <2>1, <2>2 DEF Serve
<1>3. ViewTyped' /\ CardsTyped'
  BY <1>1 DEF Typed, ViewTyped, CardsTyped, Picked
<1>4. FlagsTyped'
  BY <1>1 DEF Typed, FlagsTyped
<1>5. QED
  BY <1>2, <1>3, <1>4, ServedTyped DEF Typed

-----------------------------------------------------------------------------
LEMMA OthersTyped ==
    ASSUME Typed, NEW r
    PROVE  AreTyped(asked \ {r})
  BY DEF Typed, AreTyped

LEMMA AnswerCountTyped ==
    ASSUME Typed, Inv', NEW r \in asked, AnswerCount(r)
    PROVE  Typed'
<1>1. /\ acts \in Nat /\ dialog.section \in Folders \cup {All} /\ stop \in Index
      /\ dim \in BOOLEAN /\ latest \in BOOLEAN /\ missed \in BOOLEAN /\ skipped \in BOOLEAN
  BY DEF Typed, ViewTyped, FlagsTyped
<1>2. /\ UNCHANGED <<place, attr, folders, tree, sec, filter, stop, els, stub, broken, wait,
                     edit, sel, acts, dialog, latest, missed>>
  BY DEF AnswerCount, server, range, gallery, picks, bounds
<1>3. AreTyped(asked \ {r})
  BY OthersTyped
<1>4. CASE NaN \in {start, stop}
  <2>1. asked' = asked \ {r} /\ FilterDone(r, TRUE)
    BY <1>4 DEF AnswerCount
  <2>2. dim' \in BOOLEAN /\ skipped' \in BOOLEAN
    BY <1>1, <2>1 DEF FilterDone
  <2>3. QED
    BY <1>1, <1>2, <1>3, <2>1, <2>2, FrontTyped
<1>5. CASE NaN \notin {start, stop}
  <2>1. asked' = LoadMedia(asked \ {r}, start, stop, r.then) /\ dim' = dim /\ skipped' = skipped
    BY <1>5 DEF AnswerCount
  <2>2. start \in Nat /\ stop \in Int
    BY <1>1, <1>5 DEF Typed, Inv, Numbers, PageNumber, Index
  <2>3. AreTyped(asked')
    BY <1>3, <2>1, <2>2, LoadMediaTyped
  <2>4. QED
    BY <1>1, <1>2, <2>1, <2>3, FrontTyped
<1>6. QED
  BY <1>4, <1>5

LEMMA AnswerListTyped ==
    ASSUME Typed, Inv', NEW r \in asked, AnswerList(r)
    PROVE  Typed'
<1>1. Typed /\ r.k = "list" /\ asked' = asked \ {r}
      /\ UNCHANGED <<place, attr, folders, tree, sec, filter, stop, edit, acts, dialog, missed>>
      /\ latest' = r.flag /\ FilterDone(r, Again(ListFor(r)) = {}) /\ MakeCards(ListFor(r))
  BY DEF AnswerList, server, range, bounds
<1> PICK list : list = ListFor(r)
  OBVIOUS
<1>2. list \in Seq(Entry)
  BY <1>1, ListTyped DEF Lists
<1>3. AreTyped(asked') /\ ServerTyped' /\ ViewTyped'
  BY <1>1, OthersTyped DEF Typed, ServerTyped, ViewTyped
<1>4. CardsTyped' /\ broken' \in BOOLEAN /\ wait' \in BOOLEAN
  <2>1. CASE Again(list) = {}
    <3>1. els' = Fresh(list) /\ stub' = <<>> /\ sel' = sel /\ broken' = FALSE /\ wait' = FALSE
      BY <1>1, <2>1 DEF MakeCards
    <3>2. <<>> \in Seq(CardType)
      OBVIOUS
    <3>3. QED
      BY <1>1, <1>2, <3>1, <3>2, FreshTyped DEF Typed, CardsTyped, Picked
  <2>2. CASE Again(list) # {}
    <3> PICK at : at = Min(Again(list))
      OBVIOUS
    <3>1. stub' = Fresh(SubSeq(list, 1, at - 1)) /\ sel' = [sel EXCEPT ![list[at].id] = FALSE]
          /\ els' = els /\ broken' = TRUE /\ wait' = wait
      BY <1>1, <2>2 DEF MakeCards
    <3>2. SubSeq(list, 1, at - 1) \in Seq(Entry)
      <4>1. Again(list) \in SUBSET DOMAIN list /\ Again(list) \in SUBSET Nat
        BY <1>2 DEF Again
      <4>2. at \in DOMAIN list
        BY <2>2, <4>1, MinIsThere
      <4>3. at - 1 \in 0..Len(list)
        BY <1>2, <4>2
      <4>4. QED
        BY <1>2, <4>3
    <3>3. Picked' = Picked
      BY <3>1 DEF Picked
    <3>4. stub' \in Seq(CardType)
      BY <3>1, <3>2, FreshTyped
    <3>5. wait \in BOOLEAN
      BY <1>1 DEF Typed, FlagsTyped
    <3>6. QED
      BY <1>1, <3>1, <3>3, <3>4, <3>5 DEF Typed, CardsTyped
  <2>3. QED
    BY <2>1, <2>2
<1>5. FlagsTyped'
  <2>1. TypedRequest(r) /\ FlagsTyped
    BY <1>1 DEF Typed, AreTyped
  <2>2. dim' \in BOOLEAN /\ skipped' \in BOOLEAN
    BY <1>1, <2>1 DEF FilterDone, FlagsTyped
  <2>3. QED
    BY <1>1, <1>4, <2>1, <2>2 DEF FlagsTyped, TypedRequest
<1>6. QED
  BY <1>3, <1>4, <1>5 DEF Typed

LEMMA AnswerDeleteTyped ==
    ASSUME Typed, Inv', NEW r \in asked, AnswerDelete(r)
    PROVE  Typed'
<1>1. /\ UNCHANGED <<place, attr, folders, tree, sec, filter, stop, broken, wait, edit, sel,
                     acts, latest, skipped>>
      /\ dialog' = [dialog EXCEPT !.delete = {}] /\ dim' = FALSE /\ missed' = FALSE
      /\ asked' = Reload(asked \ {r}, sec, filter, "nothing")
  BY DEF AnswerDelete, Close, server, range, picks, bounds
<1>2. dialog'.section = dialog.section
  BY <1>1 DEF Typed, Inv, Shaped
<1>3. AreTyped(asked')
  BY <1>1, OthersTyped, ReloadTyped
<1>4. ServerTyped' /\ ViewTyped'
  BY <1>1, <1>2 DEF Typed, ServerTyped, ViewTyped
<1>5. FlagsTyped'
  BY <1>1 DEF Typed, FlagsTyped
<1> PICK single : single = IF Cardinality(r.ids) = 1 THEN r.ids ELSE {}
  OBVIOUS
<1> PICK left : left = {i \in DOMAIN stub : stub[i].id \notin single}
  OBVIOUS
<1>6. els' = (IF broken THEN Unticked(els) ELSE Hidden(single)) /\ stub' = Only(stub, left)
  BY DEF AnswerDelete
<1>7. CardsTyped
  BY DEF Typed
<1>8. els' \in Seq(CardType)
  BY <1>6, <1>7, UntickedTyped, HiddenTyped DEF CardsTyped
<1>9. stub' \in Seq(CardType)
  BY <1>6, <1>7, OnlySome DEF CardsTyped
<1>10. CardsTyped'
  BY <1>1, <1>7, <1>8, <1>9 DEF CardsTyped, Picked
<1>11. QED
  BY <1>3, <1>4, <1>5, <1>10 DEF Typed

\* The page is left for another section, with nothing selected.
LEMMA LeaveTyped ==
    ASSUME Typed, Inv', NEW s, NEW r, Select(s, asked \ {r}), ClearSelection,
           UNCHANGED <<place, attr, folders, filter, stub, broken, edit, acts, dialog, latest,
                       skipped>>,
           tree' \subseteq Folders, s \in tree' \cup {All}, dim' = FALSE, missed' = FALSE
    PROVE  Typed'
<1>1. /\ sec' = s /\ stop' = psize /\ wait' = TRUE /\ sel' = Nobody /\ els' = Unticked(els)
      /\ asked' = Reload(asked \ {r}, s, filter, "nothing")
  BY DEF Select, ClearSelection
<1>2. AreTyped(asked')
  BY <1>1, OthersTyped, ReloadTyped
<1>3. psize \in Int
  BY SizesAreNat DEF Typed, Inv, Numbers
<1>4. ServerTyped' /\ ViewTyped'
  BY <1>1, <1>3 DEF Typed, ServerTyped, ViewTyped, Index
<1>5. CardsTyped'
  BY <1>1, UntickedTyped DEF Typed, CardsTyped, Picked, Nobody, Known
<1>6. FlagsTyped'
  BY <1>1 DEF Typed, FlagsTyped
<1>7. QED
  BY <1>2, <1>4, <1>5, <1>6 DEF Typed

LEMMA AnswerMoveTyped ==
    ASSUME Typed, Inv', NEW r \in asked, AnswerMove(r)
    PROVE  Typed'
<1>1. /\ UNCHANGED <<place, attr, folders, tree, filter, stub, broken, edit, acts, latest, skipped>>
      /\ dim' = FALSE
  BY DEF AnswerMove, server, bounds
<1>2. /\ tree \subseteq Folders /\ dialog.section \in Folders \cup {All} /\ acts \in Nat
      /\ latest \in BOOLEAN /\ missed \in BOOLEAN /\ skipped \in BOOLEAN
  BY DEF Typed, ViewTyped, FlagsTyped
<1>3. CASE r.good
  <2>1. Select(All, asked \ {r}) /\ ClearSelection /\ missed' = FALSE /\ dialog' = dialog
    BY <1>3 DEF AnswerMove
  <2>2. QED
    BY <1>1, <1>2, <2>1, LeaveTyped
<1>4. CASE ~r.good
  <2>1. /\ dialog' = [dialog EXCEPT !.error = TRUE] /\ asked' = asked \ {r}
        /\ UNCHANGED <<sec, stop, wait, sel, els, missed>>
    BY <1>4 DEF AnswerMove
  <2>2. dialog'.section = dialog.section
    BY <2>1 DEF Typed, Inv, Shaped
  <2>3. QED
    BY <1>1, <1>2, <2>1, <2>2, OthersTyped, FrontTyped
<1>5. QED
  BY <1>3, <1>4

LEMMA AnswerSectionTyped ==
    ASSUME Typed, Inv', NEW r \in asked, AnswerSection(r)
    PROVE  Typed'
<1>1. /\ UNCHANGED <<place, attr, folders, tree, sec, filter, stop, els, stub, broken, wait,
                     edit, sel, acts, latest, skipped>>
      /\ r.k \in {"section media", "section"}
  BY DEF AnswerSection, server, range, gallery, picks, bounds
<1>2. /\ dialog.section \in Folders \cup {All} /\ acts \in Nat /\ TypedRequest(r)
      /\ dim \in BOOLEAN /\ latest \in BOOLEAN /\ missed \in BOOLEAN /\ skipped \in BOOLEAN
  BY DEF Typed, ViewTyped, FlagsTyped, AreTyped
<1>3. AreTyped(asked \ {r})
  BY OthersTyped
<1>4. CASE r.good
  <2> PICK new : new = [r EXCEPT !.served = FALSE, !.flag = r.k # "section",
                           !.k = IF r.k = "section" THEN "sections" ELSE "section"]
    OBVIOUS
  <2>1. asked' = (asked \ {r}) \cup {new} /\ dialog' = dialog /\ dim' = dim /\ missed' = missed
    BY <1>4 DEF AnswerSection, Replace
  <2>2. /\ IsRequest(new) /\ new.k \in {"section", "sections"} /\ new.to = r.to
        /\ new.flag = (r.k # "section") /\ new.list = r.list
    BY <1>2 DEF TypedRequest, IsRequest
  <2>3. TypedRequest(new)
    BY <1>1, <1>2, <2>2 DEF TypedRequest
  <2>4. AreTyped(asked')
    BY <1>3, <2>1, <2>3 DEF AreTyped
  <2>5. QED
    BY <1>1, <1>2, <2>1, <2>4, FrontTyped
<1>5. CASE ~r.good
  <2>1. /\ asked' = asked \ {r} /\ dialog' = [dialog EXCEPT !.error = TRUE]
        /\ dim' = dim \/ dim' = FALSE
        /\ missed' = (missed \/ r.flag)
    BY <1>5 DEF AnswerSection
  <2>2. dialog'.section = dialog.section
    BY <2>1 DEF Typed, Inv, Shaped
  <2>3. dim' \in BOOLEAN /\ missed' \in BOOLEAN
    BY <1>2, <2>1
  <2>4. QED
    BY <1>1, <1>2, <1>3, <2>1, <2>2, <2>3, FrontTyped
<1>6. QED
  BY <1>4, <1>5

LEMMA AnswerSectionsTyped ==
    ASSUME Typed, Inv', NEW r \in asked, AnswerSections(r)
    PROVE  Typed'
<1>1. /\ UNCHANGED <<place, attr, folders, filter, stub, broken, edit, acts, dialog, latest,
                     skipped>>
      /\ tree' = folders /\ dim' = FALSE /\ missed' = FALSE
      /\ Select(All, asked \ {r}) /\ ClearSelection
  BY DEF AnswerSections, server, bounds
<1>2. folders \subseteq Folders
  BY DEF Typed, ServerTyped
<1>3. QED
  BY <1>1, <1>2, LeaveTyped

LEMMA AnswerEditTyped ==
    ASSUME Typed, Inv', NEW r \in asked, AnswerEdit(r)
    PROVE  Typed'
<1>1. UNCHANGED <<place, attr, folders, tree, sec, filter, stop, stub, broken, wait, edit, acts,
                  latest, skipped>>
  BY DEF AnswerEdit, server, range, bounds
<1>2. /\ dialog.section \in Folders \cup {All} /\ acts \in Nat
      /\ dim \in BOOLEAN /\ latest \in BOOLEAN /\ missed \in BOOLEAN /\ skipped \in BOOLEAN
  BY DEF Typed, ViewTyped, FlagsTyped
<1>3. missed' \in BOOLEAN
  <2>1. missed' = (missed \/ (r.good /\ \A m \in Picked : ~sel[m]))
    BY DEF AnswerEdit
  <2>2. QED
    BY <2>1
<1> PICK after : after = IF r.good THEN ReloadSelected(asked \ {r}) ELSE asked \ {r}
  OBVIOUS
<1>4. AreTyped(after)
  BY OthersTyped, ReloadSelectedTyped
<1>5. CASE r.rest # <<>>
  <2> PICK failed : failed = (r.flag \/ ~r.good)
    OBVIOUS
  <2> PICK new : new = [Request("edit", Head(r.rest)) EXCEPT !.rest = Tail(r.rest), !.flag = failed]
    OBVIOUS
  <2>1. asked' = after \cup {new} /\ UNCHANGED <<sel, els, dialog, dim>>
    BY <1>5 DEF AnswerEdit
  <2>2. IsRequest(new) /\ new.k = "edit" /\ new.list = <<>> /\ new.flag = failed
    BY DEF Request, IsRequest
  <2>3. TypedRequest(new)
    BY <2>2, EmptyList DEF TypedRequest
  <2>4. AreTyped(asked')
    BY <1>4, <2>1, <2>3 DEF AreTyped
  <2>5. QED
    BY <1>1, <1>2, <1>3, <2>1, <2>4, FrontTyped
<1>6. CASE r.rest = <<>>
  <2>1. /\ asked' = after /\ dialog' = [dialog EXCEPT !.modal = "message", !.form = <<>>]
        /\ dim' = TRUE /\ sel' = Nobody /\ els' = Unticked(els)
    BY <1>6 DEF AnswerEdit, Open, ClearSelection
  <2>2. dialog'.section = dialog.section
    BY <2>1 DEF Typed, Inv, Shaped
  <2>3. ServerTyped' /\ ViewTyped'
    BY <1>1, <2>2 DEF Typed, ServerTyped, ViewTyped
  <2>4. CardsTyped'
    BY <1>1, <2>1, UntickedTyped DEF Typed, CardsTyped, Picked, Nobody, Known
  <2>5. FlagsTyped'
    BY <1>1, <1>3, <2>1 DEF Typed, FlagsTyped
  <2>6. QED
    BY <1>4, <2>1, <2>3, <2>4, <2>5 DEF Typed
<1>7. QED
  BY <1>5, <1>6

-----------------------------------------------------------------------------
(* The cards and the selection.  That they are right when all is answered   *)
(* is because of a request under way, as long as there is one.              *)

\* Out of select mode nothing is selected.  Cards of one media are equal, so that a
\* click on one of them ticks all of them.
Unpicked == ~edit => Picked = {} /\ \A i \in DOMAIN els : ~els[i].ticked
OneCard == \A i, j \in DOMAIN els : els[i].id = els[j].id => els[i] = els[j]
PicksShown == \A i \in DOMAIN els : els[i].shown /\ (els[i].ticked <=> els[i].id \in Picked)
Selection == Unpicked /\ OneCard /\ (broken \/ ~Ranged \/ Loads(asked) \/ PicksShown)

\* The cards are what the server has for the view.
Now == Page(sec, filter, start, stop)
Matches ==
    /\ DOMAIN els = DOMAIN Now
    /\ \A i \in DOMAIN els : els[i].id = Now[i].id /\ els[i].val = Now[i].val /\ els[i].shown

\* A request whose answer loads the page again, and the newest list if it is right.
Renews(r) ==
    \/ r.k \in {"count", "delete", "sections"}
    \/ r.k \in {"move", "edit", "section media", "section"} /\ r.served /\ r.good
    \/ r.k = "section" /\ r.flag
IsNewest(r) == r.k = "list" /\ r.flag
AsksNow(r) ==
    /\ IsNewest(r)
    /\ r.sec = sec /\ r.filter = filter /\ r.start = start /\ r.stop = stop
    /\ r.served => r.list = Now
OneNewest == \A q, r \in asked : IsNewest(q) /\ IsNewest(r) => q = r
Current ==
    /\ OneNewest
    /\ \/ missed \/ ~Ranged
       \/ \E r \in asked : Renews(r) \/ AsksNow(r)
       \/ /\ \A r \in asked : ~IsNewest(r)
          /\ latest /\ ~broken => Matches

Seen == Selection /\ Current

-----------------------------------------------------------------------------
(* What keeps them so.                                                      *)

LEMMA SelectionStays ==
    ASSUME Selection, UNCHANGED <<els, sel, edit, broken, start, stop>>,
           Loads(asked) => Loads(asked')
    PROVE  Selection'
<1>1. Unpicked' /\ OneCard' /\ (PicksShown => PicksShown')
  BY DEF Selection, Unpicked, OneCard, PicksShown, Picked
<1>2. QED
  BY <1>1 DEF Selection, Ranged

\* A load that begins will bring new cards.
LEMMA SelectionLoads ==
    ASSUME Selection, UNCHANGED <<els, sel, edit>>, Loads(asked')
    PROVE  Selection'
  BY DEF Selection, Unpicked, OneCard, Picked

\* The ticks go.
LEMMA UntickedSame ==
    ASSUME CardsTyped, OneCard, els' = Unticked(els)
    PROVE  OneCard' /\ (\A i \in DOMAIN els' : ~els'[i].ticked) /\ Ticks(els', els)
<1>1. Ticks(els', els) /\ \A i \in DOMAIN els : ~els'[i].ticked
  BY UntickedTyped DEF CardsTyped
<1>2. \A i \in DOMAIN els : els'[i] = [els[i] EXCEPT !.ticked = FALSE]
  BY DEF Unticked
<1>3. DOMAIN els' = DOMAIN els /\ \A i \in DOMAIN els : els'[i].id = els[i].id
  BY <1>1 DEF Ticks
<1>4. ASSUME NEW i \in DOMAIN els', NEW j \in DOMAIN els', els'[i].id = els'[j].id
      PROVE  els'[i] = els'[j]
  <2>1. els[i] = els[j]
    BY <1>3, <1>4 DEF OneCard
  <2>2. QED
    BY <1>2, <1>3, <2>1
<1>5. QED
  BY <1>1, <1>3, <1>4 DEF OneCard

LEMMA SelectionCleared ==
    ASSUME CardsTyped, Selection, ClearSelection,
           \/ Loads(asked')
           \/ UNCHANGED <<broken, start, stop>> /\ (Loads(asked) => Loads(asked'))
    PROVE  Selection' /\ Ticks(els', els)
<1>1. OneCard' /\ (\A i \in DOMAIN els' : ~els'[i].ticked) /\ Ticks(els', els)
  BY UntickedSame DEF ClearSelection, Selection
<1>2. Picked' = {}
  BY DEF ClearSelection, Picked, Nobody, Known
<1>3. PicksShown => PicksShown'
  BY <1>1, <1>2 DEF PicksShown, Ticks
<1>4. QED
  BY <1>1, <1>2, <1>3 DEF Selection, Unpicked, Ranged

LEMMA NowStays ==
    ASSUME UNCHANGED <<place, attr, sec, filter, start, stop>>
    PROVE  Now' = Now
<1>1. Found(sec, filter)' = Found(sec, filter)
  BY DEF Found, InFolder
<1>2. QED
  BY <1>1 DEF Now, Page

LEMMA CurrentStays ==
    ASSUME Current, UNCHANGED <<place, attr, sec, filter, start, stop, broken, latest>>,
           missed => missed', Ticks(els', els),
           \A q \in asked' : IsNewest(q) => q \in asked,
           \A q \in asked : Renews(q) \/ AsksNow(q) =>
               q \in asked' \/ \E r \in asked' : Renews(r)
    PROVE  Current'
<1>1. Now' = Now
  BY NowStays
<1>2. OneNewest'
  BY DEF Current, OneNewest
<1>3. Matches => Matches'
  BY <1>1 DEF Matches, Ticks
<1>4. \A q : AsksNow(q) => AsksNow(q)'
  BY <1>1 DEF AsksNow
<1>5. CASE missed \/ ~Ranged
  BY <1>2, <1>5 DEF Current, Ranged
<1>6. CASE \E q \in asked : Renews(q) \/ AsksNow(q)
  BY <1>2, <1>4, <1>6 DEF Current
<1>7. CASE (\A r \in asked : ~IsNewest(r)) /\ (latest /\ ~broken => Matches)
  BY <1>2, <1>3, <1>7 DEF Current
<1>8. QED
  BY <1>5, <1>6, <1>7 DEF Current

\* Something under way loads the page again.
LEMMA CurrentRenewed ==
    ASSUME Current, \A q \in asked' : IsNewest(q) => q \in asked,
           \E r \in asked' : Renews(r)
    PROVE  Current'
<1>1. OneNewest'
  BY DEF Current, OneNewest
<1>2. QED
  BY <1>1 DEF Current

LEMMA SameTicks == Ticks(els, els)
  BY DEF Ticks

LEMMA AskingMore ==
    ASSUME NEW reqs, NEW r, IsRequest(r)
    PROVE  /\ reqs \subseteq Asking(reqs, r)
           /\ \A q \in Asking(reqs, r) : q \in reqs \/
                  /\ q.k = r.k /\ q.sec = r.sec /\ q.filter = r.filter /\ q.start = r.start
                  /\ q.stop = r.stop /\ q.flag = r.flag /\ q.served = r.served
           /\ \E q \in Asking(reqs, r) :
                  /\ q.k = r.k /\ q.sec = r.sec /\ q.filter = r.filter /\ q.start = r.start
                  /\ q.stop = r.stop /\ q.flag = r.flag /\ q.served = r.served
<1> PICK n : Asking(reqs, r) = reqs \cup {[r EXCEPT !.n = n]}
  BY DEF Asking
<1> PICK new : new = [r EXCEPT !.n = n]
  OBVIOUS
<1>1. /\ new.k = r.k /\ new.sec = r.sec /\ new.filter = r.filter /\ new.start = r.start
      /\ new.stop = r.stop /\ new.flag = r.flag /\ new.served = r.served
  BY DEF IsRequest
<1>2. QED
  BY <1>1

LEMMA ReloadMore ==
    ASSUME NEW reqs, NEW s, NEW f, NEW then
    PROVE  LET new == Reload(reqs, s, f, then)
           IN  /\ reqs \subseteq new
               /\ \A q \in new : IsNewest(q) => q \in reqs
               /\ Loads(new) /\ \E q \in new : Renews(q)
<1> PICK r : r = [Request("count", {}) EXCEPT !.sec = s, !.filter = f, !.then = then]
  OBVIOUS
<1>1. IsRequest(r) /\ r.k = "count"
  BY DEF Request, IsRequest
<1> PICK new : new = Reload(reqs, s, f, then)
  OBVIOUS
<1>2. new = Asking(reqs, r)
  BY DEF Reload
<1>3. /\ reqs \subseteq new /\ (\A q \in new : q \in reqs \/ q.k = r.k)
      /\ \E q \in new : q.k = r.k
  BY ONLY <1>1, <1>2, AskingMore
<1>4. QED
  BY <1>1, <1>3 DEF IsNewest, Loads, IsRead, Renews

\* A load from here: whatever was to come, it will make the cards right.
LEMMA Reloaded ==
    ASSUME Seen, NEW reqs \in SUBSET asked, NEW s, NEW f, NEW then,
           asked' = Reload(reqs, s, f, then)
    PROVE  Current' /\ Loads(asked')
<1>1. /\ \A q \in asked' : IsNewest(q) => q \in reqs
      /\ Loads(asked') /\ \E q \in asked' : Renews(q)
  BY ReloadMore
<1>2. QED
  BY <1>1, CurrentRenewed DEF Seen

LEMMA LoadMediaNewest ==
    ASSUME NEW reqs, AreRequests(reqs), NEW from, NEW to, NEW then
    PROVE  LET new == LoadMedia(reqs, from, to, then)
           IN  /\ \A q, r \in new : IsNewest(q) /\ IsNewest(r) => q = r
               /\ \E q \in new : /\ IsNewest(q) /\ ~q.served /\ q.sec = sec /\ q.filter = filter
                                 /\ q.start = from /\ q.stop = to
<1> PICK r : r = [Request("list", {}) EXCEPT !.sec = sec, !.filter = filter, !.then = then,
                     !.start = from, !.stop = to, !.flag = TRUE]
  OBVIOUS
<1> DEFINE older(q) == [q EXCEPT !.flag = @ /\ q.k # "list"]
<1> PICK old : old = {older(q) : q \in reqs}
  OBVIOUS
<1>1. /\ IsRequest(r) /\ r.k = "list" /\ r.flag = TRUE /\ r.served = FALSE /\ r.sec = sec
      /\ r.filter = filter /\ r.start = from /\ r.stop = to
  BY DEF Request, IsRequest
<1>2. \A q \in reqs : older(q).k = q.k /\ older(q).flag = (q.flag /\ q.k # "list")
  BY DEF AreRequests, IsRequest
<1>3. \A q \in old : ~IsNewest(q)
  BY <1>2 DEF IsNewest
<1> PICK new : new = LoadMedia(reqs, from, to, then)
  OBVIOUS
<1>4. PICK n : new = old \cup {[r EXCEPT !.n = n]}
  BY DEF LoadMedia, Asking
<1> PICK one : one = [r EXCEPT !.n = n]
  OBVIOUS
<1>5. /\ one.k = r.k /\ one.flag = r.flag /\ one.served = r.served /\ one.sec = r.sec
      /\ one.filter = r.filter /\ one.start = r.start /\ one.stop = r.stop
  BY <1>1 DEF IsRequest
<1>6. IsNewest(one) /\ ~one.served /\ one.sec = sec /\ one.filter = filter
      /\ one.start = from /\ one.stop = to
  BY <1>1, <1>5 DEF IsNewest
<1>7. new = old \cup {one}
  BY <1>4
<1> HIDE DEF older
<1>8. QED
  BY ONLY <1>3, <1>6, <1>7, new = LoadMedia(reqs, from, to, then)

\* The newest list is asked for with the view of this moment.
LEMMA AskedNow ==
    ASSUME NEW reqs, AreRequests(reqs), NEW from, NEW to, NEW then,
           asked' = LoadMedia(reqs, from, to, then), sec' = sec, filter' = filter,
           start' = from, stop' = to
    PROVE  Current' /\ Loads(asked')
<1>1. /\ \A q, r \in asked' : IsNewest(q) /\ IsNewest(r) => q = r
      /\ \E q \in asked' : /\ IsNewest(q) /\ ~q.served /\ q.sec = sec /\ q.filter = filter
                           /\ q.start = from /\ q.stop = to
  BY LoadMediaNewest
<1>2. OneNewest'
  BY <1>1 DEF OneNewest
<1>3. \E q \in asked' : AsksNow(q)'
  BY <1>1 DEF AsksNow, IsNewest
<1>4. QED
  BY <1>1, <1>2, <1>3 DEF Current, Loads, IsRead, IsNewest

-----------------------------------------------------------------------------
(* The steps.                                                               *)

LEMMA LookSeen ==
    ASSUME Typed, Seen, Look
    PROVE  Seen'
<1>1. Inv /\ AreRequests(asked) /\ CardsTyped /\ Selection /\ Current
  BY DEF Typed, Inv, Shaped, Seen
<1>2. ASSUME UNCHANGED <<els, sel, edit>>, NEW s, NEW f, NEW then,
             asked' = Reload(asked, s, f, then)
      PROVE  Seen'
  BY <1>1, <1>2, Reloaded, SelectionLoads DEF Seen
<1>3. ASSUME NEW s \in Folders \cup {All}, SelectSection(s)
      PROVE  Seen'
  BY <1>2, <1>3 DEF SelectSection, Select, gallery, picks
<1>4. ASSUME NEW p \in PageNumber, NEW size \in Sizes, SetPage(p, size)
      PROVE  Seen'
  <2>1. /\ start' = From(p, size) /\ stop' = To(p, size) /\ els' = Unticked(els)
        /\ sec' = sec /\ filter' = filter /\ sel' = sel /\ edit' = edit
        /\ IF p = NaN THEN asked' = asked
           ELSE asked' = LoadMedia(asked, From(p, size), To(p, size), "nothing")
    BY <1>4 DEF SetPage, picks
  <2>2. Unpicked' /\ OneCard'
    BY <1>1, <2>1, UntickedSame DEF Selection, Unpicked, Picked
  <2>3. CASE p = NaN
    <3>1. ~Ranged'
      BY <2>1, <2>3 DEF From, Ranged
    <3>2. OneNewest'
      BY <1>1, <2>1, <2>3 DEF Current, OneNewest
    <3>3. QED
      BY <2>2, <3>1, <3>2 DEF Seen, Selection, Current
  <2>4. CASE p # NaN
    <3>1. Current' /\ Loads(asked')
      BY <1>1, <2>1, <2>4, AskedNow
    <3>2. QED
      BY <2>2, <3>1 DEF Seen, Selection
  <2>5. QED
    BY <2>3, <2>4
<1>5. CASE ChangeFilter \/ ClickReload
  BY <1>2, <1>5 DEF ChangeFilter, ClickReload, gallery, picks
<1>6. QED
  BY <1>1, <1>3, <1>4, <1>5, LookCases

\* A click on a card.
LEMMA PickSeen ==
    ASSUME CardsTyped, Selection, NEW i \in DOMAIN Cards, Pick(i),
           UNCHANGED <<broken, start, stop, asked>>
    PROVE  Selection' /\ Ticks(els', els)
<1> PICK card : card = Cards[i]
  OBVIOUS
<1> PICK new : new = [card EXCEPT !.ticked = ~@]
  OBVIOUS
<1>1. card \in CardType
  <2>1. Cards \in Seq(CardType)
    BY CardsAreCards
  <2>2. QED
    BY <2>1
<1>2. /\ new.id = card.id /\ new.val = card.val /\ new.shown = card.shown
      /\ new.ticked = ~card.ticked
  BY <1>1, ToggleTyped
<1>3. edit /\ edit' = edit
      /\ sel' = IF card.ticked THEN Restrict(sel, Picked \ {card.id}) ELSE With(sel, {card.id})
  BY DEF Pick
<1>4. Picked' = IF card.ticked THEN Picked \ {card.id} ELSE Picked \cup {card.id}
  BY <1>3, WithPicks DEF Picked, Restrict
<1>5. CASE broken
  <2>1. els' = els
    BY <1>5 DEF Pick
  <2>2. QED
    BY <1>3, <1>5, <2>1, SameTicks DEF Selection, Unpicked, OneCard
<1>6. CASE ~broken
  <2>1. els' = [j \in DOMAIN els |-> IF els[j] = card THEN new ELSE els[j]]
    BY <1>6 DEF Pick
  <2>2. DOMAIN els' = DOMAIN els
        /\ \A j \in DOMAIN els : els'[j] = IF els[j] = card THEN new ELSE els[j]
    BY <2>1
  <2>3. Ticks(els', els)
    BY <1>2, <2>2 DEF Ticks
  <2>4. ASSUME NEW j \in DOMAIN els, NEW k \in DOMAIN els, els'[j].id = els'[k].id
        PROVE  els'[j] = els'[k]
    <3>1. els[j].id = els[k].id
      BY <2>3, <2>4 DEF Ticks
    <3>2. els[j] = els[k]
      BY <3>1 DEF Selection, OneCard
    <3>3. QED
      BY <2>2, <3>2
  <2>5. ASSUME PicksShown PROVE PicksShown'
    <3>1. {j \in DOMAIN els : els[j].shown} = DOMAIN els
      BY <2>5 DEF PicksShown
    <3>2. Cards = els
      BY <1>6, <3>1, OnlyAll DEF Cards, CardsTyped
    <3>3. i \in DOMAIN els /\ card = els[i]
      BY <3>2
    <3>4. \A j \in DOMAIN els : els[j].id = card.id <=> els[j] = card
      BY <3>3 DEF Selection, OneCard
    <3>5. ASSUME NEW j \in DOMAIN els
          PROVE  els'[j].shown /\ (els'[j].ticked <=> els'[j].id \in Picked')
      BY <1>2, <1>4, <2>2, <2>5, <3>3, <3>4 DEF PicksShown
    <3>6. QED
      BY <2>2, <3>5 DEF PicksShown
  <2>6. QED
    <3>1. OneCard'
      BY <2>2, <2>4 DEF OneCard
    <3>2. QED
      BY <1>3, <2>3, <2>5, <3>1 DEF Selection, Unpicked, Ranged
<1>7. QED
  BY <1>5, <1>6

LEMMA MarkSeen ==
    ASSUME Typed, Seen, Mark
    PROVE  Seen'
<1>1. CardsTyped /\ Selection /\ Current
  BY DEF Typed, Seen
<1>2. UNCHANGED <<place, attr, sec, filter, start, stop, broken, asked, latest, missed>>
  BY DEF Mark, EnterSelectMode, SelectAll, Escape, LeaveSelectMode, Pick, PicksOnly,
         server, range, history
<1>3. ASSUME Ticks(els', els) PROVE Current'
  BY <1>1, <1>2, <1>3, CurrentStays
<1>4. CASE EnterSelectMode
  <2>1. els' = els /\ ~edit /\ edit' = TRUE
        /\ sel' = With(sel, {els[i].id : i \in {j \in DOMAIN els : els[j].ticked}} \ Picked)
    BY <1>4 DEF EnterSelectMode
  <2>2. {els[i].id : i \in {j \in DOMAIN els : els[j].ticked}} = {}
    BY <1>1, <2>1 DEF Selection, Unpicked
  <2>3. Picked' = Picked
    BY <2>1, <2>2, WithPicks DEF Picked
  <2>4. Selection'
    BY <1>1, <1>2, <2>1, <2>3 DEF Selection, Unpicked, OneCard, PicksShown, Ranged
  <2>5. QED
    BY <1>3, <2>1, <2>4, SameTicks DEF Seen
<1>5. CASE SelectAll
  <2> PICK more : more = {els[i].id : i \in {j \in DOMAIN els : ~els[j].ticked}} \ Picked
    OBVIOUS
  <2>1. edit /\ edit' = edit /\ sel' = With(sel, more) /\ els' = Ticked(els, more)
    BY <1>5 DEF SelectAll
  <2>2. Picked' = Picked \cup more
    BY <2>1, WithPicks DEF Picked
  <2>3. /\ Ticks(els', els)
        /\ \A i \in DOMAIN els : els'[i].ticked <=> els[i].ticked \/ els[i].id \in more
    BY <1>1, <2>1, TickedTyped DEF CardsTyped
  <2>4. PicksShown => PicksShown'
    BY <2>2, <2>3 DEF PicksShown, Ticks
  <2>5. \A i \in DOMAIN els : els'[i] = [els[i] EXCEPT !.ticked = @ \/ els[i].id \in more]
    BY <2>1 DEF Ticked
  <2>6. ASSUME NEW i \in DOMAIN els', NEW j \in DOMAIN els', els'[i].id = els'[j].id
        PROVE  els'[i] = els'[j]
    <3>1. i \in DOMAIN els /\ j \in DOMAIN els /\ els[i].id = els[j].id
      BY <2>3, <2>6 DEF Ticks
    <3>2. els[i] = els[j]
      BY <1>1, <3>1 DEF Selection, OneCard
    <3>3. QED
      BY <2>5, <3>1, <3>2
  <2>7. Selection'
    BY <1>1, <1>2, <2>1, <2>4, <2>6 DEF Selection, Unpicked, OneCard, Ranged
  <2>8. QED
    BY <1>3, <2>3, <2>7 DEF Seen
<1>6. CASE Escape \/ LeaveSelectMode
  <2>1. ClearSelection
    BY <1>6 DEF Escape, LeaveSelectMode
  <2>2. Selection' /\ Ticks(els', els)
    BY <1>1, <1>2, <2>1, SelectionCleared
  <2>3. QED
    BY <1>3, <2>2 DEF Seen
<1>7. ASSUME NEW i \in DOMAIN Cards, Pick(i)
      PROVE  Seen'
  BY <1>1, <1>2, <1>3, <1>7, PickSeen DEF Seen
<1>8. QED
  BY <1>4, <1>5, <1>6, <1>7 DEF Mark

LEMMA TalkSeen ==
    ASSUME Seen, Talk
    PROVE  Seen'
<1>1. Selection /\ Current
  BY DEF Seen
<1>2. UNCHANGED <<els, sel, edit, broken, start, stop, place, attr, sec, filter, latest, missed>>
  BY DEF Talk, OpenDelete, OpenMove, OpenSection, OpenConfirm, Cancel, Fade, AcceptDelete,
         AcceptMove, AcceptSection, AcceptEdit, FrontOnly, Sends, server, range, gallery,
         picks, history
<1>3. ASSUME asked \subseteq asked', \A q \in asked' : IsNewest(q) => q \in asked
      PROVE  Seen'
  <2>1. Loads(asked) => Loads(asked')
    BY <1>3 DEF Loads
  <2>2. Selection'
    BY <1>1, <1>2, <2>1, SelectionStays
  <2>3. Ticks(els', els)
    BY <1>2, SameTicks
  <2>4. Current'
    BY <1>1, <1>2, <1>3, <2>3, CurrentStays
  <2>5. QED
    BY <2>2, <2>4 DEF Seen
<1>4. ASSUME NEW r, IsRequest(r), r.k # "list", Sends(r)
      PROVE  Seen'
  <2>1. asked \subseteq asked' /\ \A q \in asked' : q \in asked \/ q.k = r.k
    <3>1. asked' = Asking(asked, r)
      BY <1>4 DEF Sends
    <3>2. QED
      BY <1>4, <3>1, AskingMore
  <2>2. QED
    BY <1>3, <1>4, <2>1 DEF IsNewest
<1>5. CASE asked' = asked
  BY <1>3, <1>5
<1>6. CASE AcceptDelete
  <2>1. PICK r : r = Request("delete", dialog.delete) /\ Sends(r)
    BY <1>6 DEF AcceptDelete
  <2>2. IsRequest(r) /\ r.k = "delete"
    BY <2>1, RequestFields
  <2>3. QED
    BY <1>4, <2>1, <2>2
<1>7. ASSUME NEW to \in Folders, AcceptMove(to)
      PROVE  Seen'
  <2>1. PICK r : r = [Request("move", dialog.move) EXCEPT !.to = to] /\ Sends(r)
    BY <1>7 DEF AcceptMove
  <2>2. IsRequest(r) /\ r.k = "move"
    BY <2>1 DEF Request, IsRequest
  <2>3. QED
    BY <1>4, <2>1, <2>2
<1>8. CASE AcceptSection
  <2> PICK k : k = IF dialog.media THEN "section media" ELSE "section"
    OBVIOUS
  <2>1. PICK r : r = [Request(k, {}) EXCEPT !.to = dialog.section] /\ Sends(r)
    BY <1>8 DEF AcceptSection
  <2>2. IsRequest(r) /\ r.k # "list"
    BY <2>1 DEF Request, IsRequest
  <2>3. QED
    BY <1>4, <2>1, <2>2
<1>9. CASE AcceptEdit
  <2>1. PICK r : r = [Request("edit", Head(dialog.form)) EXCEPT !.rest = Tail(dialog.form)]
                 /\ Sends(r)
    BY <1>9 DEF AcceptEdit
  <2>2. IsRequest(r) /\ r.k = "edit"
    BY <2>1 DEF Request, IsRequest
  <2>3. QED
    BY <1>4, <2>1, <2>2
<1>10. Talk => \/ asked' = asked \/ AcceptDelete \/ AcceptSection \/ AcceptEdit
               \/ \E to \in Folders : AcceptMove(to)
  BY DEF Talk, OpenDelete, OpenMove, OpenSection, OpenConfirm, Cancel, Fade
<1>11. QED
  BY <1>5, <1>6, <1>7, <1>8, <1>9, <1>10

LEMMA CurrentGoesOn ==
    ASSUME Current, OneNewest', UNCHANGED <<start, stop, broken, latest, missed>>,
           (\E q \in asked : Renews(q) \/ AsksNow(q)) =>
               \E q \in asked' : Renews(q) \/ AsksNow(q)',
           (\A q \in asked : ~IsNewest(q)) => \A q \in asked' : ~IsNewest(q),
           Matches => Matches'
    PROVE  Current'
  BY DEF Current, Ranged

\* A read that is served has the answer of this moment; a write that succeeds will
\* be followed by a load.
LEMMA ServeSeen ==
    ASSUME Typed, Seen, NEW r \in asked, Serve(r)
    PROVE  Seen'
<1>1. Selection /\ Current /\ IsRequest(r)
  BY DEF Seen, Typed, Inv, Shaped, AreRequests
<1>2. UNCHANGED <<els, sel, edit, broken, start, stop, sec, filter, latest, missed>>
  BY DEF Serve, Read, Write, Fail, range, gallery, picks, history
<1>3. ~r.served
  BY DEF Serve, Read, Write, Fail
<1>4. ASSUME NEW new, asked' = (asked \ {r}) \cup {new}, new.k = r.k
      PROVE  Selection'
  <2>1. Loads(asked) => Loads(asked')
    BY <1>4 DEF Loads, IsRead
  <2>2. QED
    BY <1>1, <1>2, <2>1, SelectionStays
<1>5. CASE Read(r)
  <2> PICK list : list = IF r.k = "list" THEN ListFor(r) ELSE <<>>
    OBVIOUS
  <2> PICK count : count = IF r.k = "count" THEN CountFor(r) ELSE 0
    OBVIOUS
  <2> PICK new : new = [r EXCEPT !.served = TRUE, !.count = count, !.list = list]
    OBVIOUS
  <2>1. asked' = (asked \ {r}) \cup {new} /\ place' = place /\ attr' = attr
    BY <1>5 DEF Read, Replace, server
  <2>2. /\ new.k = r.k /\ new.flag = r.flag /\ new.sec = r.sec /\ new.filter = r.filter
        /\ new.start = r.start /\ new.stop = r.stop /\ new.list = list
    BY <1>1 DEF IsRequest
  <2>3. Now' = Now
    BY <1>2, <2>1, NowStays
  <2>4. AsksNow(r) => AsksNow(new)'
    <3>1. SUFFICES ASSUME AsksNow(r) PROVE AsksNow(new)'
      OBVIOUS
    <3>2. list = Page(r.sec, r.filter, r.start, r.stop)
      BY <1>3, <3>1 DEF AsksNow, IsNewest, ListFor
    <3>3. list = Now
      BY <3>1, <3>2 DEF AsksNow, Now
    <3>4. QED
      BY <1>2, <2>2, <2>3, <3>1, <3>3 DEF AsksNow, IsNewest
  <2>5. Renews(r) => Renews(new)
    BY <1>5, <2>2 DEF Renews, Read, IsRead
  <2>6. \A q : AsksNow(q) => AsksNow(q)'
    BY <1>2, <2>3 DEF AsksNow
  <2>7. IsNewest(new) => IsNewest(r)
    BY <2>2 DEF IsNewest
  <2>8. OneNewest'
    BY <1>1, <2>1, <2>7 DEF Current, OneNewest
  <2>9. (\E q \in asked : Renews(q) \/ AsksNow(q)) =>
            \E q \in asked' : Renews(q) \/ AsksNow(q)'
    BY <2>1, <2>4, <2>5, <2>6
  <2>10. (\A q \in asked : ~IsNewest(q)) => \A q \in asked' : ~IsNewest(q)
    BY <2>1, <2>7
  <2>11. Matches => Matches'
    BY <1>2, <2>3 DEF Matches
  <2>12. Current'
    BY <1>1, <1>2, <2>8, <2>9, <2>10, <2>11, CurrentGoesOn
  <2>13. QED
    BY <1>4, <2>1, <2>2, <2>12 DEF Seen
<1>6. CASE Write(r)
  <2> PICK new : new = [r EXCEPT !.served = TRUE, !.good = TRUE]
    OBVIOUS
  <2>1. asked' = (asked \ {r}) \cup {new}
        /\ r.k \in {"delete", "move", "edit", "section media", "section"}
    BY <1>6 DEF Write, Replace
  <2>2. new.k = r.k /\ new.served /\ new.good
    BY <1>1 DEF IsRequest
  <2>3. Renews(new) /\ ~IsNewest(new)
    BY <2>1, <2>2 DEF Renews, IsNewest
  <2>4. Current'
    BY <1>1, <2>1, <2>3, CurrentRenewed
  <2>5. QED
    BY <1>4, <2>1, <2>2, <2>4 DEF Seen
<1>7. CASE Fail(r)
  <2> PICK new : new = [r EXCEPT !.served = TRUE, !.good = FALSE]
    OBVIOUS
  <2>1. /\ asked' = (asked \ {r}) \cup {new} /\ place' = place /\ attr' = attr
        /\ r.k \notin {"count", "list", "sections"}
    BY <1>7 DEF Fail, Replace, server
  <2>2. new.k = r.k /\ new.flag = r.flag
    BY <1>1 DEF IsRequest
  <2>3. Renews(r) => Renews(new)
    BY <1>3, <2>1, <2>2 DEF Renews
  <2>4. ~IsNewest(new) /\ ~AsksNow(r)
    BY <2>1, <2>2 DEF AsksNow, IsNewest
  <2>5. Ticks(els', els)
    BY <1>2, SameTicks
  <2>6. Current'
    <3>1. \A q \in asked : Renews(q) \/ AsksNow(q) =>
              q \in asked' \/ \E p \in asked' : Renews(p)
      BY <2>1, <2>3, <2>4
    <3>2. \A q \in asked' : IsNewest(q) => q \in asked
      BY <2>1, <2>4
    <3>3. QED
      BY <1>1, <1>2, <2>1, <2>5, <3>1, <3>2, CurrentStays
  <2>7. QED
    BY <1>4, <2>1, <2>2, <2>6 DEF Seen
<1>8. QED
  BY <1>5, <1>6, <1>7 DEF Serve

-----------------------------------------------------------------------------
(* The answers.                                                             *)

LEMMA AnswerCountSeen ==
    ASSUME Typed, Seen, NEW r \in asked, AnswerCount(r)
    PROVE  Seen'
<1>1. Selection /\ Current /\ AreRequests(asked \ {r})
  BY DEF Seen, Typed, Inv, Shaped, AreRequests
<1>2. UNCHANGED <<els, sel, edit, broken, start, stop, sec, filter>>
  BY DEF AnswerCount, range, gallery, picks
<1>3. CASE Ranged
  <2>1. asked' = LoadMedia(asked \ {r}, start, stop, r.then)
    BY <1>3 DEF AnswerCount, Ranged
  <2>2. Current' /\ Loads(asked')
    BY <1>1, <1>2, <2>1, AskedNow
  <2>3. QED
    BY <1>1, <1>2, <2>2, SelectionLoads DEF Seen
<1>4. CASE ~Ranged
  <2>1. asked' = asked \ {r}
    BY <1>4 DEF AnswerCount, Ranged
  <2>2. ~Ranged'
    BY <1>2, <1>4 DEF Ranged
  <2>3. OneNewest'
    BY <1>1, <2>1 DEF Current, OneNewest
  <2>4. Unpicked' /\ OneCard'
    BY <1>1, <1>2 DEF Selection, Unpicked, OneCard, Picked
  <2>5. QED
    BY <2>2, <2>3, <2>4 DEF Seen, Selection, Current
<1>5. QED
  BY <1>3, <1>4

\* The cards of a list that is as it was asked for, and says the same of a media
\* wherever it has it.
LEMMA FreshSelection ==
    ASSUME Selection, NEW list \in Lists, Again(list) = {}, els' = Fresh(list),
           sel' = sel, edit' = edit
    PROVE  Selection'
<1>1. list \in Seq(Entry)
  BY DEF Lists
<1>2. /\ DOMAIN els' = DOMAIN list
      /\ \A i \in DOMAIN list : els'[i].id = list[i].id /\ ~els'[i].ticked /\ els'[i].shown
  BY <1>1, FreshTyped
<1>3. \A i \in DOMAIN list : els'[i] =
          [id |-> list[i].id, val |-> list[i].val, ticked |-> FALSE, shown |-> TRUE]
  BY DEF Fresh
<1>4. ASSUME NEW i \in DOMAIN els', NEW j \in DOMAIN els', els'[i].id = els'[j].id
      PROVE  els'[i] = els'[j]
  <2>1. list[i].id = list[j].id /\ i \in DOMAIN list /\ j \in DOMAIN list
    BY <1>2, <1>4
  <2>2. list[i].val = list[j].val
    BY <2>1 DEF Lists
  <2>3. QED
    BY <1>3, <2>1, <2>2
<1>5. \A i \in DOMAIN list : list[i].id \notin Picked
  <2>1. CASE edit
    BY <2>1 DEF Again
  <2>2. CASE ~edit
    BY <2>2 DEF Selection, Unpicked
  <2>3. QED
    BY <2>1, <2>2
<1>6. Picked' = Picked
  BY DEF Picked
<1>7. PicksShown'
  BY <1>2, <1>5, <1>6 DEF PicksShown
<1>8. Unpicked'
  BY <1>2, <1>6 DEF Selection, Unpicked
<1>9. QED
  BY <1>4, <1>7, <1>8 DEF Selection, OneCard

LEMMA NewestAnswered ==
    ASSUME Current, NEW r \in asked, asked' = asked \ {r}, r.k = "list", r.flag \in BOOLEAN,
           UNCHANGED <<place, attr, sec, filter, start, stop, missed>>, latest' = r.flag,
           AsksNow(r) => broken' \/ Matches', r.flag => IsNewest(r)
    PROVE  Current'
<1>1. OneNewest'
  BY DEF Current, OneNewest
<1>2. \A q : AsksNow(q) => AsksNow(q)'
  BY NowStays DEF AsksNow
<1>3. CASE missed \/ ~Ranged
  BY <1>1, <1>3 DEF Current, Ranged
<1>4. CASE AsksNow(r)
  <2>1. \A q \in asked' : ~IsNewest(q)
    BY <1>4 DEF AsksNow, Current, OneNewest
  <2>2. QED
    BY <1>1, <1>4, <2>1 DEF Current
<1>5. CASE \E q \in asked \ {r} : Renews(q) \/ AsksNow(q)
  BY <1>1, <1>2, <1>5 DEF Current
<1>6. CASE \A q \in asked : ~IsNewest(q)
  <2>1. latest' = FALSE /\ \A q \in asked' : ~IsNewest(q)
    BY <1>6
  <2>2. QED
    BY <1>1, <2>1 DEF Current
<1>7. ~Renews(r)
  BY DEF Renews
<1>8. QED
  BY <1>3, <1>4, <1>5, <1>6, <1>7 DEF Current

LEMMA AnswerListSeen ==
    ASSUME Typed, Seen, NEW r \in asked, AnswerList(r)
    PROVE  Seen'
<1>1. /\ Selection /\ Current /\ CardsTyped /\ ServerTyped /\ r.flag \in BOOLEAN
  BY DEF Seen, Typed, AreTyped, TypedRequest
<1>2. /\ r.k = "list" /\ asked' = asked \ {r} /\ latest' = r.flag /\ MakeCards(ListFor(r))
      /\ UNCHANGED <<place, attr, sec, filter, start, stop, edit, missed>>
  BY DEF AnswerList, server, range
<1> PICK list : list = ListFor(r)
  OBVIOUS
<1>3. list \in Lists
  BY <1>2, ListTyped
<1>4. AsksNow(r) => list = Now
  BY DEF AsksNow, ListFor, Now
<1>5. r.flag => IsNewest(r)
  BY <1>2 DEF IsNewest
<1>6. CASE Again(list) = {}
  <2>1. els' = Fresh(list) /\ sel' = sel
    BY <1>2, <1>6 DEF MakeCards
  <2>2. Selection'
    BY <1>1, <1>2, <1>3, <1>6, <2>1, FreshSelection
  <2>3. list \in Seq(Entry)
    BY <1>3 DEF Lists
  <2>4. /\ DOMAIN els' = DOMAIN list
        /\ \A i \in DOMAIN list : els'[i].id = list[i].id /\ els'[i].val = list[i].val
                                  /\ els'[i].shown
    BY <2>1, <2>3, FreshTyped
  <2>5. AsksNow(r) => Matches'
    BY <1>2, <1>4, <2>4, NowStays DEF Matches
  <2>6. Current'
    BY <1>1, <1>2, <1>5, <2>5, NewestAnswered
  <2>7. QED
    BY <2>2, <2>6 DEF Seen
<1>7. CASE Again(list) # {}
  <2>1. PICK m : sel' = [sel EXCEPT ![m] = FALSE] /\ els' = els /\ broken'
    BY <1>2, <1>7 DEF MakeCards
  <2>2. Picked' = Picked
    BY <2>1 DEF Picked
  <2>3. Selection'
    BY <1>1, <1>2, <2>1, <2>2 DEF Selection, Unpicked, OneCard
  <2>4. Current'
    BY <1>1, <1>2, <1>5, <2>1, NewestAnswered
  <2>5. QED
    BY <2>3, <2>4 DEF Seen
<1>8. QED
  BY <1>6, <1>7

LEMMA AnswerDeleteSeen ==
    ASSUME Typed, Seen, NEW r \in asked, AnswerDelete(r)
    PROVE  Seen'
<1>1. Selection /\ CardsTyped
  BY DEF Seen, Typed
<1> PICK single : single = IF Cardinality(r.ids) = 1 THEN r.ids ELSE {}
  OBVIOUS
<1>2. /\ els' = IF broken THEN Unticked(els) ELSE Hidden(single)
      /\ asked' = Reload(asked \ {r}, sec, filter, "nothing")
      /\ sel' = sel /\ edit' = edit
  BY DEF AnswerDelete, picks
<1>3. Current' /\ Loads(asked')
  BY <1>2, Reloaded
<1>4. OneCard' /\ \A i \in DOMAIN els' : ~els'[i].ticked
  <2>1. CASE broken
    BY <1>1, <1>2, <2>1, UntickedSame DEF Selection
  <2>2. CASE ~broken
    <3>1. /\ DOMAIN els' = DOMAIN els
          /\ \A i \in DOMAIN els : els'[i].id = els[i].id /\ ~els'[i].ticked
      BY <1>1, <1>2, <2>2, HiddenTyped
    <3>2. \A i \in DOMAIN els : els'[i] =
              [els[i] EXCEPT !.ticked = FALSE, !.shown = @ /\ els[i].id \notin single]
      BY <1>2, <2>2 DEF Hidden
    <3>3. ASSUME NEW i \in DOMAIN els', NEW j \in DOMAIN els', els'[i].id = els'[j].id
          PROVE  els'[i] = els'[j]
      <4>1. i \in DOMAIN els /\ j \in DOMAIN els /\ els[i].id = els[j].id
        BY <3>1, <3>3
      <4>2. els[i] = els[j]
        BY <1>1, <4>1 DEF Selection, OneCard
      <4>3. QED
        BY <3>2, <4>1, <4>2
    <3>4. QED
      BY <3>1, <3>3 DEF OneCard
  <2>3. QED
    BY <2>1, <2>2
<1>5. Unpicked'
  BY <1>1, <1>2, <1>4 DEF Selection, Unpicked, Picked
<1>6. QED
  BY <1>3, <1>4, <1>5 DEF Seen, Selection

\* The page is left, with nothing selected.
LEMMA LeaveSeen ==
    ASSUME Typed, Seen, NEW r, NEW s, Select(s, asked \ {r}), ClearSelection, edit' = edit
    PROVE  Seen'
<1>1. Current' /\ Loads(asked')
  BY Reloaded DEF Select
<1>2. Selection'
  BY <1>1, SelectionCleared DEF Typed, Seen
<1>3. QED
  BY <1>1, <1>2 DEF Seen

\* A request is over that would not have loaded anything.
LEMMA OverSeen ==
    ASSUME Seen, NEW r \in asked, ~IsRead(r), ~Renews(r), asked' = asked \ {r},
           UNCHANGED <<els, sel, edit, broken, start, stop, place, attr, sec, filter, latest>>,
           missed => missed'
    PROVE  Seen'
<1>1. Selection /\ Current /\ Ticks(els', els)
  BY SameTicks DEF Seen
<1>2. Loads(asked) => Loads(asked')
  BY DEF Loads
<1>3. Selection'
  BY <1>1, <1>2, SelectionStays
<1>4. ~AsksNow(r)
  BY DEF AsksNow, IsNewest, IsRead
<1>5. Current'
  BY <1>1, <1>4, CurrentStays
<1>6. QED
  BY <1>3, <1>5 DEF Seen

LEMMA AnswerMoveSeen ==
    ASSUME Typed, Seen, NEW r \in asked, AnswerMove(r)
    PROVE  Seen'
<1>1. UNCHANGED <<edit, broken, place, attr, filter, latest>> /\ r.k = "move" /\ r.served
  BY DEF AnswerMove, server
<1>2. CASE r.good
  BY <1>1, <1>2, LeaveSeen DEF AnswerMove
<1>3. CASE ~r.good
  <2>1. asked' = asked \ {r} /\ UNCHANGED <<sec, start, stop, sel, els, missed>>
    BY <1>3 DEF AnswerMove
  <2>2. ~IsRead(r) /\ ~Renews(r)
    BY <1>1, <1>3 DEF IsRead, Renews
  <2>3. QED
    BY <1>1, <2>1, <2>2, OverSeen
<1>4. QED
  BY <1>2, <1>3

LEMMA AnswerSectionSeen ==
    ASSUME Typed, Seen, NEW r \in asked, AnswerSection(r)
    PROVE  Seen'
<1>1. /\ UNCHANGED <<els, sel, edit, broken, start, stop, place, attr, sec, filter, latest>>
      /\ r.k \in {"section media", "section"} /\ r.served
  BY DEF AnswerSection, server, range, gallery, picks
<1>2. Selection /\ Current /\ IsRequest(r)
  BY DEF Seen, Typed, Inv, Shaped, AreRequests
<1>3. ASSUME asked \ {r} \subseteq asked' PROVE Selection'
  <2>1. Loads(asked) => Loads(asked')
    BY <1>1, <1>3 DEF Loads, IsRead
  <2>2. QED
    BY <1>1, <1>2, <2>1, SelectionStays
<1>4. CASE r.good
  <2> PICK new : new = [r EXCEPT !.served = FALSE, !.flag = r.k # "section",
                           !.k = IF r.k = "section" THEN "sections" ELSE "section"]
    OBVIOUS
  <2>1. asked' = (asked \ {r}) \cup {new}
    BY <1>4 DEF AnswerSection, Replace
  <2>2. /\ new.k = IF r.k = "section" THEN "sections" ELSE "section"
        /\ new.flag = (r.k # "section")
    BY <1>2 DEF IsRequest
  <2>3. new.k = "sections" \/ (new.k = "section" /\ new.flag)
    BY ONLY <1>1, <2>2
  <2>4. Renews(new) /\ ~IsNewest(new)
    BY ONLY <2>3 DEF Renews, IsNewest
  <2>5. Current'
    BY <1>2, <2>1, <2>4, CurrentRenewed
  <2>6. QED
    BY <1>3, <2>1, <2>5 DEF Seen
<1>5. CASE ~r.good
  <2>1. asked' = asked \ {r} /\ missed' = (missed \/ r.flag)
    BY <1>5 DEF AnswerSection
  <2>2. CASE r.flag
    <3>1. OneNewest'
      BY <1>2, <2>1 DEF Current, OneNewest
    <3>2. Current'
      BY <2>1, <2>2, <3>1 DEF Current
    <3>3. QED
      BY <1>3, <2>1, <3>2 DEF Seen
  <2>3. CASE ~r.flag
    <3>1. ~IsRead(r) /\ ~Renews(r)
      BY <1>1, <1>5, <2>3 DEF IsRead, Renews
    <3>2. QED
      BY <1>1, <2>1, <3>1, OverSeen
  <2>4. QED
    BY <2>2, <2>3
<1>6. QED
  BY <1>4, <1>5

LEMMA AnswerSectionsSeen ==
    ASSUME Typed, Seen, NEW r \in asked, AnswerSections(r)
    PROVE  Seen'
  BY LeaveSeen DEF AnswerSections

\* An edit loads for each media that is selected and whose card object is known.
LEMMA ReloadSelectedLoads ==
    ASSUME CardsTyped, NEW reqs
    PROVE  LET new == ReloadSelected(reqs)
           IN  /\ reqs \subseteq new /\ \A q \in new : q \in reqs \/ q.k = "count"
               /\ (\E m \in Picked : sel[m]) => \E q \in new : Renews(q)
<1> PICK new : new = ReloadSelected(reqs)
  OBVIOUS
<1> PICK reload : reload = [Request("count", {}) EXCEPT !.sec = sec, !.filter = filter]
  OBVIOUS
<1> DEFINE known == {m \in Picked : sel[m]}
           free == {i \in 0..Cardinality(reqs) + Cardinality(known) :
                        \A q \in reqs : q.n = i => ~Alike(q, reload)}
           numbers == {Nth(free, k) : k \in 1..Cardinality(known)}
<1>1. IsRequest(reload) /\ reload.k = "count"
  BY DEF Request, IsRequest
<1>2. new = reqs \cup {[reload EXCEPT !.n = i] : i \in numbers}
  <2>1. new = reqs \cup {[reload EXCEPT !.n = Nth(free, k)] : k \in 1..Cardinality(known)}
    BY DEF ReloadSelected
  <2>2. QED
    BY <2>1
<1>3. \A i : [reload EXCEPT !.n = i].k = "count"
  BY <1>1 DEF IsRequest
<1>4. ASSUME NEW m \in Picked, sel[m]
      PROVE  numbers # {}
  <2>1. IsFiniteSet(known) /\ known # {}
    <3>1. known \in SUBSET Media /\ m \in known
      BY <1>4 DEF CardsTyped
    <3>2. QED
      BY <3>1, MediaAssumption, FS_Subset
  <2>2. Cardinality(known) \in Nat /\ Cardinality(known) # 0
    BY <2>1, FS_CardinalityType, FS_EmptySet
  <2> HIDE DEF known
  <2>3. 1 \in 1..Cardinality(known)
    BY ONLY <2>2
  <2>4. QED
    BY <2>3
<1> HIDE DEF numbers
<1>5. \A q \in new : q \in reqs \/ q.k = "count"
  BY <1>2, <1>3
<1>6. numbers # {} => \E q \in new : q.k = "count"
  BY <1>2, <1>3
<1>7. (\E m \in Picked : sel[m]) => \E q \in new : Renews(q)
  BY <1>4, <1>6 DEF Renews
<1>8. QED
  BY <1>2, <1>5, <1>7

LEMMA AnswerEditSeen ==
    ASSUME Typed, Seen, NEW r \in asked, AnswerEdit(r)
    PROVE  Seen'
<1>1. /\ UNCHANGED <<edit, broken, start, stop, place, attr, sec, filter, latest>>
      /\ r.k = "edit" /\ r.served
      /\ missed' = (missed \/ (r.good /\ \A m \in Picked : ~sel[m]))
  BY DEF AnswerEdit, server, range
<1>2. Selection /\ Current /\ CardsTyped
  BY DEF Seen, Typed
<1> PICK after : after = IF r.good THEN ReloadSelected(asked \ {r}) ELSE asked \ {r}
  OBVIOUS
<1>3. /\ asked \ {r} \subseteq after /\ \A q \in after : q \in asked \/ q.k = "count"
      /\ r.good /\ (\E m \in Picked : sel[m]) => \E q \in after : Renews(q)
  BY <1>2, ReloadSelectedLoads
<1>4. ASSUME after \subseteq asked',
             \A q \in asked' : q \in asked \/ q.k \in {"count", "edit"}, Ticks(els', els)
      PROVE  Current' /\ (Loads(asked) => Loads(asked'))
  <2>1. \A q \in asked' : IsNewest(q) => q \in asked
    BY <1>4 DEF IsNewest
  <2>2. asked \ {r} \subseteq asked'
    BY <1>3, <1>4
  <2>3. Loads(asked) => Loads(asked')
    BY <1>1, <2>2 DEF Loads, IsRead
  <2>4. CASE r.good /\ \E m \in Picked : sel[m]
    <3>1. \E q \in asked' : Renews(q)
      BY <1>3, <1>4, <2>4
    <3>2. QED
      BY <1>2, <2>1, <2>3, <3>1, CurrentRenewed
  <2>5. CASE r.good /\ \A m \in Picked : ~sel[m]
    <3>1. missed' /\ OneNewest'
      BY <1>1, <1>2, <2>1, <2>5 DEF Current, OneNewest
    <3>2. QED
      BY <2>3, <3>1 DEF Current
  <2>6. CASE ~r.good
    <3>1. ~Renews(r) /\ ~AsksNow(r) /\ (missed => missed')
      BY <1>1, <2>6 DEF Renews, AsksNow, IsNewest
    <3>2. Current'
      BY <1>1, <1>2, <1>4, <2>1, <2>2, <3>1, CurrentStays
    <3>3. QED
      BY <2>3, <3>2
  <2>7. QED
    BY <2>4, <2>5, <2>6
<1>5. CASE r.rest # <<>>
  <2> PICK new : new = [Request("edit", Head(r.rest)) EXCEPT
                           !.rest = Tail(r.rest), !.flag = r.flag \/ ~r.good]
    OBVIOUS
  <2>1. asked' = after \cup {new} /\ sel' = sel /\ els' = els
    BY <1>5 DEF AnswerEdit
  <2>2. new.k = "edit"
    BY DEF Request
  <2>3. Current' /\ (Loads(asked) => Loads(asked'))
    BY <1>3, <1>4, <2>1, <2>2, SameTicks
  <2>4. QED
    BY <1>1, <1>2, <2>1, <2>3, SelectionStays DEF Seen
<1>6. CASE r.rest = <<>>
  <2>1. asked' = after /\ ClearSelection
    BY <1>6 DEF AnswerEdit
  <2>2. Ticks(els', els)
    BY <1>2, <2>1, UntickedSame DEF ClearSelection, Selection
  <2>3. Current' /\ (Loads(asked) => Loads(asked'))
    BY <1>3, <1>4, <2>1, <2>2
  <2>4. Selection'
    BY <1>1, <1>2, <2>1, <2>3, SelectionCleared
  <2>5. QED
    BY <2>3, <2>4 DEF Seen
<1>7. QED
  BY <1>5, <1>6

-----------------------------------------------------------------------------
LEMMA InitTyped == Init => Typed
<1> SUFFICES ASSUME Init PROVE Typed
  OBVIOUS
<1>1. DefaultSize \in Nat
  BY BoundsAssumption
<1>2. ServerTyped
  BY MediaAssumption DEF Init, ServerTyped
<1>3. ViewTyped
  BY <1>1 DEF Init, ViewTyped, NoDialog, Index
<1>4. start \in Nat /\ stop \in Int /\ els = Fresh(Now)
  <2>1. start \in Nat /\ stop \in Int
    BY <1>1 DEF Init
  <2>2. els = Fresh(Now)
    BY DEF Init, Now
  <2>3. QED
    BY <2>1, <2>2
<1>5. Now \in Seq(Entry)
  BY <1>2, <1>4, PageTyped DEF Now
<1>6. CardsTyped
  <2>1. els \in Seq(CardType)
    BY <1>4, <1>5, FreshTyped
  <2>2. stub \in Seq(CardType)
    BY DEF Init
  <2>3. Picked = {}
    BY DEF Init, Picked, Nobody, Known
  <2>4. QED
    BY <2>1, <2>2, <2>3 DEF CardsTyped
<1>7. FlagsTyped /\ AreTyped(asked)
  BY DEF Init, FlagsTyped, AreTyped
<1>8. QED
  BY <1>2, <1>3, <1>6, <1>7, InitInv DEF Typed

LEMMA InitSeen == Init => Seen
<1> SUFFICES ASSUME Init PROVE Seen
  OBVIOUS
<1> PICK page : page = Now
  OBVIOUS
<1>1. page \in Seq(Entry) /\ \A i \in DOMAIN page : page[i].val = attr[page[i].id]
  <2>1. ServerTyped /\ start \in Nat /\ stop \in Int
    BY InitTyped, BoundsAssumption DEF Typed, Init
  <2>2. QED
    BY <2>1, PageTyped DEF Now
<1>2. els = Fresh(page)
  BY DEF Init, Now
<1>3. /\ DOMAIN els = DOMAIN page
      /\ \A i \in DOMAIN page : /\ els[i].id = page[i].id /\ els[i].val = page[i].val
                                /\ ~els[i].ticked /\ els[i].shown
  BY <1>1, <1>2, FreshTyped
<1>4. \A i \in DOMAIN page : els[i] =
          [id |-> page[i].id, val |-> page[i].val, ticked |-> FALSE, shown |-> TRUE]
  BY <1>2 DEF Fresh
<1>5. ASSUME NEW i \in DOMAIN els, NEW j \in DOMAIN els, els[i].id = els[j].id
      PROVE  els[i] = els[j]
  <2>1. i \in DOMAIN page /\ j \in DOMAIN page /\ page[i].id = page[j].id
    BY <1>3, <1>5
  <2>2. page[i].val = page[j].val
    BY <1>1, <2>1
  <2>3. QED
    BY <1>4, <2>1, <2>2
<1>6. Picked = {} /\ asked = {}
  BY DEF Init, Picked, Nobody, Known
<1>7. Selection
  BY <1>3, <1>5, <1>6 DEF Selection, Unpicked, OneCard, PicksShown
<1>8. Current
  BY <1>2, <1>3, <1>6 DEF Current, OneNewest, Matches
<1>9. QED
  BY <1>7, <1>8 DEF Seen

LEMMA StepTyped == Typed /\ [Next]_vars => Typed'
<1> SUFFICES ASSUME Typed, [Next]_vars PROVE Typed'
  OBVIOUS
<1>1. Inv'
  BY StepInv DEF Typed
<1>2. ASSUME NEW r \in asked, Answer(r) PROVE Typed'
  BY <1>1, <1>2, AnswerCountTyped, AnswerListTyped, AnswerDeleteTyped, AnswerMoveTyped,
     AnswerSectionTyped, AnswerSectionsTyped, AnswerEditTyped DEF Answer
<1>3. CASE UNCHANGED vars
  <2>1. /\ UNCHANGED <<place, attr, folders, tree, sec, filter, stop, els, stub, broken, wait,
                       edit, sel, asked, acts, dialog, dim, latest, missed, skipped>>
    BY <1>3 DEF vars, server, range, gallery, picks, front, bounds, history
  <2>2. QED
    BY <1>1, <2>1 DEF Typed, AreTyped, ServerTyped, ViewTyped, CardsTyped, FlagsTyped, Picked
<1>4. QED
  BY <1>1, <1>2, <1>3, LookTyped, MarkTyped, TalkTyped, ServeTyped DEF Next

LEMMA StepSeen == Typed /\ Seen /\ [Next]_vars => Seen'
<1> SUFFICES ASSUME Typed, Seen, [Next]_vars PROVE Seen'
  OBVIOUS
<1>1. ASSUME NEW r \in asked, Answer(r) PROVE Seen'
  BY <1>1, AnswerCountSeen, AnswerListSeen, AnswerDeleteSeen, AnswerMoveSeen,
     AnswerSectionSeen, AnswerSectionsSeen, AnswerEditSeen DEF Answer
<1>2. CASE UNCHANGED vars
  <2>1. UNCHANGED <<els, sel, edit, broken, start, stop, place, attr, sec, filter, asked,
                    latest, missed>>
    BY <1>2 DEF vars, server, range, gallery, picks, history
  <2>2. Selection'
    BY <2>1, SelectionStays DEF Seen, Loads
  <2>3. Current'
    BY <2>1, SameTicks, CurrentStays DEF Seen
  <2>4. QED
    BY <2>2, <2>3 DEF Seen
<1>3. QED
  BY <1>1, <1>2, LookSeen, MarkSeen, TalkSeen, ServeSeen DEF Next

\* Every variable keeps its type, and every request under way carries what its
\* answer may put there.
THEOREM TypesHold == Spec => []TypeOK
<1>1. Spec => []Typed
  BY InitTyped, StepTyped, PTL DEF Spec
<1>2. QED
  BY <1>1, TypedSuffices, PTL

\* Under every load there is a request that will make the cards and the ticks right.
THEOREM AlwaysSeen == Spec => [](Typed /\ Seen)
  BY InitTyped, InitSeen, StepTyped, StepSeen, PTL DEF Spec

\* When all the cards are shown, they are those of the last load.
LEMMA AllShown ==
    ASSUME CardsTyped, ~broken, \A i \in DOMAIN els : els[i].shown
    PROVE  Cards = els
<1>1. {i \in DOMAIN els : els[i].shown} = DOMAIN els
  OBVIOUS
<1>2. QED
  BY <1>1, OnlyAll DEF Cards, CardsTyped

\* When everything is answered, the cards are exactly what the server has for the
\* section, filter and page that the page says, in whatever order counts, lists,
\* deletions, moves and edits were served and answered
\* (src/ui/src/js/project-detail/media-section.js, section-files.js).
THEOREM CardsKeepUp == Spec => []CardsAreCurrent
<1>1. ASSUME Typed, Seen PROVE CardsAreCurrent
  <2> SUFFICES ASSUME Quiet, latest, ~broken, ~missed, Ranged
               PROVE  /\ Len(Cards) = Len(Now)
                      /\ \A i \in DOMAIN Now : Cards[i].id = Now[i].id /\ Cards[i].val = Now[i].val
    BY DEF CardsAreCurrent, Now
  <2>1. Matches
    BY <1>1 DEF Seen, Current, Quiet
  <2>2. CardsTyped /\ ServerTyped /\ start \in Nat /\ stop \in Int
    BY <1>1 DEF Typed, Inv, Numbers, PageNumber, ViewTyped, Index, Ranged
  <2>3. Cards = els
    BY <2>1, <2>2, AllShown DEF Matches
  <2>4. Now \in Seq(Entry)
    BY <2>2, PageTyped DEF Now
  <2>5. Len(els) = Len(Now)
    BY <2>1, <2>2, <2>4 DEF Matches, CardsTyped
  <2>6. QED
    BY <2>1, <2>3, <2>5 DEF Matches
<1>2. QED
  BY <1>1, AlwaysSeen, PTL

\* When everything is answered, the ticked cards are those of the selection,
\* however clicks, loads and the answers of dialogs interleave
\* (src/ui/src/js/components/entity-gallery/entity-gallery-bulk-edit.js).
THEOREM SelectionKeepsUp == Spec => []SelectionIsShown
<1>1. ASSUME Typed, Seen PROVE SelectionIsShown
  <2> SUFFICES ASSUME Quiet, ~broken, Ranged
               PROVE  \A i \in DOMAIN Cards : Cards[i].ticked <=> Cards[i].id \in Picked
    BY DEF SelectionIsShown
  <2>1. PicksShown
    BY <1>1 DEF Seen, Selection, Quiet, Loads
  <2>2. Cards = els
    BY <1>1, <2>1, AllShown DEF Typed, PicksShown
  <2>3. QED
    BY <2>1, <2>2 DEF PicksShown
<1>2. QED
  BY <1>1, AlwaysSeen, PTL
=============================================================================
