------------------------------ MODULE HomeProofs ------------------------------
(***************************************************************************)
(* The search page with its detail screen, the data folder and the home    *)
(* window's lists, for any anime, folders, writes, loads and seconds and   *)
(* anything the user does.                                                 *)
(***************************************************************************)
EXTENDS Pages, Search, DataLocation, FiniteSetTheorems, TLAPS

-----------------------------------------------------------------------------
(* The search page.                                                        *)

Anyone    == Animes \cup {NoOne}
Requests  == [kind : {NoOne, "library", "remote", "detail"}, of : Anyone,
              current : BOOLEAN, fresh : BOOLEAN]
Pendings  == [kind : {NoOne, "remote", "detail"}, of : Anyone]
Models    == [loaded : BOOLEAN, libraryFailed : BOOLEAN, query : BOOLEAN,
              phase : {"idle", "loading", "failed"}, active : Requests, pending : Pendings,
              item : Anyone, preview : Anyone]
EpisodeLists == [kind : {NoOne, "stored", "fresh"}, of : Anyone]
Details   == [open : Anyone, list : EpisodeLists, refreshed : BOOLEAN, failed : BOOLEAN,
              answered : {"no", "ok", "failed"}]
Resources == [of : Anyone, kind : {"stored", "episodes", "lookup"}, current : BOOLEAN,
              got : {NoOne, "failed", "empty", "read"}]

SearchTypeOK ==
  /\ onSearch \in BOOLEAN /\ onDetail \in BOOLEAN /\ model \in Models /\ detail \in Details
  /\ resources \in SUBSET Resources /\ lookedUp \in SUBSET Anyone

\* The page says it is loading exactly while its current request runs.
Telling(m) == m.phase = "loading" <=> Active(m) /\ m.active.current

\* The detail on the screen, and who answers it.
Shown(m, d) == m.item = d.open /\ m.preview \in {NoOne, d.open} /\ (d.answered = "ok" => m.preview = d.open)
Awaits(m, a) == \/ m.active.kind = "detail" /\ m.active.of = a /\ m.active.current
                \/ Active(m) /\ m.pending = [kind |-> "detail", of |-> a]
OwnList(d) == /\ d.list # NoList => d.list.of = d.open
              /\ d.list.kind = "fresh" => d.refreshed

LookedUpOnce(set, looked) ==
  /\ \A r \in set : r.kind = "lookup" => r.of \in looked
  /\ \A r, s \in set : r.kind = "lookup" /\ s.kind = "lookup" /\ r.of = s.of => r = s

SearchInv ==
  /\ SearchTypeOK /\ Telling(model)
  /\ onDetail => onSearch /\ Shown(model, detail) /\ (detail.answered = "no" => Awaits(model, detail.open))
  /\ model.active.kind = "detail" /\ model.active.current => onDetail /\ model.item = model.active.of
  /\ model.pending.kind # NoOne => Active(model) /\ onSearch
  /\ OwnList(detail) /\ LookedUpOnce(resources, lookedUp)

LEMMA Requesting ==
  ASSUME NEW kind \in {"library", "remote", "detail"}, NEW a \in Anyone
  PROVE  [kind |-> kind, of |-> a, current |-> TRUE, fresh |-> TRUE] \in Requests
         /\ NoRequest \in Requests /\ NoPending \in Pendings
  BY DEF Requests, Anyone, NoRequest, Pendings, NoPending

LEMMA BeginIs ==
  ASSUME NEW m \in Models, NEW kind \in {"library", "remote", "detail"}, NEW a \in Anyone
  PROVE  LET r == Begin(m, kind, a)
         IN  /\ r \in Models /\ Telling(r) /\ Active(r)
             /\ r.active.kind = kind /\ r.active.of = a /\ r.active.current
             /\ r.item = m.item /\ r.preview = m.preview /\ r.pending = m.pending
<1> DEFINE q == [kind |-> kind, of |-> a, current |-> TRUE, fresh |-> TRUE]
<1>1. q \in Requests /\ q.kind # NoOne /\ q.kind = kind /\ q.of = a /\ q.current
  BY Requesting DEF NoOne
<1>2. Begin(m, kind, a) = [m EXCEPT !.active = q, !.phase = "loading"]
  BY DEF Begin
<1> HIDE DEF q
<1> QED
  BY <1>1, <1>2 DEF Models, Telling, Active

LEMMA InvalidateIs ==
  ASSUME NEW m \in Models
  PROVE  LET r == InvalidateRequest(m)
         IN  /\ r \in Models /\ Telling(r) /\ r.active.kind = m.active.kind /\ ~r.active.current
             /\ r.pending = m.pending
<1> DEFINE q == [m.active EXCEPT !.current = FALSE]
<1>1. m.active \in Requests
  BY DEF Models
<1>2. q \in Requests /\ q.kind = m.active.kind /\ ~q.current
  BY <1>1 DEF Requests
<1>3. InvalidateRequest(m) = [m EXCEPT !.active = q, !.preview = NoOne, !.item = NoOne, !.phase = "idle"]
  BY DEF InvalidateRequest
<1> HIDE DEF q
<1> QED
  BY <1>2, <1>3 DEF Models, Anyone, Telling

LEMMA CancelIs ==
  ASSUME NEW m \in Models
  PROVE  LET r == CancelModel(m)
         IN  /\ r \in Models /\ Telling(r) /\ r.active.kind = m.active.kind /\ ~r.active.current
             /\ r.pending = NoPending
<1> DEFINE q == InvalidateRequest(m)
<1>1. q \in Models /\ Telling(q) /\ q.active.kind = m.active.kind /\ ~q.active.current
  BY InvalidateIs
<1>2. CancelModel(m) = [q EXCEPT !.pending = NoPending]
  BY DEF CancelModel
<1>3. NoPending \in Pendings
  BY DEF NoPending, Pendings, Anyone
<1> HIDE DEF q
<1> QED
  BY <1>1, <1>2, <1>3 DEF Models, Telling, Active

LEMMA UnfreshIs ==
  ASSUME NEW m \in Models, Telling(m)
  PROVE  LET r == Unfresh(m)
         IN  /\ r \in Models /\ Telling(r) /\ r.active.kind = m.active.kind /\ r.active.of = m.active.of
             /\ r.active.current = m.active.current
             /\ r.item = m.item /\ r.preview = m.preview /\ r.pending = m.pending
<1> DEFINE q == [m.active EXCEPT !.fresh = FALSE]
<1>1. m.active \in Requests
  BY DEF Models
<1>2. q \in Requests /\ q.kind = m.active.kind /\ q.of = m.active.of /\ q.current = m.active.current
  BY <1>1 DEF Requests
<1>3. Unfresh(m) = [m EXCEPT !.active = q]
  BY DEF Unfresh
<1> HIDE DEF q
<1> QED
  BY <1>2, <1>3 DEF Models, Telling, Active

LEMMA LibraryIs ==
  ASSUME NEW m \in Models, Telling(m)
  PROVE  LET r == BeginLibrary(m)
         IN  /\ r \in Models /\ Telling(r) /\ r.item = m.item /\ r.preview = m.preview
             /\ r.pending = m.pending
             /\ \/ r = m
                \/ r.active.kind = "library" /\ ~Active(m) /\ Active(r)
<1>1. NoOne \in Anyone
  BY DEF Anyone
<1> QED
  BY <1>1, BeginIs DEF BeginLibrary

LEMMA RemoteIs ==
  ASSUME NEW m \in Models, Telling(m)
  PROVE  LET r == StartRemoteSearch(m)
         IN  /\ r \in Models /\ Telling(r) /\ r.item = m.item /\ r.preview = m.preview
             /\ \/ r = m
                \/ r.active.kind = "remote" /\ r.pending = m.pending /\ ~Active(m) /\ Active(r)
                \/ r.active = m.active /\ Active(m) /\ Active(r)
<1> DEFINE p == [kind |-> "remote", of |-> NoOne]
<1>1. NoOne \in Anyone /\ p \in Pendings
  BY DEF Anyone, Pendings
<1>2. CASE ~Active(m)
  BY <1>1, <1>2, BeginIs DEF StartRemoteSearch
<1>3. CASE Active(m)
  <2>1. StartRemoteSearch(m) \in {m, [m EXCEPT !.pending = p]}
    BY <1>3 DEF StartRemoteSearch, QueueSearch
  <2> HIDE DEF p
  <2>2. /\ [m EXCEPT !.pending = p] \in Models /\ Telling([m EXCEPT !.pending = p])
        /\ [m EXCEPT !.pending = p].active = m.active
        /\ [m EXCEPT !.pending = p].item = m.item /\ [m EXCEPT !.pending = p].preview = m.preview
    BY <1>1 DEF Models, Telling, Active
  <2> QED
    BY <1>3, <2>1, <2>2 DEF Active
<1> QED
  BY <1>2, <1>3

LEMMA DetailIs ==
  ASSUME NEW m \in Models, Telling(m), NEW a \in Anyone
  PROVE  LET r == RequestDetail(m, a)
         IN  /\ r \in Models /\ Telling(r) /\ r.item = a /\ r.preview = NoOne /\ Active(r)
             /\ Awaits(r, a) /\ (r.active.kind = "detail" /\ r.active.current => r.active.of = a)
<1>0. NoOne \in Anyone
  BY DEF Anyone
<1>1. CASE Active(m)
  <2> DEFINE n == IF m.active.current THEN InvalidateRequest(m) ELSE m
             p == [kind |-> "detail", of |-> a]
  <2>1. n \in Models /\ Telling(n) /\ Active(n) /\ ~n.active.current
    BY <1>1, InvalidateIs DEF Active
  <2>2. p \in Pendings
    BY DEF Pendings
  <2>3. RequestDetail(m, a) = [n EXCEPT !.pending = p, !.item = a, !.preview = NoOne]
    BY <1>1 DEF RequestDetail, QueueDetail
  <2> HIDE DEF n, p
  <2>4. /\ [n EXCEPT !.pending = p, !.item = a, !.preview = NoOne] \in Models
        /\ [n EXCEPT !.pending = p, !.item = a, !.preview = NoOne].active = n.active
        /\ [n EXCEPT !.pending = p, !.item = a, !.preview = NoOne].pending = p
        /\ [n EXCEPT !.pending = p, !.item = a, !.preview = NoOne].phase = n.phase
        /\ [n EXCEPT !.pending = p, !.item = a, !.preview = NoOne].item = a
        /\ [n EXCEPT !.pending = p, !.item = a, !.preview = NoOne].preview = NoOne
    BY <1>0, <2>1, <2>2 DEF Models
  <2> QED
    BY <2>1, <2>3, <2>4 DEF Telling, Active, Awaits, p
<1>2. CASE ~Active(m)
  <2> DEFINE n == Begin(m, "detail", a)
  <2>1. n \in Models /\ Telling(n) /\ Active(n) /\ n.active.kind = "detail" /\ n.active.of = a /\ n.active.current
    BY BeginIs
  <2>2. RequestDetail(m, a) = [n EXCEPT !.item = a, !.preview = NoOne]
    BY <1>2 DEF RequestDetail
  <2> HIDE DEF n
  <2>3. /\ [n EXCEPT !.item = a, !.preview = NoOne] \in Models
        /\ [n EXCEPT !.item = a, !.preview = NoOne].active = n.active
        /\ [n EXCEPT !.item = a, !.preview = NoOne].phase = n.phase
        /\ [n EXCEPT !.item = a, !.preview = NoOne].item = a
        /\ [n EXCEPT !.item = a, !.preview = NoOne].preview = NoOne
    BY <1>0, <2>1 DEF Models
  <2> QED
    BY <2>1, <2>2, <2>3 DEF Telling, Active, Awaits
<1> QED
  BY <1>1, <1>2

LEMMA FinishIs ==
  ASSUME NEW m \in Models, Telling(m), NEW ok \in BOOLEAN
  PROVE  LET r == Finish(m, ok)
         IN  /\ r \in Models /\ Telling(r) /\ ~Active(r) /\ r.item = m.item /\ r.pending = m.pending
             /\ r.preview = IF m.active.kind = "detail" /\ m.active.current /\ ok
                            THEN m.active.of ELSE m.preview
<1> DEFINE over == [m EXCEPT !.active = NoRequest]
<1>0. m.active \in Requests /\ m.active.of \in Anyone
  BY DEF Models, Requests
<1>1. /\ over \in Models /\ over.active = NoRequest /\ over.item = m.item /\ over.pending = m.pending
      /\ over.preview = m.preview /\ over.phase = m.phase /\ over.libraryFailed \in BOOLEAN
  BY Requesting DEF Models
<1>2. NoRequest.kind = NoOne /\ (~m.active.current => m.phase # "loading")
  BY DEF NoRequest, Telling
<1>3. CASE ~m.active.current
  <2>1. Finish(m, ok) = over
    BY <1>3 DEF Finish
  <2> HIDE DEF over
  <2> QED
    BY <1>1, <1>2, <1>3, <2>1 DEF Telling, Active
<1>4. CASE m.active.current /\ ~ok
  <2> DEFINE b == over.libraryFailed \/ m.active.kind = "library"
  <2>1. Finish(m, ok) = [over EXCEPT !.phase = "failed", !.libraryFailed = b]
    BY <1>1, <1>4 DEF Finish
  <2>2. b \in BOOLEAN
    BY <1>1
  <2> HIDE DEF over, b
  <2> QED
    BY <1>1, <1>2, <1>4, <2>1, <2>2 DEF Models, Telling, Active
<1>5. CASE m.active.current /\ ok /\ m.active.kind = "library"
  <2>1. Finish(m, ok) = [over EXCEPT !.phase = "idle", !.loaded = TRUE, !.libraryFailed = FALSE]
    BY <1>5 DEF Finish
  <2> DEFINE r == Finish(m, ok)
  <2> HIDE DEF over
  <2>2. r \in Models
    BY <1>1, <2>1 DEF Models
  <2>3. r.active = over.active /\ r.item = over.item /\ r.pending = over.pending
        /\ r.preview = over.preview /\ r.phase = "idle"
    BY <1>1, <2>1 DEF Models
  <2> QED
    BY <1>1, <1>2, <1>5, <2>2, <2>3 DEF Telling, Active
<1>6. CASE m.active.current /\ ok /\ m.active.kind = "detail"
  <2>1. Finish(m, ok) = [over EXCEPT !.phase = "idle", !.preview = m.active.of]
    BY <1>6 DEF Finish
  <2> HIDE DEF over
  <2> QED
    BY <1>0, <1>1, <1>2, <1>6, <2>1 DEF Models, Telling, Active
<1>7. CASE m.active.current /\ ok /\ m.active.kind \notin {"library", "detail"}
  <2>1. Finish(m, ok) = [over EXCEPT !.phase = "idle"]
    BY <1>7 DEF Finish
  <2> HIDE DEF over
  <2> QED
    BY <1>1, <1>2, <1>7, <2>1 DEF Models, Telling, Active
<1> QED
  BY <1>3, <1>4, <1>5, <1>6, <1>7

LEMMA NoDetailIs ==
  ASSUME NEW a \in Anyone
  PROVE  LET d == NoDetail(a)
         IN  d \in Details /\ d.open = a /\ d.answered = "no" /\ OwnList(d)
<1>1. NoList \in EpisodeLists /\ NoList.kind = NoOne
  BY DEF NoList, NoPending, EpisodeLists, Anyone, NoOne
<1>2. NoDetail(a) = [open |-> a, list |-> NoList, refreshed |-> FALSE, failed |-> FALSE, answered |-> "no"]
  BY DEF NoDetail
<1> HIDE DEF NoList
<1>3. NoOne # "fresh"
  BY DEF NoOne
<1> QED
  BY <1>1, <1>2, <1>3 DEF Details, OwnList

\* Leaving a detail, and what its lookups left behind.
LEMMA LeftIs ==
  ASSUME NEW set \in SUBSET Resources, NEW looked, LookedUpOnce(set, looked)
  PROVE  Left(set) \in SUBSET Resources /\ LookedUpOnce(Left(set), looked)
<1>1. ASSUME NEW r \in set
      PROVE  LET s == [r EXCEPT !.current = FALSE] IN s \in Resources /\ s.kind = r.kind /\ s.of = r.of
  BY DEF Resources
<1>2. Left(set) \in SUBSET Resources
  BY <1>1 DEF Left
<1>3. ASSUME NEW r \in Left(set)
      PROVE  \E s \in set : r = [s EXCEPT !.current = FALSE] /\ r.kind = s.kind /\ r.of = s.of
  <2>1. PICK s \in set : r = [s EXCEPT !.current = FALSE]
    BY DEF Left
  <2> QED
    BY <1>1, <2>1
<1>4. ASSUME NEW r \in Left(set), r.kind = "lookup" PROVE r.of \in looked
  BY <1>3, <1>4 DEF LookedUpOnce
<1>5. ASSUME NEW r \in Left(set), NEW s \in Left(set), r.kind = "lookup", s.kind = "lookup", r.of = s.of
      PROVE  r = s
  <2>1. PICK p \in set : r = [p EXCEPT !.current = FALSE] /\ r.kind = p.kind /\ r.of = p.of
    BY <1>3
  <2>2. PICK q \in set : s = [q EXCEPT !.current = FALSE] /\ s.kind = q.kind /\ s.of = q.of
    BY <1>3
  <2>3. p = q
    BY <1>5, <2>1, <2>2 DEF LookedUpOnce
  <2> QED
    BY <2>1, <2>2, <2>3
<1> QED
  BY <1>2, <1>4, <1>5 DEF LookedUpOnce

LEMMA OpenStep ==
  ASSUME SearchInv, NEW m \in Models, Telling(m), NEW a \in Anyone,
         OpenSearchResult(m, a), onSearch' = TRUE, lookedUp' = lookedUp
  PROVE  SearchInv'
<1>1. /\ Unfresh(m) \in Models /\ Telling(Unfresh(m))
  BY UnfreshIs
<1>2. /\ model' \in Models /\ Telling(model') /\ model'.item = a /\ model'.preview = NoOne /\ Active(model')
      /\ Awaits(model', a) /\ (model'.active.kind = "detail" /\ model'.active.current => model'.active.of = a)
  BY <1>1, DetailIs DEF OpenSearchResult
<1>3. detail' \in Details /\ detail'.open = a /\ detail'.answered = "no" /\ OwnList(detail')
  BY NoDetailIs DEF OpenSearchResult
<1>4. resources' \in SUBSET Resources /\ LookedUpOnce(resources', lookedUp')
  BY LeftIs DEF SearchInv, SearchTypeOK, OpenSearchResult
<1>5. onDetail' = TRUE /\ lookedUp' \in SUBSET Anyone
  BY DEF OpenSearchResult, SearchInv, SearchTypeOK
<1>6. SearchTypeOK'
  BY <1>2, <1>3, <1>4, <1>5 DEF SearchTypeOK
<1>7. Shown(model', detail')
  BY <1>2, <1>3 DEF Shown
<1> QED
  BY <1>2, <1>3, <1>4, <1>5, <1>6, <1>7 DEF SearchInv

\* The detail is left, and its request with it.
LEMMA LeftStep ==
  ASSUME SearchInv, onSearch' \in BOOLEAN, onDetail' = FALSE, model' \in Models, Telling(model'),
         model'.active.kind = "detail" => ~model'.active.current, model'.pending = NoPending,
         detail' = NoDetail(NoOne), resources' = Left(resources), lookedUp' = lookedUp
  PROVE  SearchInv'
<1>1. NoOne \in Anyone /\ NoPending.kind = NoOne
  BY DEF Anyone, NoPending
<1>2. detail' \in Details /\ OwnList(detail')
  BY <1>1, NoDetailIs
<1>3. resources' \in SUBSET Resources /\ LookedUpOnce(resources', lookedUp')
  BY LeftIs DEF SearchInv, SearchTypeOK
<1>4. SearchTypeOK'
  BY <1>2, <1>3 DEF SearchTypeOK, SearchInv
<1> QED
  BY <1>1, <1>2, <1>3, <1>4 DEF SearchInv

\* Only the request changes, and no detail is shown.
LEMMA ListStep ==
  ASSUME SearchInv, ~onDetail, onDetail' = FALSE, onSearch' = TRUE, model' \in Models, Telling(model'),
         model'.active.kind = "detail" => ~model'.active.current,
         model'.pending.kind # NoOne => Active(model'), UNCHANGED <<detail, resources, lookedUp>>
  PROVE  SearchInv'
<1>1. SearchTypeOK'
  BY DEF SearchTypeOK, SearchInv
<1> QED
  BY <1>1 DEF SearchInv

LEMMA UserStep ==
  ASSUME SearchInv,
         \/ ShowSearch \/ LeaveSearch \/ Back \/ RetryDetail \/ PlayFromDetail
         \/ \E a \in Animes : OpenDetail(a)
         \/ SetQuery \/ SubmitSearch
  PROVE  SearchInv'
<1>0. /\ onSearch \in BOOLEAN /\ model \in Models /\ Telling(model)
      /\ SearchTypeOK /\ model.item \in Anyone /\ model.pending \in Pendings
      /\ ~onDetail => (model.active.kind = "detail" => ~model.active.current)
  BY DEF SearchInv, SearchTypeOK, Models
<1>a. Unfresh(model) \in Models /\ Telling(Unfresh(model))
  BY <1>0, UnfreshIs
<1>b. LET m == CancelModel(Unfresh(model))
      IN  m \in Models /\ Telling(m) /\ ~m.active.current /\ m.pending = NoPending
  BY <1>a, CancelIs
<1>1. CASE ShowSearch
  <2>1. CASE onDetail
    <3> DEFINE m == CancelModel(Unfresh(model))
    <3>1. m \in Models /\ Telling(m) /\ ~m.active.current /\ m.pending = NoPending
      BY <1>b
    <3>2. model' = BeginLibrary(m)
      BY <1>1, <2>1 DEF ShowSearch
    <3> HIDE DEF m
    <3>3. /\ model' \in Models /\ Telling(model') /\ model'.pending = NoPending
          /\ model'.active.kind = "detail" => ~model'.active.current
      BY <3>1, <3>2, LibraryIs
    <3> QED
      BY <1>1, <2>1, <3>3, LeftStep DEF ShowSearch
  <2>2. CASE ~onDetail
    <3>1. model' = BeginLibrary(model) /\ onSearch' = TRUE /\ onDetail' = FALSE /\ UNCHANGED <<detail, resources, lookedUp>>
      BY <1>1, <2>2 DEF ShowSearch
    <3>2. /\ model' \in Models /\ Telling(model')
          /\ model'.active.kind = "detail" => ~model'.active.current
          /\ model'.pending.kind # NoOne => Active(model')
      BY <1>0, <2>2, <3>1, LibraryIs DEF SearchInv
    <3> QED
      BY <2>2, <3>1, <3>2, ListStep
  <2> QED
    BY <2>1, <2>2
<1>2. CASE LeaveSearch \/ Back
  <2>1. /\ model' = CancelModel(Unfresh(model)) /\ onDetail' = FALSE /\ detail' = NoDetail(NoOne)
        /\ resources' = Left(resources) /\ lookedUp' = lookedUp /\ onSearch' \in BOOLEAN
    BY <1>0, <1>2 DEF LeaveSearch, Back
  <2> QED
    BY <1>b, <2>1, LeftStep
<1>3. CASE RetryDetail
  <2>1. onSearch' = TRUE /\ lookedUp' = lookedUp /\ OpenSearchResult(model, model.item)
    BY <1>3 DEF RetryDetail, SearchInv
  <2> QED
    BY <1>0, <2>1, OpenStep
<1>4. CASE PlayFromDetail
  <2>1. /\ onDetail /\ resources' = Left(resources) /\ model' = Unfresh(model)
        /\ UNCHANGED <<onSearch, onDetail, detail, lookedUp>>
    BY <1>4 DEF PlayFromDetail
  <2>2. resources' \in SUBSET Resources /\ LookedUpOnce(resources', lookedUp')
    BY <2>1, LeftIs DEF SearchInv, SearchTypeOK
  <2>3. /\ model' \in Models /\ Telling(model') /\ model'.active.kind = model.active.kind
        /\ model'.active.of = model.active.of /\ model'.active.current = model.active.current
        /\ model'.item = model.item /\ model'.preview = model.preview /\ model'.pending = model.pending
    BY <1>0, <2>1, UnfreshIs
  <2>4. SearchTypeOK'
    BY <1>0, <2>1, <2>2, <2>3 DEF SearchTypeOK
  <2>5. /\ Shown(model', detail') <=> Shown(model, detail)
        /\ Awaits(model', detail'.open) <=> Awaits(model, detail.open)
        /\ Active(model') <=> Active(model)
    BY <2>1, <2>3 DEF Shown, Awaits, Active
  <2> QED
    BY <2>1, <2>2, <2>3, <2>4, <2>5 DEF SearchInv
<1>5. CASE \E a \in Animes : OpenDetail(a)
  <2> PICK a \in Animes : OpenDetail(a)
    BY <1>5
  <2> DEFINE m == IF onSearch THEN model ELSE BeginLibrary(model)
  <2>1. m \in Models /\ Telling(m) /\ a \in Anyone
    BY <1>0, LibraryIs DEF Anyone
  <2>2. OpenSearchResult(m, a) /\ onSearch' = TRUE /\ lookedUp' = lookedUp
    BY DEF OpenDetail
  <2> HIDE DEF m
  <2> QED
    BY <2>1, <2>2, OpenStep
<1>6. CASE SetQuery
  <2> PICK query \in BOOLEAN : model' = [CancelModel(model) EXCEPT !.query = query]
    BY <1>6 DEF SetQuery
  <2> DEFINE m == CancelModel(model)
  <2>1. m \in Models /\ Telling(m) /\ ~m.active.current /\ m.pending = NoPending
    BY <1>0, CancelIs
  <2>2. model' = [m EXCEPT !.query = query]
    OBVIOUS
  <2> HIDE DEF m
  <2>3. model' \in Models /\ Telling(model') /\ ~model'.active.current /\ model'.pending = NoPending
    BY <2>1, <2>2 DEF Models, Telling, Active
  <2>4. model'.pending.kind = NoOne
    BY <2>3 DEF NoPending
  <2>5. /\ onSearch' = TRUE /\ ~onDetail /\ onDetail' = FALSE /\ UNCHANGED <<detail, resources, lookedUp>>
    BY <1>0, <1>6 DEF SetQuery
  <2> QED
    BY <2>3, <2>4, <2>5, ListStep
<1>7. CASE SubmitSearch
  <2>1. /\ onSearch' = TRUE /\ ~onDetail /\ onDetail' = FALSE /\ UNCHANGED <<detail, resources, lookedUp>>
    BY <1>0, <1>7 DEF SubmitSearch
  <2>2. CASE model.libraryFailed /\ ~model.loaded /\ ~Active(model)
    <3> DEFINE p == [model.pending EXCEPT !.kind = "remote"]
               m == IF model.query THEN [model EXCEPT !.pending = p] ELSE model
    <3>1. p \in Pendings
      BY <1>0 DEF Pendings
    <3>2. [model EXCEPT !.pending.kind = "remote"] = [model EXCEPT !.pending = p]
      OBVIOUS
    <3>3. model' = BeginLibrary(m)
      BY <1>7, <2>2, <3>2 DEF SubmitSearch
    <3> HIDE DEF p
    <3>4. m \in Models /\ Telling(m) /\ ~Active(m) /\ m.loaded = model.loaded
      BY <1>0, <2>2, <3>1 DEF Models, Telling, Active
    <3> HIDE DEF m
    <3>5. model' = Begin(m, "library", NoOne)
      BY <2>2, <3>3, <3>4 DEF BeginLibrary
    <3>a. m \in Models /\ NoOne \in Anyone
      BY <3>4 DEF Anyone
    <3> DEFINE r == Begin(m, "library", NoOne)
    <3>b. r \in Models /\ Telling(r) /\ Active(r) /\ r.active.kind = "library"
      BY <3>a, BeginIs
    <3> HIDE DEF r
    <3>c. model' = r
      BY <3>5 DEF r
    <3>6. model' \in Models /\ Telling(model') /\ Active(model') /\ model'.active.kind = "library"
      BY <3>b, <3>c
    <3> QED
      BY <2>1, <3>6, ListStep
  <2>3. CASE ~(model.libraryFailed /\ ~model.loaded /\ ~Active(model))
    <3>1. model' = StartRemoteSearch(model)
      BY <1>7, <2>3 DEF SubmitSearch
    <3>2. /\ model' \in Models /\ Telling(model')
          /\ model'.active.kind = "detail" => ~model'.active.current
          /\ model'.pending.kind # NoOne => Active(model')
      BY <1>0, <2>1, <3>1, RemoteIs DEF SearchInv
    <3> QED
      BY <2>1, <3>2, ListStep
  <2> QED
    BY <2>2, <2>3
<1> QED
  BY <1>1, <1>2, <1>3, <1>4, <1>5, <1>6, <1>7

LEMMA LoadStep ==
  ASSUME SearchTypeOK, LookedUpOnce(resources, lookedUp), NEW a \in Anyone, LoadResources(a)
  PROVE  /\ resources' \in SUBSET Resources /\ lookedUp' \in SUBSET Anyone
         /\ LookedUpOnce(resources', lookedUp')
<1>1. PICK look \in {CanRefresh(a), FALSE} :
        /\ resources' = resources \cup
             {[of |-> a, kind |-> k, current |-> TRUE, got |-> NoOne] :
                k \in {"stored", "episodes"} \cup (IF look THEN {"lookup"} ELSE {})}
        /\ lookedUp' = IF look THEN lookedUp \cup {a} ELSE lookedUp
  BY DEF LoadResources
<1>2. look = TRUE \/ look = FALSE
  BY DEF CanRefresh
<1>3. look => a \notin lookedUp
  BY <1>1 DEF CanRefresh
<1> DEFINE new(k) == [of |-> a, kind |-> k, current |-> TRUE, got |-> NoOne]
<1>4. ASSUME NEW k \in {"stored", "episodes", "lookup"} PROVE new(k) \in Resources /\ new(k).kind = k /\ new(k).of = a
  BY DEF Resources
<1>5. /\ look => resources' = resources \cup {new("stored"), new("episodes"), new("lookup")}
      /\ ~look => resources' = resources \cup {new("stored"), new("episodes")}
  BY <1>1, <1>2
<1> HIDE DEF new
<1>6. resources \in SUBSET Resources /\ lookedUp \in SUBSET Anyone
  BY DEF SearchTypeOK
<1>7. CASE look
  <2>1. resources' \in SUBSET Resources /\ lookedUp' \in SUBSET Anyone /\ lookedUp' = lookedUp \cup {a}
    BY <1>1, <1>4, <1>5, <1>6, <1>7
  <2>2. \A r \in resources' : r.kind = "lookup" => r \in resources \/ r = new("lookup")
    BY <1>4, <1>5, <1>7
  <2>3. \A r \in resources : r.kind = "lookup" => r.of # a
    BY <1>3, <1>7 DEF LookedUpOnce
  <2> QED
    BY <1>4, <2>1, <2>2, <2>3 DEF LookedUpOnce
<1>8. CASE ~look
  <2>1. resources' \in SUBSET Resources /\ lookedUp' \in SUBSET Anyone /\ lookedUp' = lookedUp
    BY <1>1, <1>4, <1>5, <1>6, <1>8
  <2>2. \A r \in resources' : r.kind = "lookup" => r \in resources
    BY <1>4, <1>5, <1>8
  <2> QED
    BY <2>1, <2>2 DEF LookedUpOnce
<1> QED
  BY <1>2, <1>7, <1>8

LEMMA AnswerStep == SearchInv /\ RequestAnswers => SearchInv'
<1> SUFFICES ASSUME SearchInv, RequestAnswers PROVE SearchInv'
  OBVIOUS
<1>0. /\ SearchTypeOK /\ model \in Models /\ Telling(model) /\ detail \in Details
      /\ model.pending \in Pendings /\ model.pending.of \in Anyone
      /\ model.active \in Requests /\ model.active.of \in Anyone /\ onSearch \in BOOLEAN
  BY DEF SearchInv, SearchTypeOK, Models, Pendings, Requests
<1>1. PICK ok \in BOOLEAN :
        IF onSearch THEN Served(Finish(model, ok), ok)
        ELSE /\ model' = Finish(model, ok)
             /\ UNCHANGED <<onDetail, detail, resources, lookedUp>>
  BY DEF RequestAnswers
<1>2. onSearch' = onSearch
  BY DEF RequestAnswers
<1> DEFINE f == Finish(model, ok)
<1>3. /\ f \in Models /\ Telling(f) /\ ~Active(f) /\ f.item = model.item /\ f.pending = model.pending
      /\ f.preview = IF model.active.kind = "detail" /\ model.active.current /\ ok
                     THEN model.active.of ELSE model.preview
  BY <1>0, FinishIs
<1>4. CASE ~onSearch
  <2>1. model' = f /\ UNCHANGED <<onDetail, detail, resources, lookedUp>>
    BY <1>1, <1>4
  <2> HIDE DEF f
  <2>2. ~onDetail /\ model.pending.kind = NoOne /\ model'.active.kind = NoOne
    BY <1>3, <1>4, <2>1 DEF SearchInv, Active
  <2>3. SearchTypeOK'
    BY <1>0, <1>2, <1>3, <2>1 DEF SearchTypeOK
  <2>4. NoOne # "detail"
    BY DEF NoOne
  <2> QED
    BY <1>3, <2>1, <2>2, <2>3, <2>4 DEF SearchInv
<1>5. CASE onSearch /\ f.pending.kind = "detail"
  <2> DEFINE taken == [f EXCEPT !.pending = NoPending]
  <2>1. OpenSearchResult(taken, f.pending.of) /\ lookedUp' = lookedUp
    BY <1>1, <1>5 DEF Served
  <2> HIDE DEF f
  <2>2. taken \in Models /\ Telling(taken)
    BY <1>3, Requesting DEF Models, Telling, Active
  <2>3. onSearch' = TRUE
    BY <1>0, <1>2, <1>5
  <2> HIDE DEF taken
  <2> QED
    BY <1>0, <1>3, <2>1, <2>2, <2>3, OpenStep
<1>6. CASE onSearch /\ f.pending.kind # "detail"
  <2> DEFINE taken == [f EXCEPT !.pending = NoPending]
             next  == IF f.pending.kind = "remote" THEN StartRemoteSearch(taken) ELSE taken
  <2>1. model' = (IF next.libraryFailed THEN next ELSE BeginLibrary(next)) /\ Answered(ok) /\ UNCHANGED onDetail
    BY <1>1, <1>6 DEF Served
  <2>2. onSearch' = TRUE
    BY <1>0, <1>2, <1>6
  <2>3. model.pending.kind # "detail"
    BY <1>3, <1>6
  <2> HIDE DEF f
  <2>4. /\ taken \in Models /\ Telling(taken) /\ ~Active(taken) /\ taken.pending = NoPending
        /\ taken.item = f.item /\ taken.preview = f.preview
    BY <1>3, Requesting DEF Models, Telling, Active
  <2> HIDE DEF taken
  <2>5. /\ next \in Models /\ Telling(next) /\ next.pending = NoPending
        /\ next.item = f.item /\ next.preview = f.preview /\ next.active.kind # "detail"
    <3>1. taken.active.kind # "detail"
      BY <2>4 DEF Active, NoOne
    <3> QED
      BY <2>4, <3>1, RemoteIs
  <2> HIDE DEF next
  <2>6. /\ model' \in Models /\ Telling(model') /\ model'.pending.kind = NoOne
        /\ model'.item = model.item /\ model'.preview = f.preview /\ model'.active.kind # "detail"
    BY <1>3, <2>1, <2>5, LibraryIs DEF NoPending
  <2>7. CASE model.active.kind = "detail" /\ model.active.current
    <3>1. onDetail /\ model.item = model.active.of /\ Shown(model, detail) /\ model.item = detail.open
      BY <2>7 DEF SearchInv, Shown
    <3> DEFINE answer == IF ok THEN "ok" ELSE "failed"
    <3>2. detail' = [detail EXCEPT !.answered = answer]
      BY <2>1, <2>7 DEF Answered
    <3>3. answer \in {"ok", "failed"} /\ (answer = "ok" => ok)
      OBVIOUS
    <3> HIDE DEF answer
    <3>4. /\ detail' \in Details /\ detail'.answered = answer /\ detail'.open = detail.open
          /\ detail'.list = detail.list /\ detail'.refreshed = detail.refreshed
      BY <1>0, <3>2, <3>3 DEF Details
    <3>5. /\ resources' \in SUBSET Resources /\ lookedUp' \in SUBSET Anyone
          /\ LookedUpOnce(resources', lookedUp')
      <4>1. CASE LoadResources(model.active.of)
        BY <1>0, <4>1, LoadStep DEF SearchInv
      <4>2. CASE UNCHANGED <<resources, lookedUp>>
        BY <1>0, <4>2 DEF SearchInv, SearchTypeOK
      <4> QED
        BY <2>1, <2>7, <4>1, <4>2 DEF Answered
    <3>6. Shown(model', detail') /\ detail'.answered # "no"
      BY <1>3, <2>6, <2>7, <3>1, <3>3, <3>4 DEF Shown
    <3>7. OwnList(detail')
      BY <3>4 DEF SearchInv, OwnList
    <3>8. SearchTypeOK'
      BY <1>0, <1>2, <2>1, <2>6, <3>4, <3>5 DEF SearchTypeOK
    <3> QED
      BY <2>2, <2>6, <3>5, <3>6, <3>7, <3>8 DEF SearchInv
  <2>8. CASE ~(model.active.kind = "detail" /\ model.active.current)
    <3>1. UNCHANGED <<detail, resources, lookedUp>>
      BY <2>1, <2>8 DEF Answered
    <3>2. SearchTypeOK'
      BY <1>0, <1>2, <2>1, <2>6, <3>1 DEF SearchTypeOK
    <3>3. model'.preview = model.preview
      BY <1>3, <2>6, <2>8
    <3>4. ~Awaits(model, detail.open)
      BY <2>3, <2>8 DEF Awaits
    <3>5. Shown(model', detail') <=> Shown(model, detail)
      BY <2>6, <3>1, <3>3 DEF Shown
    <3> QED
      BY <2>1, <2>2, <2>6, <3>1, <3>2, <3>4, <3>5 DEF SearchInv
  <2> QED
    BY <2>7, <2>8
<1> QED
  BY <1>0, <1>4, <1>5, <1>6

\* What a resource of the detail brings.
LEMMA ReadStep == SearchInv /\ ResourceReads => SearchInv'
<1> SUFFICES ASSUME SearchInv, ResourceReads PROVE SearchInv'
  OBVIOUS
<1>0. SearchTypeOK /\ resources \in SUBSET Resources /\ LookedUpOnce(resources, lookedUp)
  BY DEF SearchInv, SearchTypeOK
<1>1. PICK r \in resources, ok \in BOOLEAN :
        resources' = (resources \ {r}) \cup
          {[r EXCEPT !.got = IF ~ok THEN "failed"
                             ELSE IF r.kind = "stored" /\ r.of \notin listed THEN "empty"
                             ELSE "read"]}
  BY DEF ResourceReads
<1> DEFINE got == IF ~ok THEN "failed"
                  ELSE IF r.kind = "stored" /\ r.of \notin listed THEN "empty" ELSE "read"
           s == [r EXCEPT !.got = got]
<1>2. got \in {"failed", "empty", "read"} /\ r \in Resources
  BY <1>0
<1> HIDE DEF got
<1>3. s \in Resources /\ s.kind = r.kind /\ s.of = r.of
  BY <1>2 DEF Resources
<1>4. resources' = (resources \ {r}) \cup {s}
  BY <1>1 DEF got
<1> HIDE DEF s
<1>5. resources' \in SUBSET Resources /\ LookedUpOnce(resources', lookedUp)
  BY <1>0, <1>3, <1>4 DEF LookedUpOnce
<1>6. UNCHANGED <<onSearch, onDetail, model, detail, lookedUp>>
  BY DEF ResourceReads
<1>7. SearchTypeOK'
  BY <1>0, <1>5, <1>6 DEF SearchTypeOK
<1> QED
  BY <1>5, <1>6, <1>7 DEF SearchInv

LEMMA ResourceStep ==
  SearchInv /\ ResourceAnswers => SearchInv' /\ (detail.list.kind = "fresh" => detail'.list.kind # "stored")
<1> SUFFICES ASSUME SearchInv, ResourceAnswers
             PROVE  SearchInv' /\ (detail.list.kind = "fresh" => detail'.list.kind # "stored")
  OBVIOUS
<1>0. /\ SearchTypeOK /\ resources \in SUBSET Resources /\ lookedUp \in SUBSET Anyone
      /\ LookedUpOnce(resources, lookedUp) /\ detail \in Details /\ OwnList(detail)
  BY DEF SearchInv, SearchTypeOK
<1>1. PICK r \in resources :
         /\ resources' = resources \ {r}
         /\ detail' = IF ~DetailRequestCurrent(r) THEN detail
                      ELSE IF r.kind = "stored" /\ r.got = "read" THEN ApplyStored(r)
                      ELSE IF r.kind = "episodes" THEN ApplyRefresh(r)
                      ELSE detail
         /\ lookedUp' = IF r.kind = "lookup" /\ (r.got = "failed" \/ ~r.current)
                        THEN lookedUp \ {r.of} ELSE lookedUp
  BY DEF ResourceAnswers
<1>2. UNCHANGED <<onSearch, onDetail, model>> /\ r.of \in Anyone
  BY <1>0 DEF ResourceAnswers, Resources
<1>3. /\ resources' \in SUBSET Resources /\ lookedUp' \in SUBSET Anyone
      /\ LookedUpOnce(resources', lookedUp')
  BY <1>0, <1>1 DEF LookedUpOnce
<1>4. /\ detail' \in Details /\ detail'.open = detail.open /\ detail'.answered = detail.answered
      /\ OwnList(detail') /\ (detail.list.kind = "fresh" => detail'.list.kind # "stored")
  <2>1. CASE detail' = detail
    BY <1>0, <2>1
  <2>2. CASE DetailRequestCurrent(r) /\ detail' = ApplyStored(r) /\ ~detail.refreshed
    <3> DEFINE l == [kind |-> "stored", of |-> r.of]
    <3>1. l \in EpisodeLists /\ l.kind = "stored" /\ l.of = r.of
      BY <1>2 DEF EpisodeLists
    <3>2. detail' = [detail EXCEPT !.list = l] /\ r.of = detail.open /\ detail.list.kind # "fresh"
      BY <1>0, <2>2 DEF ApplyStored, DetailRequestCurrent, OwnList
    <3> HIDE DEF l
    <3> QED
      BY <1>0, <3>1, <3>2 DEF Details, OwnList
  <2>3. CASE DetailRequestCurrent(r) /\ detail' = ApplyRefresh(r) /\ r.got = "failed"
    <3> DEFINE b == detail.list = NoList
    <3>1. detail' = [detail EXCEPT !.refreshed = TRUE, !.failed = b] /\ b \in BOOLEAN
      BY <2>3 DEF ApplyRefresh
    <3> HIDE DEF b
    <3> QED
      BY <1>0, <3>1 DEF Details, OwnList
  <2>4. CASE DetailRequestCurrent(r) /\ detail' = ApplyRefresh(r) /\ r.got # "failed"
    <3> DEFINE l == [kind |-> "fresh", of |-> r.of]
    <3>1. l \in EpisodeLists /\ l.kind = "fresh" /\ l.of = r.of
      BY <1>2 DEF EpisodeLists
    <3>2. /\ detail' = [detail EXCEPT !.refreshed = TRUE, !.failed = FALSE, !.list = l]
          /\ r.of = detail.open
      BY <2>4 DEF ApplyRefresh, DetailRequestCurrent
    <3> HIDE DEF l
    <3> QED
      BY <1>0, <3>1, <3>2 DEF Details, OwnList
  <2>5. detail.refreshed => ApplyStored(r) = detail
    BY DEF ApplyStored
  <2> QED
    BY <1>1, <2>1, <2>2, <2>3, <2>4, <2>5
<1>5. SearchTypeOK'
  BY <1>0, <1>2, <1>3, <1>4 DEF SearchTypeOK
<1>6. Shown(model', detail') <=> Shown(model, detail)
  BY <1>2, <1>4 DEF Shown
<1> QED
  BY <1>2, <1>3, <1>4, <1>5, <1>6 DEF SearchInv

LEMMA SearchInvHolds == SearchSpec => []SearchInv
<1>1. SearchInit => SearchInv
  <2> SUFFICES ASSUME SearchInit PROVE SearchInv
    OBVIOUS
  <2>1. NoOne \in Anyone /\ NoRequest.kind = NoOne /\ NoPending.kind = NoOne /\ NoOne # "detail"
    BY DEF Anyone, NoRequest, NoPending, NoOne
  <2>2. detail \in Details /\ OwnList(detail)
    BY <2>1, NoDetailIs DEF SearchInit
  <2> DEFINE q == NoRequest
             p == NoPending
  <2>3. /\ model = [loaded |-> FALSE, libraryFailed |-> FALSE, query |-> FALSE, phase |-> "idle",
                    active |-> q, pending |-> p, item |-> NoOne, preview |-> NoOne]
        /\ onSearch = FALSE /\ onDetail = FALSE /\ resources = {} /\ lookedUp = {}
    BY DEF SearchInit
  <2>4. q \in Requests /\ p \in Pendings /\ q.kind = NoOne /\ p.kind = NoOne
    BY <2>1, Requesting
  <2> HIDE DEF q, p
  <2>5. model \in Models /\ model.active.kind = NoOne /\ model.pending.kind = NoOne /\ Telling(model)
    BY <2>1, <2>3, <2>4 DEF Models, Telling, Active
  <2>6. SearchTypeOK /\ LookedUpOnce(resources, lookedUp)
    BY <2>2, <2>3, <2>5 DEF SearchTypeOK, LookedUpOnce
  <2> QED
    BY <2>1, <2>2, <2>3, <2>5, <2>6 DEF SearchInv
<1>2. SearchInv /\ [SearchNext]_searchVars => SearchInv'
  <2> SUFFICES ASSUME SearchInv, [SearchNext]_searchVars PROVE SearchInv'
    OBVIOUS
  <2>1. CASE UNCHANGED searchVars
    BY <2>1 DEF searchVars, SearchInv, SearchTypeOK, Shown, Awaits, Telling, OwnList, LookedUpOnce, Active
  <2> QED
    BY <2>1, UserStep, AnswerStep, ReadStep, ResourceStep DEF SearchNext
<1> QED
  BY <1>1, <1>2, PTL DEF SearchSpec

\* The detail screen shows the anime it was opened for and nothing of another,
\* the page tells the truth about loading, and no anime's metadata is looked up
\* twice at once, for any anime, opened and left in any order.
THEOREM DetailOwn == SearchSpec => []DetailIsItsAnime
<1>1. SearchInv => DetailIsItsAnime
  <2> SUFFICES ASSUME SearchInv PROVE DetailIsItsAnime
    OBVIOUS
  <2>1. ASSUME NEW a \in Animes
        PROVE  Cardinality({r \in resources : r.kind = "lookup" /\ r.of = a}) <= 1
    <3> DEFINE same == {r \in resources : r.kind = "lookup" /\ r.of = a}
    <3>1. \A r, s \in same : r = s
      BY DEF SearchInv, LookedUpOnce
    <3>2. CASE same = {}
      <4>1. Cardinality(same) = 0
        BY <3>2, FS_EmptySet
      <4> QED
        BY <4>1
    <3>3. CASE same # {}
      <4>1. PICK r \in same : same = {r}
        BY <3>1, <3>3
      <4> HIDE DEF same
      <4>2. Cardinality({r}) = 1
        BY FS_Singleton
      <4>3. Cardinality(same) = 1
        BY <4>1, <4>2
      <4> QED
        BY <4>3 DEF same
    <3> QED
      BY <3>2, <3>3
  <2>2. onDetail => onSearch /\ model.item = detail.open /\ model.preview \in {NoOne, detail.open}
                    /\ (detail.answered = "ok" => model.preview = detail.open)
    BY DEF SearchInv, Shown
  <2> QED
    BY <2>1, <2>2 DEF DetailIsItsAnime, SearchInv, OwnList, Telling
<1> QED
  BY <1>1, SearchInvHolds, PTL

\* A detail that is not answered has its request running, or waiting behind the
\* one that runs: no order of opening, leaving and answering loses it.
THEOREM DetailServed == SearchSpec => []DetailIsAnswered
<1>1. SearchInv => DetailIsAnswered
  BY DEF SearchInv, DetailIsAnswered, Awaits
<1> QED
  BY <1>1, SearchInvHolds, PTL

\* Anime1's list is never replaced by the stored one, in whatever order the two
\* goroutines of a detail answer.
THEOREM FreshStays == SearchSpec => FreshIsKept
<1>1. ASSUME SearchInv, [SearchNext]_searchVars
      PROVE  [detail.list.kind = "fresh" => detail'.list.kind # "stored"]_detail
  <2>1. ASSUME NEW a, detail' = NoDetail(a) PROVE detail'.list.kind # "stored"
    BY <2>1 DEF NoDetail, NoList, NoPending, NoOne
  <2>2. CASE ShowSearch \/ LeaveSearch \/ Back \/ RetryDetail \/ PlayFromDetail \/ SetQuery \/ SubmitSearch
    BY <2>1, <2>2 DEF ShowSearch, LeaveSearch, Back, RetryDetail, PlayFromDetail, SetQuery, SubmitSearch,
                      OpenSearchResult
  <2>3. CASE \E a \in Animes : OpenDetail(a)
    BY <2>1, <2>3 DEF OpenDetail, OpenSearchResult
  <2>4. CASE RequestAnswers
    <3>1. PICK ok \in BOOLEAN :
            IF onSearch THEN Served(Finish(model, ok), ok)
            ELSE /\ model' = Finish(model, ok)
                 /\ UNCHANGED <<onDetail, detail, resources, lookedUp>>
      BY <2>4 DEF RequestAnswers
    <3>2. \/ \E a : detail' = NoDetail(a)
          \/ Answered(ok)
          \/ detail' = detail
      BY <3>1 DEF Served, OpenSearchResult
    <3>3. Answered(ok) => detail'.list = detail.list
      <4>1. detail \in Details
        BY <1>1 DEF SearchInv, SearchTypeOK
      <4> QED
        BY <4>1 DEF Answered, Details
    <3> QED
      BY <2>1, <3>2, <3>3
  <2>5. CASE ResourceReads
    BY <2>5 DEF ResourceReads
  <2>6. CASE ResourceAnswers
    BY <1>1, <2>6, ResourceStep
  <2>7. CASE UNCHANGED searchVars
    BY <2>7 DEF searchVars
  <2> QED
    BY <1>1, <2>2, <2>3, <2>4, <2>5, <2>6, <2>7 DEF SearchNext
<1> QED
  BY <1>1, SearchInvHolds, PTL DEF SearchSpec, FreshIsKept

-----------------------------------------------------------------------------
(* The data folder.                                                        *)

Moving == move.step \notin Resting

\* A start opens the database that data-location.txt names, and what the user
\* was told is in it, but for the writes that raced with a move.
OpensConfigured ==
  /\ location # None => IsDatabase(disk[location].main)
  /\ expected \ late \subseteq Contents(Configured)
  /\ app \in {"window", "created", "running"} => plan.dir = Configured
  /\ app = "window" /\ plan.exists => disk[plan.dir].main # None
  /\ app = "created" => disk[plan.dir].main = Zero
  /\ app = "running" => IsDatabase(disk[opened].main)

\* A move works on another folder than the open one, refuses writes until it
\* ends, and what it copied is what the user was told.
MovesAreSound ==
  /\ \A w \in Writes : writer[w] = "passed" =>
       app = "running" /\ (move.step = "idle" \/ w \in IF Moving THEN racing ELSE late)
  /\ app = "running" => dataMoved = (move.step # "idle")
  /\ app = "running" => opened = Configured \/ move.step = "done"
  /\ Moving => move.dir # opened
  /\ move.restore => move.dir = Default
  /\ move.step = "done" => plan.dir # opened
  /\ move.step = "use" => move.use
  /\ move.step = "install" => expected \ (late \cup racing) \subseteq move.staged
  /\ move.step = "commit" =>
       /\ IsDatabase(disk[move.dir].main)
       /\ ~move.use => expected \ (late \cup racing) \subseteq Contents(move.dir)

\* Until the copy is installed, what a backup renamed has left its place free.
BackupsAreSound ==
  /\ move.step \in {"use", "renameMain"} => move.stamp = None
  /\ move.step \in {"renameWal", "undo"} => move.stamp # None
  /\ move.step \in {"renameWal", "vacuum", "install", "undo"} /\ move.stamp # None =>
       /\ disk[move.dir].main = None
       /\ disk[move.dir].wal = None \/ backups[<<move.dir, move.stamp>>].wal = None
       /\ move.step = "renameWal" => backups[<<move.dir, move.stamp>>].wal = None

DataInv == TypeOK /\ OpensConfigured /\ MovesAreSound /\ BackupsAreSound

LEMMA Datum ==
  /\ \A d \in SUBSET Data : IsDatabase(d) /\ Held(d) = d /\ d \in File /\ d \notin {None, Zero, Junk}
  /\ \A file \in File : Held(file) \in SUBSET Data /\ (IsDatabase(file) => file \in SUBSET Data)
  /\ None \in File /\ Zero \in File /\ ~IsDatabase(None) /\ ~IsDatabase(Zero) /\ Held(None) = {}
  BY FileAssumption DEF IsDatabase, Held, Data, File

LEMMA PairIs ==
  ASSUME NEW m \in File, NEW w \in {None} \cup SUBSET Data
  PROVE  [main |-> m, wal |-> w] \in Pair
  BY DEF Pair

LEMMA ContentsAre ==
  ASSUME TypeOK, NEW f \in Folders
  PROVE  /\ Contents(f) \in SUBSET Data
         /\ IsDatabase(disk[f].main) => disk[f].main \subseteq Contents(f)
<1>1. disk[f].main \in File /\ disk[f].wal \in File
  BY DEF TypeOK, Pair, File
<1> QED
  BY <1>1, Datum DEF Contents

LEMMA DataTypeStep == DataInv /\ [Next]_vars => TypeOK'
<1> SUFFICES ASSUME DataInv, [Next]_vars PROVE TypeOK'
  OBVIOUS
<1>0. /\ TypeOK /\ Configured \in Folders /\ Default \in Folders /\ None \notin Folders
      /\ NoPlan \in [dir : Folders \cup {None}, custom : BOOLEAN, exists : BOOLEAN]
  BY DefaultAssumption, FileAssumption DEF DataInv, TypeOK, Configured, NoPlan
<1>a. \A dir \in Folders : \A custom \in BOOLEAN :
        PlanFor(dir, custom) \in [dir : Folders \cup {None}, custom : BOOLEAN, exists : BOOLEAN]
  BY DEF PlanFor
<1>b. NoMove \in [step : Steps, dir : Folders, restore : BOOLEAN, use : BOOLEAN,
                  stamp : Stamps \cup {None}, staged : {None} \cup SUBSET Data]
      /\ NoMove.step = "idle" /\ NoMove.staged = None
  BY <1>0 DEF NoMove, Steps
<1>c. \A file \in File : file \in {None} \cup SUBSET Data => Held(file) \subseteq Data
  BY Datum
<1>1. CASE Launch
  <2>1. app = "off" /\ app' \in {"asking", "window"} /\ opened = None
        /\ UNCHANGED <<files, location, plugged, opened, dataMoved, writer, move, history>>
    BY <1>0, <1>1 DEF Launch, TypeOK
  <2>2. (location # None) \in BOOLEAN
    OBVIOUS
  <2>3. plan' \in [dir : Folders \cup {None}, custom : BOOLEAN, exists : BOOLEAN]
    BY <1>0, <1>1, <1>a, <2>2 DEF Launch
  <2>4. (opened' # None) = (app' = "running") /\ (move'.step # "idle" => app' = "running" /\ dataMoved')
    BY <1>0, <2>1 DEF TypeOK
  <2> QED
    BY <1>0, <2>1, <2>3, <2>4 DEF TypeOK, files, history
<1>2. CASE AnswerDefault
  BY <1>0, <1>2, <1>a, ContentsAre DEF AnswerDefault, TypeOK, files
<1>3. CASE Quit
  BY <1>0, <1>3 DEF Quit, TypeOK, files, history
<1>4. CASE CreateFresh
  <2>1. plan.dir \in Folders
    BY <1>0, <1>4 DEF CreateFresh, DataInv, OpensConfigured
  <2>2. disk' \in [Folders -> Pair]
    <3>1. [disk[plan.dir] EXCEPT !.main = Zero] \in Pair
      BY <1>0, <2>1, Datum DEF TypeOK, Pair
    <3> QED
      BY <1>0, <1>4, <2>1, <3>1 DEF CreateFresh, TypeOK
  <2> QED
    BY <1>0, <1>4, <2>2 DEF CreateFresh, TypeOK, history
<1>5. CASE OpenStore
  <2>1. plan.dir \in Folders
    BY <1>0, <1>5 DEF OpenStore, DataInv, OpensConfigured
  <2>2. disk' \in [Folders -> Pair]
    <3>1. [main |-> {}, wal |-> None] \in Pair
      BY Datum, PairIs
    <3> QED
      BY <1>0, <1>5, <2>1, <3>1 DEF OpenStore, TypeOK
  <2>3. move.step = "idle"
    BY <1>0, <1>5 DEF OpenStore, TypeOK
  <2> QED
    BY <1>0, <1>5, <2>1, <2>2, <2>3 DEF OpenStore, TypeOK, history
<1>6. CASE OpenFails
  BY <1>0, <1>6 DEF OpenFails, TypeOK, files, history
<1>7. ASSUME NEW w \in Writes, CheckGuard(w) \/ StoreFails(w) PROVE TypeOK'
  BY <1>0, <1>7 DEF CheckGuard, StoreFails, MayWrite, TypeOK, files, history
<1>8. ASSUME NEW w \in Writes, Store(w) PROVE TypeOK'
  <2>1. opened \in Folders
    BY <1>0, <1>8 DEF Store, TypeOK, DataInv, MovesAreSound
  <2>2. disk' \in [Folders -> Pair]
    <3> DEFINE h == Held(disk[opened].wal) \cup {w}
    <3>1. disk[opened] \in Pair /\ h \in SUBSET Data
      BY <1>0, <2>1, Datum DEF TypeOK, Pair, File, Data
    <3>2. disk' = [disk EXCEPT ![opened].wal = h]
      BY <1>8 DEF Store
    <3> HIDE DEF h
    <3>3. [disk[opened] EXCEPT !.wal = h] \in Pair
      BY <3>1 DEF Pair
    <3> QED
      BY <1>0, <2>1, <3>2, <3>3 DEF TypeOK
  <2> QED
    BY <1>0, <1>8, <2>2 DEF Store, TypeOK, Data
<1>9. CASE \E dir \in Folders, restore \in BOOLEAN, existing \in {"", "use", "overwrite"} :
             BeginMove(dir, restore, existing)
  <2> PICK dir \in Folders, restore \in BOOLEAN, existing \in {"", "use", "overwrite"} :
             BeginMove(dir, restore, existing)
    BY <1>9
  <2> DEFINE step == FirstStep(dir, existing)
             use == existing = "use" /\ disk[dir].main # None
  <2>1. step \in {"use", "renameMain", "vacuum"} /\ use \in BOOLEAN
    BY DEF FirstStep
  <2>2. move' = [NoMove EXCEPT !.step = step, !.dir = dir, !.restore = restore, !.use = use]
    BY DEF BeginMove
  <2> HIDE DEF step, use
  <2>3. /\ move' \in [step : Steps, dir : Folders, restore : BOOLEAN, use : BOOLEAN,
                      stamp : Stamps \cup {None}, staged : {None} \cup SUBSET Data]
        /\ move'.staged = None /\ move'.step = step
    BY <1>b, <2>1, <2>2 DEF Steps
  <2> QED
    BY <1>0, <2>1, <2>3 DEF BeginMove, TypeOK, files
<1>10. CASE UseExisting
  BY <1>0, <1>10 DEF UseExisting, TypeOK, files, history, Steps
<1>11. ASSUME NEW stamp \in Stamps, RenameMain(stamp) PROVE TypeOK'
  <2>1. disk' \in [Folders -> Pair] /\ backups' \in [Folders \X Stamps -> Pair]
    <3>1. move.dir \in Folders /\ disk[move.dir] \in Pair /\ backups[<<move.dir, stamp>>] \in Pair
      BY <1>0 DEF TypeOK
    <3>2. [disk[move.dir] EXCEPT !.main = None] \in Pair
      BY <3>1, Datum DEF Pair
    <3>3. [backups[<<move.dir, stamp>>] EXCEPT !.main = disk[move.dir].main] \in Pair
      BY <3>1 DEF Pair
    <3> QED
      BY <1>0, <1>11, <3>1, <3>2, <3>3 DEF RenameMain, TypeOK
  <2> QED
    BY <1>0, <1>11, <2>1 DEF RenameMain, TypeOK, history, Steps
<1>12. CASE RenameWal
  <2>1. disk' \in [Folders -> Pair] /\ backups' \in [Folders \X Stamps -> Pair]
    <3>1. /\ move.dir \in Folders /\ disk[move.dir] \in Pair
          /\ <<move.dir, move.stamp>> \in Folders \X Stamps /\ backups[<<move.dir, move.stamp>>] \in Pair
      BY <1>0, <1>12 DEF TypeOK, RenameWal, DataInv, BackupsAreSound
    <3>2. [disk[move.dir] EXCEPT !.wal = None] \in Pair
      BY <3>1 DEF Pair
    <3>3. [backups[<<move.dir, move.stamp>>] EXCEPT !.wal = disk[move.dir].wal] \in Pair
      BY <3>1 DEF Pair
    <3> QED
      BY <1>0, <1>12, <3>1, <3>2, <3>3 DEF RenameWal, TypeOK
  <2> QED
    BY <1>0, <1>12, <2>1 DEF RenameWal, TypeOK, history, Steps
<1>13. CASE Vacuum
  <2>1. Contents(opened) \in SUBSET Data /\ Contents(opened) # None
    BY <1>0, <1>13, ContentsAre, Datum DEF TypeOK, Vacuum, Steps
  <2> QED
    BY <1>0, <1>13, <2>1 DEF Vacuum, TypeOK, files, history, Steps
<1>14. CASE Install
  <2>1. disk' \in [Folders -> Pair]
    <3>1. move.dir \in Folders /\ disk[move.dir] \in Pair /\ move.staged \in SUBSET Data
      BY <1>0, <1>14 DEF TypeOK, Install
    <3>2. [disk[move.dir] EXCEPT !.main = move.staged] \in Pair
      BY <3>1, Datum DEF Pair
    <3> QED
      BY <1>0, <1>14, <3>1, <3>2 DEF Install, TypeOK
  <2> QED
    BY <1>0, <1>14, <2>1 DEF Install, TypeOK, history, Steps
<1>15. CASE StepFails
  <2>1. /\ move.step # "idle" /\ racing' \subseteq Writes /\ dataMoved' \in BOOLEAN
        /\ UNCHANGED <<disk, backups, location, plugged, app, plan, opened, writer, expected, late>>
    BY <1>0, <1>15 DEF StepFails, TypeOK, files, Resting
  <2>2. CASE move' = NoMove
    BY <1>0, <1>b, <2>1, <2>2 DEF TypeOK
  <2>3. CASE move' = [move EXCEPT !.step = "undo", !.staged = None] /\ UNCHANGED <<dataMoved, racing>>
    <3>1. /\ move' \in [step : Steps, dir : Folders, restore : BOOLEAN, use : BOOLEAN,
                        stamp : Stamps \cup {None}, staged : {None} \cup SUBSET Data]
          /\ move'.step = "undo" /\ move'.staged = None
      BY <1>0, <2>3 DEF TypeOK, Steps
    <3> QED
      BY <1>0, <2>1, <2>3, <3>1 DEF TypeOK
  <2> QED
    BY <1>15, <2>2, <2>3 DEF StepFails
<1>16. CASE \E back \in SUBSET {"main", "wal"} : Undo(back)
  <2> PICK back \in SUBSET {"main", "wal"} : Undo(back)
    BY <1>16
  <2> DEFINE p == <<move.dir, move.stamp>>
             main == "main" \in back /\ backups[p].main # None
             wal == "wal" \in back /\ backups[p].wal # None
             d == [main |-> IF main THEN backups[p].main ELSE disk[move.dir].main,
                   wal |-> IF wal THEN backups[p].wal ELSE disk[move.dir].wal]
             b == [main |-> IF main THEN None ELSE backups[p].main,
                   wal |-> IF wal THEN None ELSE backups[p].wal]
  <2>1. move.dir \in Folders /\ disk[move.dir] \in Pair /\ p \in Folders \X Stamps /\ backups[p] \in Pair
    BY <1>0 DEF TypeOK, Undo, DataInv, BackupsAreSound
  <2>2. disk' = [disk EXCEPT ![move.dir] = d] /\ backups' = [backups EXCEPT ![p] = b]
    BY DEF Undo
  <2> HIDE DEF p
  <2>3. d \in Pair /\ b \in Pair
    BY <2>1, Datum DEF Pair
  <2> HIDE DEF d, b
  <2>4. disk' \in [Folders -> Pair] /\ backups' \in [Folders \X Stamps -> Pair]
    BY <1>0, <2>1, <2>2, <2>3 DEF TypeOK
  <2> QED
    BY <1>0, <1>b, <2>4 DEF Undo, TypeOK
<1>17. CASE Commit
  <2>1. move.dir \in Folders /\ Contents(move.dir) \in SUBSET Data
    BY <1>0, ContentsAre DEF TypeOK
  <2> QED
    BY <1>0, <1>17, <2>1 DEF Commit, TypeOK, files, Steps
<1>18. CASE Close
  <2>1. disk' \in [Folders -> Pair]
    <3>1. opened \in Folders
      BY <1>0, <1>18 DEF Close, TypeOK
    <3>2. Contents(opened) \in SUBSET Data
      BY <1>0, <3>1, ContentsAre
    <3>3. [main |-> Contents(opened), wal |-> None] \in Pair
      BY <3>2, Datum, PairIs
    <3> QED
      BY <1>0, <1>18, <3>1, <3>3 DEF Close, TypeOK
  <2> QED
    BY <1>0, <1>18, <1>b, <2>1 DEF Close, Stopped, TypeOK
<1>19. CASE Crash
  BY <1>0, <1>19, <1>b DEF Crash, Stopped, TypeOK
<1>20. ASSUME NEW f \in Folders, Plug(f) PROVE TypeOK'
  BY <1>0, <1>20 DEF Plug, TypeOK, files, history
<1>21. CASE UNCHANGED vars
  BY <1>0, <1>21 DEF vars, TypeOK
<1> QED
  BY <1>1, <1>2, <1>3, <1>4, <1>5, <1>6, <1>7, <1>8, <1>9, <1>10, <1>11, <1>12, <1>13, <1>14, <1>15,
     <1>16, <1>17, <1>18, <1>19, <1>20, <1>21 DEF Next

\* What a step keeps of a folder it does not touch.
LEMMA ContentsKept == \A f : disk'[f] = disk[f] => Contents(f)' = Contents(f)
  BY DEF Contents

LEMMA OpensStep == DataInv /\ [Next]_vars => OpensConfigured'
<1> SUFFICES ASSUME DataInv, [Next]_vars PROVE OpensConfigured'
  OBVIOUS
<1>0. /\ TypeOK /\ OpensConfigured /\ MovesAreSound /\ Configured \in Folders /\ Default \in Folders
      /\ None \notin Folders
  BY DefaultAssumption, FileAssumption DEF DataInv, TypeOK, Configured
<1>a. ASSUME UNCHANGED <<disk, location, expected, late>>,
             app' \in {"window", "created", "running"} => plan'.dir = Configured,
             app' = "window" /\ plan'.exists => disk[plan'.dir].main # None,
             app' = "created" => disk[plan'.dir].main = Zero,
             app' = "running" => app = "running" /\ opened' = opened
      PROVE  OpensConfigured'
  BY <1>0, <1>a DEF OpensConfigured, Configured, Contents
<1>1. CASE Launch
  <2>1. CASE Missing
    BY <1>0, <1>1, <1>a, <2>1 DEF Launch, files, history
  <2>2. CASE ~Missing
    <3>1. /\ app' = "window" /\ plan' = PlanFor(Configured, location # None)
          /\ UNCHANGED <<disk, location, expected, late>>
      BY <1>1, <2>2 DEF Launch, files, history
    <3>2. plan'.dir = Configured /\ (plan'.exists <=> disk[Configured].main # None)
      BY <3>1 DEF PlanFor
    <3> QED
      BY <1>a, <3>1, <3>2
  <2> QED
    BY <2>1, <2>2
<1>2. CASE AnswerDefault
  BY <1>0, <1>2 DEF AnswerDefault, OpensConfigured, files, PlanFor, Configured, Contents
<1>3. CASE Quit \/ OpenFails
  <2>1. Zero # None
    BY FileAssumption
  <2> QED
    BY <1>0, <1>3, <1>a, <2>1 DEF Quit, OpenFails, files, history, OpensConfigured
<1>4. CASE CreateFresh
  <2>1. plan.dir = Configured /\ disk[plan.dir].main = None /\ expected \ late = {} /\ location = None
    BY <1>0, <1>4, Datum DEF CreateFresh, OpensConfigured, Contents, Configured
  <2>2. disk'[plan.dir].main = Zero
    BY <1>0, <1>4, <2>1 DEF CreateFresh, TypeOK, Pair
  <2> QED
    BY <1>4, <2>1, <2>2 DEF CreateFresh, OpensConfigured, Configured, history
<1>5. CASE OpenStore
  <2>1. /\ plan.dir = Configured /\ disk[plan.dir].main \notin {None, Junk}
        /\ UNCHANGED <<location, plan, expected, late>> /\ app' = "running" /\ opened' = plan.dir
        /\ Configured' = Configured
    BY <1>0, <1>5, FileAssumption DEF OpenStore, OpensConfigured, history, Configured
  <2>2. CASE disk[plan.dir].main = Zero
    <3>1. expected \ late = {}
      BY <1>0, <2>1, <2>2, Datum DEF OpensConfigured, Contents
    <3>2. disk'[plan.dir].main = {} /\ IsDatabase({})
      BY <1>0, <1>5, <2>1, <2>2, Datum DEF OpenStore, TypeOK
    <3>3. location # None => location = plan.dir
      BY <2>1 DEF Configured
    <3> QED
      BY <2>1, <3>1, <3>2, <3>3 DEF OpensConfigured
  <2>3. CASE disk[plan.dir].main # Zero
    <3>1. disk' = disk /\ IsDatabase(disk[plan.dir].main)
      BY <1>5, <2>1, <2>3 DEF OpenStore, IsDatabase
    <3> QED
      BY <1>0, <2>1, <3>1, ContentsKept DEF OpensConfigured
  <2> QED
    BY <2>2, <2>3
<1>6. ASSUME NEW w \in Writes, CheckGuard(w) \/ StoreFails(w) PROVE OpensConfigured'
  BY <1>0, <1>6, <1>a DEF CheckGuard, StoreFails, files, history, OpensConfigured
<1>7. ASSUME NEW w \in Writes, Store(w) PROVE OpensConfigured'
  <2>1. app = "running" /\ opened \in Folders
    BY <1>0, <1>7 DEF Store, TypeOK, MovesAreSound
  <2> DEFINE h == Held(disk[opened].wal) \cup {w}
  <2>2. h \in SUBSET Data /\ Held(h) = h
    BY <1>0, <2>1, Datum DEF TypeOK, Pair, File, Data
  <2>3. disk' = [disk EXCEPT ![opened].wal = h]
    BY <1>7 DEF Store
  <2>4. Held(disk[opened].wal) \subseteq h /\ w \in h
    OBVIOUS
  <2> HIDE DEF h
  <2>5. /\ \A f \in Folders : disk'[f].main = disk[f].main
        /\ \A f \in Folders \ {opened} : disk'[f] = disk[f]
        /\ disk'[opened].wal = h
    BY <1>0, <2>1, <2>3 DEF TypeOK, Pair
  <2>6. /\ IsDatabase(disk[opened].main) => Contents(opened) \subseteq Contents(opened)' /\ w \in Contents(opened)'
        /\ UNCHANGED <<location, app, plan, opened, late>> /\ expected' = expected \cup {w}
        /\ Configured' = Configured
    BY <1>7, <2>1, <2>2, <2>4, <2>5 DEF Store, Contents, Configured
  <2>7. expected' \ late' \subseteq Contents(Configured)'
    <3>1. CASE opened = Configured
      BY <1>0, <2>1, <2>6, <3>1 DEF OpensConfigured
    <3>2. CASE opened # Configured
      <4>1. move.step = "done"
        BY <1>0, <2>1, <3>2 DEF MovesAreSound
      <4>2. w \in late
        BY <1>0, <1>7, <4>1 DEF MovesAreSound, Store, Moving, Resting
      <4>3. Contents(Configured)' = Contents(Configured)
        BY <1>0, <2>5, <2>6, <3>2, ContentsKept
      <4> QED
        BY <1>0, <2>6, <4>2, <4>3 DEF OpensConfigured
    <3> QED
      BY <3>1, <3>2
  <2> QED
    BY <1>0, <2>1, <2>5, <2>6, <2>7 DEF OpensConfigured, TypeOK
<1>8. CASE \E dir \in Folders, restore \in BOOLEAN, existing \in {"", "use", "overwrite"} :
             BeginMove(dir, restore, existing)
  BY <1>0, <1>8, <1>a DEF BeginMove, files, OpensConfigured
<1>9. CASE UseExisting \/ Vacuum \/ StepFails
  BY <1>0, <1>9, <1>a DEF UseExisting, Vacuum, StepFails, files, history, OpensConfigured
<1>b. ASSUME Moving, NEW d, disk' = [disk EXCEPT ![move.dir] = d],
             UNCHANGED <<location, plan, expected, late, app, opened>>
      PROVE  OpensConfigured'
  <2>1. app = "running" /\ opened = Configured /\ move.dir # opened
    BY <1>0, <1>b DEF Moving, Resting, MovesAreSound, TypeOK
  <2>2. disk'[opened] = disk[opened] /\ Configured' = Configured /\ (location # None => location = opened)
    BY <1>0, <1>b, <2>1 DEF TypeOK, Configured
  <2> QED
    BY <1>0, <1>b, <2>1, <2>2, ContentsKept DEF OpensConfigured
<1>10. CASE \E stamp \in Stamps : RenameMain(stamp)
  BY <1>10, <1>b DEF RenameMain, history, Moving, Resting
<1>11. CASE RenameWal
  BY <1>11, <1>b DEF RenameWal, history, Moving, Resting
<1>12. CASE Install
  BY <1>12, <1>b DEF Install, history, Moving, Resting
<1>13. CASE \E back \in SUBSET {"main", "wal"} : Undo(back)
  BY <1>13, <1>b DEF Undo, Moving, Resting
<1>14. CASE Commit
  <2>1. /\ app = "running" /\ move.dir \in Folders /\ IsDatabase(disk[move.dir].main)
        /\ UNCHANGED <<disk, app, opened>> /\ plan'.dir = move.dir
        /\ location' = IF move.restore THEN None ELSE move.dir
    BY <1>0, <1>14 DEF Commit, files, TypeOK, MovesAreSound
  <2>2. Configured' = move.dir
    BY <1>0, <2>1 DEF Configured, MovesAreSound
  <2>3. expected' \ late' \subseteq Contents(move.dir)
    BY <1>0, <1>14 DEF Commit, MovesAreSound
  <2> QED
    BY <1>0, <2>1, <2>2, <2>3, ContentsKept DEF OpensConfigured
<1>15. CASE Close
  <2>1. PICK f \in Folders : f = opened
    BY <1>0, <1>15 DEF Close, TypeOK
  <2>2. /\ disk'[f] = [main |-> Contents(f), wal |-> None]
        /\ \A g \in Folders \ {f} : disk'[g] = disk[g]
    BY <1>0, <1>15, <2>1 DEF Close, TypeOK
  <2> DEFINE c == Contents(f)
  <2>3. IsDatabase(c) /\ c \cup Held(None) = c
    BY <1>0, ContentsAre, Datum
  <2>4. disk'[f].main = c /\ disk'[f].wal = None
    BY <2>2
  <2>5. Contents(f)' = IF IsDatabase(disk'[f].main) THEN disk'[f].main \cup Held(disk'[f].wal) ELSE {}
    BY DEF Contents
  <2> HIDE DEF c
  <2>6. Contents(f)' = c
    BY <2>3, <2>4, <2>5
  <2>7. UNCHANGED <<location, expected, late>> /\ app' = "off" /\ Configured' = Configured
    BY <1>15 DEF Close, Stopped, Configured
  <2>8. expected' \ late' \subseteq Contents(Configured)'
    <3>1. CASE Configured = f
      BY <1>0, <2>6, <2>7, <3>1 DEF OpensConfigured, c
    <3>2. CASE Configured # f
      BY <1>0, <2>2, <2>7, <3>2, ContentsKept DEF OpensConfigured
    <3> QED
      BY <3>1, <3>2
  <2>9. location # None => IsDatabase(disk'[location].main)
    BY <1>0, <2>2, <2>3, <2>4 DEF OpensConfigured, TypeOK
  <2> QED
    BY <2>7, <2>8, <2>9 DEF OpensConfigured
<1>16. CASE Crash
  BY <1>0, <1>16, <1>a DEF Crash, Stopped
<1>17. ASSUME NEW f \in Folders, Plug(f) PROVE OpensConfigured'
  BY <1>0, <1>17, <1>a DEF Plug, files, history
<1>18. CASE UNCHANGED vars
  BY <1>0, <1>18, <1>a DEF vars, OpensConfigured
<1> QED
  BY <1>1, <1>2, <1>3, <1>4, <1>5, <1>6, <1>7, <1>8, <1>9, <1>10, <1>11, <1>12, <1>13, <1>14, <1>15,
     <1>16, <1>17, <1>18 DEF Next

LEMMA NoMoveIs ==
  NoMove.step = "idle" /\ NoMove.restore = FALSE /\ NoMove.stamp = None /\ NoMove.staged = None
  BY DEF NoMove

LEMMA MovesStep == DataInv /\ [Next]_vars => MovesAreSound'
<1> SUFFICES ASSUME DataInv, [Next]_vars PROVE MovesAreSound'
  OBVIOUS
<1>0. TypeOK /\ OpensConfigured /\ MovesAreSound
  BY DEF DataInv
<1>a. ASSUME app # "running", app' # "running", UNCHANGED <<move, writer>>
      PROVE  MovesAreSound'
  BY <1>0, <1>a DEF MovesAreSound, TypeOK, Moving, Resting
<1>b. ASSUME move' = NoMove, dataMoved' = FALSE, app' = "running" => opened' = Configured',
             \A w \in Writes : writer'[w] = "passed" => app' = "running"
      PROVE  MovesAreSound'
  BY <1>b, NoMoveIs DEF MovesAreSound, Moving, Resting
<1>1. CASE Launch \/ AnswerDefault \/ Quit \/ CreateFresh \/ OpenFails
  BY <1>1, <1>a DEF Launch, AnswerDefault, Quit, CreateFresh, OpenFails
<1>2. CASE OpenStore
  <2>1. move.step = "idle" /\ app # "running" /\ plan.dir = Configured
    BY <1>0, <1>2 DEF OpenStore, TypeOK, OpensConfigured
  <2> QED
    BY <1>0, <1>2, <2>1 DEF OpenStore, MovesAreSound, Moving, Resting, history, Configured
<1>3. ASSUME NEW w \in Writes, CheckGuard(w) \/ StoreFails(w) PROVE MovesAreSound'
  <2>1. UNCHANGED <<move, app, opened, dataMoved, racing, late, plan, location, disk, expected>>
    BY <1>3 DEF CheckGuard, StoreFails, files, history
  <2>2. \A v \in Writes : writer'[v] = "passed" =>
          writer[v] = "passed" \/ (app = "running" /\ ~dataMoved)
    BY <1>0, <1>3 DEF CheckGuard, StoreFails, MayWrite, TypeOK
  <2>3. Contents(move.dir)' = Contents(move.dir) /\ Configured' = Configured
    BY <2>1 DEF Contents, Configured
  <2> QED
    BY <1>0, <2>1, <2>2, <2>3 DEF MovesAreSound, Moving
<1>4. ASSUME NEW w \in Writes, Store(w) PROVE MovesAreSound'
  <2>1. /\ UNCHANGED <<location, app, plan, opened, dataMoved, move, racing, late>>
        /\ expected' = expected \cup {w} /\ app = "running" /\ opened \in Folders
    BY <1>0, <1>4 DEF Store, MovesAreSound, TypeOK
  <2>2. \A v \in Writes : writer'[v] = "passed" => writer[v] = "passed"
    BY <1>0, <1>4 DEF Store, TypeOK
  <2>3. move.step \in {"install", "commit"} => w \in racing /\ Moving
    BY <1>0, <1>4 DEF Store, MovesAreSound, Moving, Resting
  <2>4. Moving => disk'[move.dir] = disk[move.dir]
    BY <1>0, <1>4, <2>1 DEF Store, MovesAreSound, TypeOK
  <2>5. Moving => Contents(move.dir)' = Contents(move.dir)
    BY <2>1, <2>4 DEF Contents
  <2>6. Configured' = Configured /\ Moving' = Moving
    BY <2>1 DEF Configured, Moving
  <2>7. /\ move.step = "install" => expected' \ (late \cup racing) \subseteq move.staged
        /\ move.step = "commit" =>
             /\ IsDatabase(disk'[move.dir].main)
             /\ ~move.use => expected' \ (late \cup racing) \subseteq Contents(move.dir)'
    BY <1>0, <2>1, <2>3, <2>4, <2>5 DEF MovesAreSound
  <2> QED
    BY <1>0, <2>1, <2>2, <2>6, <2>7 DEF MovesAreSound
<1>5. CASE \E dir \in Folders, restore \in BOOLEAN, existing \in {"", "use", "overwrite"} :
             BeginMove(dir, restore, existing)
  <2> PICK dir \in Folders, restore \in BOOLEAN, existing \in {"", "use", "overwrite"} :
             BeginMove(dir, restore, existing)
    BY <1>5
  <2> DEFINE step == FirstStep(dir, existing)
             use == existing = "use" /\ disk[dir].main # None
  <2>1. step \in {"use", "renameMain", "vacuum"} /\ use \in BOOLEAN /\ (step = "use" => use)
    BY DEF FirstStep
  <2>2. /\ move' = [NoMove EXCEPT !.step = step, !.dir = dir, !.restore = restore, !.use = use]
        /\ dataMoved' = TRUE /\ racing' = {w \in Writes : writer[w] = "passed"} /\ app = "running"
        /\ UNCHANGED <<location, app, plan, opened, writer>> /\ dir # opened /\ (restore => dir = Default)
        /\ move.step \in Resting /\ ~dataMoved
    BY DEF BeginMove, Allowed
  <2> HIDE DEF step, use
  <2>3. move'.step = step /\ move'.dir = dir /\ move'.restore = restore /\ move'.use = use
    BY <2>2 DEF NoMove
  <2>4. opened = Configured /\ Configured' = Configured
    BY <1>0, <2>2 DEF MovesAreSound, Configured, TypeOK
  <2>5. Moving'
    BY <2>1, <2>3 DEF Moving, Resting
  <2> QED
    BY <2>1, <2>2, <2>3, <2>4, <2>5 DEF MovesAreSound
<1>c. ASSUME Moving, Moving', NEW step, move'.step = step, step \notin {"use", "done"},
             UNCHANGED <<location, plan, app, opened, dataMoved, writer, racing, late, expected>>,
             move'.dir = move.dir, move'.restore = move.restore, move'.use = move.use,
             step = "install" => expected \ late \subseteq move'.staged,
             step = "commit" => IsDatabase(disk'[move.dir].main)
                                /\ (~move.use => expected \ (late \cup racing) \subseteq Contents(move.dir)')
      PROVE  MovesAreSound'
  <2>1. move.step # "idle" /\ step # "idle" /\ move.step # "done"
    BY <1>c DEF Moving, Resting
  <2>2. Configured' = Configured /\ app = "running"
    BY <1>0, <1>c, <2>1 DEF Configured, TypeOK
  <2>3. \A w \in Writes : writer'[w] = "passed" => app' = "running" /\ w \in racing'
    BY <1>0, <1>c, <2>1 DEF MovesAreSound
  <2>4. /\ app' = "running" /\ dataMoved' = TRUE /\ opened' = Configured' /\ move'.dir # opened'
        /\ move'.restore => move'.dir = Default
    BY <1>0, <1>c, <2>1, <2>2 DEF MovesAreSound, TypeOK
  <2> QED
    BY <1>c, <2>1, <2>2, <2>3, <2>4 DEF MovesAreSound
<1>6. CASE UseExisting
  <2>1. /\ move.step = "use" /\ IsDatabase(disk[move.dir].main) /\ disk' = disk
        /\ move' = [move EXCEPT !.step = "commit"] /\ move.use
        /\ UNCHANGED <<location, plan, app, opened, dataMoved, writer, racing, late, expected>>
    BY <1>0, <1>6 DEF UseExisting, Validates, files, history, MovesAreSound
  <2>2. move'.step = "commit" /\ move'.dir = move.dir /\ move'.restore = move.restore /\ move'.use = move.use
    BY <1>0, <2>1 DEF TypeOK
  <2> QED
    BY <1>c, <2>1, <2>2 DEF Moving, Resting
<1>7. ASSUME NEW stamp \in Stamps, RenameMain(stamp) PROVE MovesAreSound'
  <2>1. /\ move.step = "renameMain" /\ move' = [move EXCEPT !.step = "renameWal", !.stamp = stamp]
        /\ UNCHANGED <<location, plan, app, opened, dataMoved, writer, racing, late, expected>>
    BY <1>7 DEF RenameMain, history
  <2>2. move'.step = "renameWal" /\ move'.dir = move.dir /\ move'.restore = move.restore /\ move'.use = move.use
    BY <1>0, <2>1 DEF TypeOK
  <2> QED
    BY <1>c, <2>1, <2>2 DEF Moving, Resting
<1>8. CASE RenameWal
  <2>1. /\ move.step = "renameWal" /\ move' = [move EXCEPT !.step = "vacuum"]
        /\ UNCHANGED <<location, plan, app, opened, dataMoved, writer, racing, late, expected>>
    BY <1>8 DEF RenameWal, history
  <2>2. move'.step = "vacuum" /\ move'.dir = move.dir /\ move'.restore = move.restore /\ move'.use = move.use
    BY <1>0, <2>1 DEF TypeOK
  <2> QED
    BY <1>c, <2>1, <2>2 DEF Moving, Resting
<1>9. CASE Vacuum
  <2>1. /\ move.step = "vacuum" /\ move' = [move EXCEPT !.step = "install", !.staged = Contents(opened)]
        /\ UNCHANGED <<location, plan, app, opened, dataMoved, writer, racing, late, expected>>
    BY <1>9 DEF Vacuum, history
  <2>2. /\ move'.step = "install" /\ move'.dir = move.dir /\ move'.restore = move.restore /\ move'.use = move.use
        /\ move'.staged = Contents(opened)
    BY <1>0, <2>1 DEF TypeOK
  <2>3. opened = Configured
    BY <1>0, <2>1 DEF MovesAreSound, TypeOK
  <2>4. expected \ late \subseteq move'.staged
    BY <1>0, <2>2, <2>3 DEF OpensConfigured
  <2> QED
    BY <1>c, <2>1, <2>2, <2>4 DEF Moving, Resting
<1>10. CASE Install
  <2>1. /\ move.step = "install" /\ move' = [move EXCEPT !.step = "commit", !.staged = None]
        /\ disk' = [disk EXCEPT ![move.dir].main = move.staged]
        /\ UNCHANGED <<location, plan, app, opened, dataMoved, writer, racing, late, expected>>
    BY <1>10 DEF Install, history
  <2>2. /\ move'.step = "commit" /\ move'.dir = move.dir /\ move'.restore = move.restore /\ move'.use = move.use
        /\ move.staged \in SUBSET Data /\ move.dir \in Folders
    BY <1>0, <2>1 DEF TypeOK
  <2>3. disk'[move.dir].main = move.staged /\ IsDatabase(move.staged)
    BY <1>0, <2>1, <2>2, Datum DEF TypeOK, Pair
  <2>4. move.staged \subseteq Contents(move.dir)'
    BY <2>2, <2>3 DEF Contents
  <2>5. expected \ (late \cup racing) \subseteq Contents(move.dir)'
    BY <1>0, <2>1, <2>4 DEF MovesAreSound
  <2> QED
    BY <1>c, <2>1, <2>2, <2>3, <2>5 DEF Moving, Resting
<1>11. CASE StepFails
  <2>1. Moving /\ move.step # "undo" /\ UNCHANGED <<location, plan, app, opened, writer, late, expected>>
    BY <1>11 DEF StepFails, Moving
  <2>2. CASE move' = NoMove /\ dataMoved' = FALSE
    <3>1. opened = Configured /\ Configured' = Configured
      BY <1>0, <2>1 DEF MovesAreSound, Moving, Resting, TypeOK, Configured
    <3> QED
      BY <1>0, <1>b, <2>1, <2>2, <3>1 DEF MovesAreSound
  <2>3. CASE move' = [move EXCEPT !.step = "undo", !.staged = None] /\ UNCHANGED <<dataMoved, racing>>
    <3>1. move'.step = "undo" /\ move'.dir = move.dir /\ move'.restore = move.restore /\ move'.use = move.use
      BY <1>0, <2>3 DEF TypeOK
    <3>2. Moving'
      BY <3>1 DEF Moving, Resting
    <3> QED
      BY <1>c, <2>1, <2>3, <3>1, <3>2
  <2> QED
    BY <1>11, <2>2, <2>3 DEF StepFails
<1>12. CASE \E back \in SUBSET {"main", "wal"} : Undo(back)
  <2>1. /\ move.step = "undo" /\ move' = NoMove /\ dataMoved' = FALSE
        /\ UNCHANGED <<location, plan, app, opened, writer, late, expected>>
    BY <1>12 DEF Undo
  <2>2. opened = Configured /\ Configured' = Configured
    BY <1>0, <2>1 DEF MovesAreSound, TypeOK, Configured
  <2> QED
    BY <1>0, <1>b, <2>1, <2>2 DEF MovesAreSound
<1>13. CASE Commit
  <2>1. /\ move.step = "commit" /\ move' = [move EXCEPT !.step = "done"] /\ late' = late \cup racing
        /\ plan' = [plan EXCEPT !.dir = move.dir, !.custom = ~move.restore]
        /\ UNCHANGED <<app, opened, dataMoved, writer>>
    BY <1>13 DEF Commit
  <2>2. /\ move'.step = "done" /\ move'.dir = move.dir /\ move'.restore = move.restore /\ plan'.dir = move.dir
        /\ app = "running" /\ ~Moving'
    BY <1>0, <2>1 DEF TypeOK, Moving, Resting
  <2>3. \A w \in Writes : writer[w] = "passed" => w \in late'
    BY <1>0, <2>1 DEF MovesAreSound, Moving, Resting
  <2>4. move.dir # opened /\ dataMoved = TRUE
    BY <1>0, <2>1, <2>2 DEF MovesAreSound, Moving, Resting, TypeOK
  <2> QED
    BY <1>0, <2>1, <2>2, <2>3, <2>4 DEF MovesAreSound
<1>14. CASE Close \/ Crash
  <2>1. move' = NoMove /\ dataMoved' = FALSE /\ app' = "off"
    BY <1>14 DEF Close, Crash, Stopped
  <2>2. \A w \in Writes : writer'[w] # "passed"
    BY <1>0, <1>14 DEF Close, Crash, TypeOK
  <2> QED
    BY <1>b, <2>1, <2>2
<1>15. ASSUME NEW f \in Folders, Plug(f) PROVE MovesAreSound'
  BY <1>15, <1>a DEF Plug
<1>16. CASE UNCHANGED vars
  BY <1>0, <1>16 DEF vars, MovesAreSound, Moving, Contents, Configured
<1> QED
  BY <1>1, <1>2, <1>3, <1>4, <1>5, <1>6, <1>7, <1>8, <1>9, <1>10, <1>11, <1>12, <1>13, <1>14, <1>15, <1>16 DEF Next

\* The place of a backup: of a folder and a second.
Place == <<move.dir, move.stamp>>

LEMMA BackupsStep == DataInv /\ [Next]_vars => BackupsAreSound'
<1> SUFFICES ASSUME DataInv, [Next]_vars PROVE BackupsAreSound'
  OBVIOUS
<1>0. TypeOK /\ MovesAreSound /\ BackupsAreSound /\ None \notin Stamps
  BY FileAssumption DEF DataInv
<1>a. ASSUME move'.step \in Resting PROVE BackupsAreSound'
  BY <1>a DEF BackupsAreSound, Resting
<1>b. ASSUME ~Moving, UNCHANGED move PROVE BackupsAreSound'
  BY <1>a, <1>b DEF Moving
<1>1. CASE Launch \/ AnswerDefault \/ Quit \/ CreateFresh \/ OpenStore \/ OpenFails
  <2>1. ~Moving
    BY <1>0, <1>1 DEF Launch, AnswerDefault, Quit, CreateFresh, OpenStore, OpenFails, TypeOK, Moving, Resting
  <2> QED
    BY <1>1, <1>b, <2>1 DEF Launch, AnswerDefault, Quit, CreateFresh, OpenStore, OpenFails
<1>2. ASSUME NEW w \in Writes, CheckGuard(w) \/ StoreFails(w) PROVE BackupsAreSound'
  BY <1>0, <1>2 DEF CheckGuard, StoreFails, files, BackupsAreSound
<1>3. ASSUME NEW w \in Writes, Store(w) PROVE BackupsAreSound'
  <2>1. UNCHANGED <<move, backups>> /\ (Moving => disk'[move.dir] = disk[move.dir])
    BY <1>0, <1>3 DEF Store, MovesAreSound, TypeOK
  <2> QED
    BY <1>0, <2>1 DEF BackupsAreSound, Moving, Resting
<1>4. CASE \E dir \in Folders, restore \in BOOLEAN, existing \in {"", "use", "overwrite"} :
             BeginMove(dir, restore, existing)
  <2> PICK dir \in Folders, restore \in BOOLEAN, existing \in {"", "use", "overwrite"} :
             BeginMove(dir, restore, existing)
    BY <1>4
  <2> DEFINE step == FirstStep(dir, existing)
  <2>1. move'.step = step /\ move'.stamp = None
    BY DEF BeginMove, NoMove
  <2>2. step \in {"use", "renameMain", "vacuum"}
    BY DEF FirstStep
  <2> HIDE DEF step
  <2> QED
    BY <2>1, <2>2 DEF BackupsAreSound
<1>5. CASE UseExisting \/ Install
  <2>1. move'.step = "commit"
    BY <1>0, <1>5 DEF UseExisting, Install, TypeOK
  <2> QED
    BY <2>1 DEF BackupsAreSound
<1>6. ASSUME NEW stamp \in Stamps, RenameMain(stamp) PROVE BackupsAreSound'
  <2>1. /\ move' = [move EXCEPT !.step = "renameWal", !.stamp = stamp] /\ move.dir \in Folders
        /\ disk' = [disk EXCEPT ![move.dir].main = None]
        /\ backups' = [backups EXCEPT ![<<move.dir, stamp>>].main = disk[move.dir].main]
        /\ backups[<<move.dir, stamp>>] = [main |-> None, wal |-> None]
        /\ <<move.dir, stamp>> \in Folders \X Stamps
    BY <1>0, <1>6 DEF RenameMain, TypeOK, StampIsFree
  <2>2. move'.step = "renameWal" /\ move'.dir = move.dir /\ move'.stamp = stamp
    BY <1>0, <2>1 DEF TypeOK
  <2>3. disk'[move.dir].main = None
    BY <1>0, <2>1 DEF TypeOK, Pair
  <2> DEFINE p == <<move.dir, stamp>>
             d == disk[move.dir].main
  <2>4. backups' = [backups EXCEPT ![p].main = d] /\ p \in Folders \X Stamps /\ backups[p].wal = None
    BY <2>1
  <2> HIDE DEF p, d
  <2>5. backups'[p].wal = None
    BY <1>0, <2>4 DEF TypeOK, Pair
  <2> QED
    BY <1>0, <2>2, <2>3, <2>5 DEF BackupsAreSound, p
<1>7. CASE RenameWal
  <2>1. /\ move' = [move EXCEPT !.step = "vacuum"] /\ move.dir \in Folders /\ move.stamp # None
        /\ disk' = [disk EXCEPT ![move.dir].wal = None] /\ disk[move.dir].main = None
    BY <1>0, <1>7 DEF RenameWal, TypeOK, BackupsAreSound
  <2>2. move'.step = "vacuum" /\ move'.dir = move.dir /\ move'.stamp = move.stamp
    BY <1>0, <2>1 DEF TypeOK
  <2>3. disk'[move.dir].main = None /\ disk'[move.dir].wal = None
    BY <1>0, <2>1 DEF TypeOK, Pair
  <2> QED
    BY <2>2, <2>3 DEF BackupsAreSound
<1>8. CASE Vacuum
  <2>1. UNCHANGED <<disk, backups>> /\ move.step = "vacuum"
        /\ move' = [move EXCEPT !.step = "install", !.staged = Contents(opened)]
    BY <1>8 DEF Vacuum, files
  <2>2. move'.step = "install" /\ move'.dir = move.dir /\ move'.stamp = move.stamp
    BY <1>0, <2>1 DEF TypeOK
  <2> QED
    BY <1>0, <2>1, <2>2 DEF BackupsAreSound
<1>9. CASE StepFails
  <2>1. CASE move' = NoMove
    BY <1>a, <2>1, NoMoveIs DEF Resting
  <2>2. CASE move.stamp # None /\ move.step # "commit" /\ move' = [move EXCEPT !.step = "undo", !.staged = None]
    <3>1. move'.step = "undo" /\ move'.dir = move.dir /\ move'.stamp = move.stamp /\ UNCHANGED <<disk, backups>>
      BY <1>0, <1>9, <2>2 DEF TypeOK, StepFails, files
    <3>2. move.step \in {"renameWal", "vacuum", "install"}
      BY <1>0, <1>9, <2>2 DEF TypeOK, StepFails, Steps, Resting, BackupsAreSound
    <3> QED
      BY <1>0, <2>2, <3>1, <3>2 DEF BackupsAreSound
  <2> QED
    BY <1>9, <2>1, <2>2 DEF StepFails
<1>10. CASE \E back \in SUBSET {"main", "wal"} : Undo(back)
  BY <1>10, <1>a, NoMoveIs DEF Undo, Resting
<1>11. CASE Commit
  <2>1. move'.step = "done"
    BY <1>0, <1>11 DEF Commit, TypeOK
  <2> QED
    BY <1>a, <2>1 DEF Resting
<1>12. CASE Close \/ Crash
  BY <1>12, <1>a, NoMoveIs DEF Close, Crash, Stopped, Resting
<1>13. ASSUME NEW f \in Folders, Plug(f) PROVE BackupsAreSound'
  BY <1>0, <1>13 DEF Plug, files, BackupsAreSound
<1>14. CASE UNCHANGED vars
  BY <1>0, <1>14 DEF vars, BackupsAreSound
<1> QED
  BY <1>1, <1>2, <1>3, <1>4, <1>5, <1>6, <1>7, <1>8, <1>9, <1>10, <1>11, <1>12, <1>13, <1>14 DEF Next

LEMMA DataInvHolds == Spec => []DataInv
<1>1. Init => DataInv
  <2> SUFFICES ASSUME Init PROVE DataInv
    OBVIOUS
  <2>1. /\ None \notin Folders /\ Default \in Folders /\ Configured = Default
        /\ NoPlan \in [dir : Folders \cup {None}, custom : BOOLEAN, exists : BOOLEAN]
        /\ NoMove \in [step : Steps, dir : Folders, restore : BOOLEAN, use : BOOLEAN,
                       stamp : Stamps \cup {None}, staged : {None} \cup SUBSET Data]
    BY DefaultAssumption, FileAssumption DEF NoPlan, NoMove, Steps, Configured, Init
  <2>2. disk \in [Folders -> Pair]
    <3>1. [main : {None, Junk} \cup SUBSET Kept, wal : {None} \cup SUBSET Kept] \subseteq Pair
      BY DEF Pair, File, Data
    <3> QED
      BY <3>1 DEF Init
  <2>3. backups \in [Folders \X Stamps -> Pair]
    BY Datum, PairIs DEF Init
  <2>4. TypeOK
    BY <2>1, <2>2, <2>3, NoMoveIs DEF Init, TypeOK
  <2> QED
    BY <2>1, <2>4, NoMoveIs
    DEF Init, DataInv, OpensConfigured, MovesAreSound, BackupsAreSound, Moving, Resting
<1>2. DataInv /\ [Next]_vars => DataInv'
  BY DataTypeStep, OpensStep, MovesStep, BackupsStep DEF DataInv
<1> QED
  BY <1>1, <1>2, PTL DEF Spec

\* What the user was told is in the data is in the database the next start
\* opens, at every step of a move and after every crash, whatever folders hold
\* and whichever step fails; but for what was past the guard as a move began.
THEOREM DataStays == Spec => []ExpectedIsOpened
<1>1. DataInv => ExpectedIsOpened
  <2> SUFFICES ASSUME DataInv PROVE ExpectedIsOpened
    OBVIOUS
  <2>1. app = "running" /\ move.step \in Resting =>
          plan.dir = Configured /\ (dataMoved <=> plan.dir # opened)
    BY DEF DataInv, OpensConfigured, MovesAreSound, Resting, TypeOK
  <2> QED
    BY <2>1 DEF ExpectedIsOpened, DataInv, OpensConfigured
<1> QED
  BY <1>1, DataInvHolds, PTL

\* Where the files are.
LEMMA FilesAre ==
  ASSUME TypeOK
  PROVE  /\ \A f \in Folders : disk[f].main \in AllFiles /\ disk[f].wal \in AllFiles
         /\ \A p \in Folders \X Stamps : backups[p].main \in AllFiles /\ backups[p].wal \in AllFiles
         /\ \A file \in AllFiles :
              \/ \E f \in Folders : file \in {disk[f].main, disk[f].wal}
              \/ \E p \in Folders \X Stamps : file \in {backups[p].main, backups[p].wal}
  BY DEF AllFiles, FilesOf, TypeOK

LEMMA FilesStep ==
  ASSUME DataInv, [Next]_vars, Moving, NEW file \in AllFiles, file \notin {None, Zero}
  PROVE  \E held \in AllFiles' : held = file \/ (IsDatabase(file) /\ file \subseteq Held(held))
<1> DEFINE Stays == \E held \in AllFiles' : held = file \/ (IsDatabase(file) /\ file \subseteq Held(held))
<1>0. TypeOK /\ TypeOK' /\ MovesAreSound /\ BackupsAreSound /\ app = "running"
  BY DataTypeStep DEF DataInv, TypeOK, Moving, Resting
<1>a. /\ \A f \in Folders : disk'[f].main \in AllFiles' /\ disk'[f].wal \in AllFiles'
      /\ \A p \in Folders \X Stamps : backups'[p].main \in AllFiles' /\ backups'[p].wal \in AllFiles'
  BY <1>0 DEF AllFiles, FilesOf, TypeOK
<1>b. \/ \E f \in Folders : file \in {disk[f].main, disk[f].wal}
      \/ \E p \in Folders \X Stamps : file \in {backups[p].main, backups[p].wal}
  BY <1>0, FilesAre
<1>c. UNCHANGED <<disk, backups>> => Stays
  BY DEF AllFiles, FilesOf
<1>d. /\ move.dir \in Folders /\ disk[move.dir] \in Pair
      /\ move.step \in {"renameWal", "undo"} => Place \in Folders \X Stamps /\ backups[Place] \in Pair
  BY <1>0 DEF TypeOK, BackupsAreSound, Place
<1>1. CASE Launch \/ AnswerDefault \/ Quit \/ CreateFresh \/ OpenStore \/ OpenFails \/ Close
  BY <1>0, <1>1 DEF Launch, AnswerDefault, Quit, CreateFresh, OpenStore, OpenFails, Close, Moving
<1>2. CASE \/ \E w \in Writes : CheckGuard(w) \/ StoreFails(w)
           \/ \E dir \in Folders, restore \in BOOLEAN, existing \in {"", "use", "overwrite"} :
                 BeginMove(dir, restore, existing)
           \/ UseExisting \/ Vacuum \/ StepFails \/ Commit \/ Crash
           \/ \E f \in Folders : Plug(f)
           \/ UNCHANGED vars
  BY <1>2, <1>c DEF CheckGuard, StoreFails, BeginMove, UseExisting, Vacuum, StepFails, Commit, Crash, Stopped,
                    Plug, files, vars
<1>3. ASSUME NEW w \in Writes, Store(w) PROVE Stays
  <2> DEFINE h == Held(disk[opened].wal) \cup {w}
  <2>1. opened \in Folders /\ UNCHANGED backups /\ disk' = [disk EXCEPT ![opened].wal = h]
    BY <1>0, <1>3 DEF Store, TypeOK
  <2>2. h \in SUBSET Data /\ Held(disk[opened].wal) \subseteq h /\ Held(h) = h
    <3>1. disk[opened].wal \in File
      BY <1>0, <2>1 DEF TypeOK, Pair, File
    <3>2. Held(disk[opened].wal) \in SUBSET Data /\ w \in Data
      BY <3>1, Datum DEF Data
    <3>3. h \in SUBSET Data /\ Held(disk[opened].wal) \subseteq h
      BY <3>2
    <3> HIDE DEF h
    <3> QED
      BY <3>3, Datum
  <2>3. disk[opened].wal # None => IsDatabase(disk[opened].wal) /\ Held(disk[opened].wal) = disk[opened].wal
    BY <1>0, <2>1, Datum DEF TypeOK, Pair
  <2> HIDE DEF h
  <2>4. /\ \A f \in Folders : disk'[f].main = disk[f].main
        /\ \A f \in Folders \ {opened} : disk'[f].wal = disk[f].wal
        /\ disk'[opened].wal = h
    BY <1>0, <2>1 DEF TypeOK, Pair
  <2>5. CASE file = disk[opened].wal
    BY <1>a, <2>1, <2>2, <2>3, <2>4, <2>5
  <2>6. CASE file # disk[opened].wal
    BY <1>a, <1>b, <2>1, <2>4, <2>6
  <2> QED
    BY <2>5, <2>6
<1>4. ASSUME NEW stamp \in Stamps, RenameMain(stamp) PROVE Stays
  <2> DEFINE p == <<move.dir, stamp>>
             d == disk[move.dir].main
  <2>1. /\ disk' = [disk EXCEPT ![move.dir].main = None] /\ backups' = [backups EXCEPT ![p].main = d]
        /\ p \in Folders \X Stamps /\ backups[p].main = None /\ backups[p].wal = None
    BY <1>4, <1>d DEF RenameMain, StampIsFree
  <2> HIDE DEF p
  <2>2. /\ \A f \in Folders : disk'[f].wal = disk[f].wal /\ (f = move.dir \/ disk'[f].main = disk[f].main)
        /\ \A q \in Folders \X Stamps : q = p \/ backups'[q] = backups[q]
        /\ backups'[p].main = d
    BY <1>0, <1>d, <2>1 DEF TypeOK, Pair
  <2> QED
    BY <1>a, <1>b, <2>1, <2>2
<1>5. CASE RenameWal
  <2> DEFINE d == disk[move.dir].wal
  <2>1. /\ move.step = "renameWal" /\ disk' = [disk EXCEPT ![move.dir].wal = None]
        /\ backups' = IF d = None THEN backups ELSE [backups EXCEPT ![Place].wal = d]
        /\ Place \in Folders \X Stamps /\ backups[Place].wal = None
    BY <1>0, <1>5, <1>d DEF RenameWal, BackupsAreSound, Place
  <2> HIDE DEF Place
  <2>2. /\ \A f \in Folders : disk'[f].main = disk[f].main /\ (f = move.dir \/ disk'[f].wal = disk[f].wal)
        /\ \A q \in Folders \X Stamps : backups'[q].main = backups[q].main
                                        /\ (q = Place \/ backups'[q].wal = backups[q].wal)
        /\ d # None => backups'[Place].wal = d
    BY <1>0, <1>d, <2>1 DEF TypeOK, Pair
  <2> QED
    BY <1>a, <1>b, <2>1, <2>2
<1>6. CASE Install
  <2>1. /\ disk[move.dir].main = None /\ disk' = [disk EXCEPT ![move.dir].main = move.staged]
        /\ UNCHANGED backups
    BY <1>6 DEF Install
  <2>2. \A f \in Folders : disk'[f].wal = disk[f].wal /\ (f = move.dir \/ disk'[f].main = disk[f].main)
    BY <1>0, <1>d, <2>1 DEF TypeOK, Pair
  <2> QED
    BY <1>a, <1>b, <2>1, <2>2
<1>7. ASSUME NEW back \in SUBSET {"main", "wal"}, Undo(back) PROVE Stays
  <2> DEFINE main == "main" \in back /\ backups[Place].main # None
             wal == "wal" \in back /\ backups[Place].wal # None
             d == [main |-> IF main THEN backups[Place].main ELSE disk[move.dir].main,
                   wal |-> IF wal THEN backups[Place].wal ELSE disk[move.dir].wal]
             b == [main |-> IF main THEN None ELSE backups[Place].main,
                   wal |-> IF wal THEN None ELSE backups[Place].wal]
  <2>1. /\ disk' = [disk EXCEPT ![move.dir] = d] /\ backups' = [backups EXCEPT ![Place] = b]
        /\ Place \in Folders \X Stamps /\ disk[move.dir].main = None
        /\ disk[move.dir].wal = None \/ backups[Place].wal = None
    BY <1>0, <1>7, <1>d DEF Undo, BackupsAreSound, Place
  <2> HIDE DEF Place
  <2>2. /\ d.main = (IF main THEN backups[Place].main ELSE disk[move.dir].main)
        /\ d.wal = (IF wal THEN backups[Place].wal ELSE disk[move.dir].wal)
        /\ b.main = (IF main THEN None ELSE backups[Place].main)
        /\ b.wal = (IF wal THEN None ELSE backups[Place].wal)
    OBVIOUS
  <2> HIDE DEF d, b
  <2>3. /\ \A f \in Folders \ {move.dir} : disk'[f] = disk[f]
        /\ \A q \in (Folders \X Stamps) \ {Place} : backups'[q] = backups[q]
        /\ disk'[move.dir] = d /\ backups'[Place] = b
    BY <1>0, <1>d, <2>1 DEF TypeOK
  <2>4. CASE file = backups[Place].main
    BY <1>a, <1>d, <2>1, <2>2, <2>3, <2>4
  <2>5. CASE file = backups[Place].wal
    BY <1>a, <1>d, <2>1, <2>2, <2>3, <2>5
  <2>6. CASE file = disk[move.dir].wal
    BY <1>a, <1>d, <2>1, <2>2, <2>3, <2>6
  <2>7. CASE file \notin {backups[Place].main, backups[Place].wal, disk[move.dir].wal}
    BY <1>a, <1>b, <2>1, <2>3, <2>7
  <2> QED
    BY <2>4, <2>5, <2>6, <2>7
<1> QED
  BY <1>1, <1>2, <1>3, <1>4, <1>5, <1>6, <1>7 DEF Next

\* No step of a move takes a file's data off the disk, whichever steps fail, are
\* undone or are not, and however many backups there are.
THEOREM NothingLost == Spec => NothingIsDeleted
<1>1. ASSUME DataInv, [Next]_vars
      PROVE  [move.step \notin Resting => \A file \in AllFiles : file \notin {None, Zero} =>
                \E held \in AllFiles' : held = file \/ (IsDatabase(file) /\ file \subseteq Held(held))]_vars
  BY <1>1, FilesStep DEF Moving
<1> QED
  BY <1>1, DataInvHolds, PTL DEF Spec, NothingIsDeleted

-----------------------------------------------------------------------------
(* The lists.                                                              *)

\* What was read of a list is what the store has of it.
Tells(p, v)   == v \in {Nothing, Failed} \/ Rows(p, v) = Rows(p, Reads(p))
Watched(v)    == v \in {Nothing, Failed} \/ v.watched = stored.watched
Updated(v)    == v \in {Nothing, Failed} \/ Updates(v) = Updates(stored)

\* What may have changed a list since it was read, and reloads it when it is over.
Changing(p) ==
  \/ playing = "on" \/ p \in missed
  \/ change.at = "answered" /\ change.from = p
  \/ p = "history" /\ removal = "answered"
  \/ p = "home" /\ refreshing["following"] = "some"
  \/ p = "schedule" /\ refreshing["schedule"] = "some"
  \/ p = "home" /\ (queued \/ \E l \in loads : l.list = "recheck" /\ Updated(l.got))

\* The same for the position of what is watched alone.
Saving(p) ==
  \/ playing = "on"
  \/ p = "home" /\ ("home" \in missed \/ queued)
  \/ p = "history" /\ removal = "answered"

ListsTyped ==
  /\ stored \in [followed : BOOLEAN, watched : 0..2, news : BOOLEAN, week : BOOLEAN]
  /\ page \in Pages /\ playing \in {"no", "opening", "on"} /\ queued \in BOOLEAN
  /\ refreshing \in [Refreshed -> {"no", "running", "some"}]
  /\ removal \in {"none", "calling", "answered"}
  /\ window \in {"open", "closing"} /\ missed \subseteq Lists
  /\ shown = [p \in Lists |-> shown[p]]
  /\ change = [at |-> change.at, to |-> change.to, from |-> change.from, ok |-> change.ok]
  /\ change.at \in {"none", "calling", "answered"} /\ change.to \in BOOLEAN

IsLoad(l) ==
  /\ l = [list |-> l.list, current |-> l.current, got |-> l.got]
  /\ l.list \in Lists \cup {"recheck"} /\ l.current \in BOOLEAN
  /\ l.list = "recheck" => l.current

LoadsAreSound ==
  /\ \A l \in loads : IsLoad(l)
  /\ \A l, m \in loads : l.list = m.list /\ l.list \in Lists /\ l.current /\ m.current => l = m
  /\ queued => Open /\ Loading("home")

ListTells(p) ==
  ~Changing(p) =>
    /\ \A l \in loads : l.list = p /\ l.current => Tells(p, l.got)
    /\ ~Loading(p) => Tells(p, shown[p])
ListIsWatched(p) ==
  p \in {"home", "history"} /\ ~Saving(p) =>
    /\ \A l \in loads : l.list = p /\ l.current => Watched(l.got)
    /\ ~Loading(p) => Watched(shown[p])
PageIsSound(p) == Open /\ page = p => ListTells(p) /\ ListIsWatched(p)

PagesInv == ListsTyped /\ LoadsAreSound /\ \A p \in Lists : PageIsSound(p)

LEMMA PagesInit_Inv == PagesInit => PagesInv
<1> SUFFICES ASSUME PagesInit PROVE PagesInv
  OBVIOUS
<1>1. ListsTyped
  <2>1. change = NoChange /\ NoChange = [at |-> NoChange.at, to |-> NoChange.to, from |-> NoChange.from, ok |-> NoChange.ok]
        /\ NoChange.at = "none" /\ NoChange.to = FALSE
    BY DEF PagesInit, NoChange
  <2>2. shown = [p \in Lists |-> shown[p]]
    BY DEF PagesInit
  <2>3. stored \in [followed : BOOLEAN, watched : 0..2, news : BOOLEAN, week : BOOLEAN]
    BY DEF PagesInit
  <2>4. refreshing \in [Refreshed -> {"no", "running", "some"}]
    BY DEF PagesInit
  <2> QED BY <2>1, <2>2, <2>3, <2>4 DEF PagesInit, ListsTyped, Pages, Lists
<1>2. LoadsAreSound
  BY DEF PagesInit, LoadsAreSound, IsLoad, Lists
<1>3. \A p \in Lists : PageIsSound(p)
  BY DEF PagesInit, PageIsSound, ListTells, ListIsWatched, Loading, Tells, Watched
<1> QED BY <1>1, <1>2, <1>3 DEF PagesInv

\* A load that begins is the only latest one of its list; those of the other
\* lists stay what they were.
LEMMA LoadIsFresh ==
  ASSUME LoadsAreSound, NEW p \in Lists, NEW others, others \subseteq loads,
         loads' = Load(p, others)
  PROVE  /\ \A l \in loads' : IsLoad(l)
         /\ \A l, m \in loads' : l.list = m.list /\ l.list \in Lists /\ l.current /\ m.current => l = m
         /\ Loading(p)'
         /\ \A l \in loads' : l.list = p /\ l.current => l.got = Nothing
         /\ \A l \in loads' : l.list # p => l \in others
         /\ \A l \in others : l.list # p => l \in loads'
<1> DEFINE new == [list |-> p, current |-> TRUE, got |-> Nothing]
           old(l) == [l EXCEPT !.current = l.current /\ l.list # p]
<1>1. loads' = {old(l) : l \in others} \cup {new}
  BY DEF Load
<1>2. IsLoad(new) /\ new.list = p /\ new.current /\ new.got = Nothing
  BY DEF IsLoad, Lists
<1>3. ASSUME NEW l \in others
      PROVE  /\ IsLoad(old(l)) /\ old(l).list = l.list
             /\ l.list = p => ~old(l).current
             /\ l.list # p => old(l) = l
  <2>1. IsLoad(l)
    BY DEF LoadsAreSound
  <2>2. old(l) = [list |-> l.list, current |-> l.current /\ l.list # p, got |-> l.got]
    BY <2>1 DEF IsLoad
  <2> DEFINE e == [list |-> l.list, current |-> l.current /\ l.list # p, got |-> l.got]
  <2>3. e.list = l.list /\ e.current = (l.current /\ l.list # p) /\ e.got = l.got
        /\ e = [list |-> e.list, current |-> e.current, got |-> e.got]
    OBVIOUS
  <2>4. e.current \in BOOLEAN
    BY <2>3
  <2>5. IsLoad(e)
    BY <2>1, <2>3, <2>4 DEF IsLoad, Lists
  <2>6. l.list # p => e = l
    <3> SUFFICES ASSUME l.list # p PROVE e = l
      OBVIOUS
    <3>1. (l.current /\ l.list # p) = l.current
      BY <2>1 DEF IsLoad
    <3> QED BY <2>1, <3>1 DEF IsLoad
  <2> HIDE DEF e
  <2>7. old(l) = e
    BY <2>2 DEF e
  <2> QED BY <2>3, <2>5, <2>6, <2>7
<1> HIDE DEF new, old
<1>4. \A l \in loads' : l = new \/ \E k \in others : l = old(k)
  BY <1>1
<1>5. \A l \in others : old(l) \in loads'
  BY <1>1
<1>6. new \in loads'
  BY <1>1
<1>7. \A l \in loads' : IsLoad(l)
  BY <1>2, <1>3, <1>4
<1>8. \A l \in loads' : l.list = p /\ l.current => l = new
  BY <1>3, <1>4
<1>9. \A l \in loads' : l.list # p => l \in others
  BY <1>2, <1>3, <1>4
<1>10. ASSUME NEW l \in loads', NEW m \in loads', l.list = m.list, l.list \in Lists, l.current, m.current
       PROVE  l = m
  BY <1>8, <1>9, <1>10 DEF LoadsAreSound
<1>11. Loading(p)'
  BY <1>2, <1>6 DEF Loading
<1> QED BY <1>2, <1>3, <1>5, <1>7, <1>8, <1>9, <1>10, <1>11

\* A list that loads again shows nothing of before.
LEMMA ReloadedIsSound ==
  ASSUME NEW p \in Lists, Loading(p)',
         \A l \in loads' : l.list = p /\ l.current => l.got = Nothing
  PROVE  PageIsSound(p)'
BY DEF PageIsSound, ListTells, ListIsWatched, Tells, Watched

LEMMA ChangingIsSound ==
  ASSUME NEW p \in Lists, playing' = "on" \/ page' # p \/ (p = "home" /\ queued')
  PROVE  PageIsSound(p)'
BY DEF PageIsSound, ListTells, ListIsWatched, Changing, Saving

\* A page stays sound when its rows, its loads and what they are of stay, and
\* what has changed it is not forgotten.
LEMMA PageStaysSound ==
  ASSUME NEW p \in Lists, PageIsSound(p), page' = page, Open' => Open,
         shown'[p] = shown[p],
         \A l \in loads' : l.list = p /\ l.current => l \in loads,
         Loading(p) => Loading(p)',
         Changing(p) => Changing(p)', Saving(p) => Saving(p)',
         Changing(p)' \/ Reads(p)' = Reads(p),
         Saving(p)' \/ stored'.watched = stored.watched
  PROVE  PageIsSound(p)'
<1> SUFFICES ASSUME Open', page' = p PROVE ListTells(p)' /\ ListIsWatched(p)'
  BY DEF PageIsSound
<1>1. ListTells(p) /\ ListIsWatched(p)
  BY DEF PageIsSound
<1>2. ListTells(p)'
  <2> SUFFICES ASSUME ~Changing(p)' 
               PROVE  /\ \A l \in loads' : l.list = p /\ l.current => Tells(p, l.got)'
                      /\ ~Loading(p)' => Tells(p, shown[p])'
    BY DEF ListTells
  <2>1. ASSUME NEW v, Tells(p, v) PROVE Tells(p, v)'
    BY <2>1 DEF Tells, Rows
  <2>2. Tells(p, shown[p]) => Tells(p, shown[p])'
    BY DEF Tells, Rows
  <2>3. /\ \A l \in loads : l.list = p /\ l.current => Tells(p, l.got)
        /\ ~Loading(p) => Tells(p, shown[p])
    BY <1>1 DEF ListTells
  <2> QED BY <2>1, <2>2, <2>3
<1>3. ListIsWatched(p)'
  BY <1>1 DEF ListIsWatched, Watched
<1> QED BY <1>2, <1>3

LEMMA ReloadIsSound ==
  ASSUME LoadsAreSound, missed \subseteq Lists, NEW p \in Lists, Open, page' = p, window' = window,
         NEW others, others \subseteq loads, Loads(p, others), queued' \in BOOLEAN,
         p = "home" \/ (others = loads /\ queued' = queued)
  PROVE  LoadsAreSound' /\ missed' \subseteq Lists /\ \A q \in Lists : PageIsSound(q)'
<1>1. loads' = Load(p, others)
  BY DEF Loads
<1>2. /\ \A l \in loads' : IsLoad(l)
      /\ \A l, m \in loads' : l.list = m.list /\ l.list \in Lists /\ l.current /\ m.current => l = m
      /\ Loading(p)'
      /\ \A l \in loads' : l.list = p /\ l.current => l.got = Nothing
      /\ \A l \in others : l.list # p => l \in loads'
  BY <1>1, LoadIsFresh
<1>3. queued' => Open' /\ Loading("home")'
  BY <1>2 DEF LoadsAreSound, Loading, Open
<1>4. PageIsSound(p)'
  BY <1>2, ReloadedIsSound
<1>5. \A q \in Lists : PageIsSound(q)'
  BY <1>4, ChangingIsSound
<1> QED BY <1>2, <1>3, <1>5 DEF LoadsAreSound, Loads

LEMMA RefreshIsTyped ==
  ASSUME ListsTyped, NEW kind \in Refreshed, NEW force, Refresh(kind, force)
  PROVE  /\ refreshing' \in [Refreshed -> {"no", "running", "some"}]
         /\ \A k \in Refreshed : refreshing[k] = "some" => refreshing'[k] = "some"
<1>1. CASE UNCHANGED refreshing
  BY <1>1 DEF ListsTyped
<1>2. CASE (\A k \in Refreshed : refreshing[k] = "no") /\ refreshing' = [refreshing EXCEPT ![kind] = "running"]
  BY <1>2 DEF ListsTyped
<1> QED BY <1>1, <1>2 DEF Refresh

LEMMA ShowIsSound ==
  ASSUME PagesInv, NEW p \in Pages, Open, page' = p, window' = window, Show(p)
  PROVE  LoadsAreSound' /\ refreshing' \in [Refreshed -> {"no", "running", "some"}]
         /\ queued' \in BOOLEAN /\ missed' \subseteq Lists
         /\ \A q \in Lists : PageIsSound(q)'
<1> USE DEF PagesInv
<1>1. CASE p = "search"
  <2>1. UNCHANGED <<loads, missed, queued, refreshing>>
    BY <1>1 DEF Show
  <2>2. \A q \in Lists : PageIsSound(q)'
    BY <1>1, <2>1 DEF PageIsSound, Lists
  <2> QED BY <2>1, <2>2 DEF LoadsAreSound, Open, Loading, ListsTyped
<1>2. CASE p = "home" /\ Loading("home")
  <2>1. queued' = TRUE /\ loads' = loads /\ UNCHANGED <<missed, refreshing>>
    BY <1>2 DEF Show, RefreshHome
  <2>2. \A q \in Lists : PageIsSound(q)'
    BY <1>2, <2>1, ChangingIsSound
  <2> QED BY <1>2, <2>1, <2>2 DEF LoadsAreSound, Open, Loading, ListsTyped
<1>3. CASE p \in Lists /\ ~(p = "home" /\ Loading("home"))
  <2>1. Loads(p, loads) /\ queued' = queued
    BY <1>3 DEF Show, RefreshHome, Lists
  <2>2. refreshing' \in [Refreshed -> {"no", "running", "some"}]
    <3>1. CASE p \in {"home", "history"}
      BY <3>1 DEF Show, ListsTyped
    <3>2. CASE p \in Refreshed
      <4>1. Refresh(p, FALSE)
        BY <3>2 DEF Show, Refreshed
      <4> QED BY <3>2, <4>1, RefreshIsTyped
    <3> QED BY <1>3, <3>1, <3>2 DEF Lists, Refreshed
  <2>3. queued' \in BOOLEAN /\ missed \subseteq Lists
    BY <2>1 DEF ListsTyped
  <2>4. p \in Lists
    BY <1>3
  <2>5. LoadsAreSound' /\ missed' \subseteq Lists /\ \A q \in Lists : PageIsSound(q)'
    BY <2>1, <2>3, <2>4, ReloadIsSound
  <2> QED BY <2>1, <2>2, <2>3, <2>5
<1> QED BY <1>1, <1>2, <1>3 DEF Pages

\* The loads stay sound when none begins.
LEMMA LoadsStaySound ==
  ASSUME LoadsAreSound, UNCHANGED <<loads, window>>, queued' => queued
  PROVE  LoadsAreSound'
BY DEF LoadsAreSound, Loading, Open

LEMMA LoadLeaves ==
  ASSUME LoadsAreSound, NEW l \in loads, loads' = loads \ {l}, window' = window, queued' => queued,
         queued' /\ l.current => l.list # "home"
  PROVE  LoadsAreSound'
BY DEF LoadsAreSound, Loading, Open

LEMMA ShowSection_Inv ==
  ASSUME PagesInv, NEW p \in Pages, ShowSection(p) \/ Return(p)
  PROVE  PagesInv'
<1>1. Open /\ page' = p /\ Show(p) /\ UNCHANGED <<stored, shown, change, removal, window>> /\ playing' \in {playing, "no"}
  BY DEF ShowSection, Return, Clicks
<1>2. LoadsAreSound' /\ refreshing' \in [Refreshed -> {"no", "running", "some"}]
      /\ queued' \in BOOLEAN /\ missed' \subseteq Lists /\ \A q \in Lists : PageIsSound(q)'
  BY <1>1, ShowIsSound
<1>3. ListsTyped'
  BY <1>1, <1>2 DEF PagesInv, ListsTyped
<1> QED BY <1>2, <1>3 DEF PagesInv

LEMMA Button_Inv == ASSUME PagesInv, Button PROVE PagesInv'
<1> USE DEF PagesInv
<1>0. /\ page \in Lists /\ Open
      /\ UNCHANGED <<stored, page, playing, shown, change, removal, window>>
  BY DEF Button, Clicks
<1>1. CASE page \in {"following", "schedule"}
  <2>1. Refresh(page, TRUE) /\ UNCHANGED <<loads, missed, queued>>
    BY <1>1 DEF Button
  <2>2. page \in Refreshed
    BY <1>1 DEF Refreshed
  <2>3. /\ refreshing' \in [Refreshed -> {"no", "running", "some"}]
        /\ \A k \in Refreshed : refreshing[k] = "some" => refreshing'[k] = "some"
    BY <2>1, <2>2, RefreshIsTyped
  <2>4. ListsTyped'
    BY <1>0, <2>1, <2>3 DEF ListsTyped
  <2>5. LoadsAreSound'
    BY <1>0, <2>1, LoadsStaySound
  <2>6. ASSUME NEW q \in Lists PROVE PageIsSound(q)'
    <3>1. Changing(q) => Changing(q)'
      BY <1>0, <2>1, <2>3 DEF Changing, Refreshed, Updated
    <3>2. Saving(q) => Saving(q)'
      BY <1>0, <2>1 DEF Saving
    <3>3. Reads(q)' = Reads(q) /\ (Loading(q) => Loading(q)') /\ (Open' => Open)
      BY <1>0, <2>1 DEF Reads, Loading, Open
    <3> QED BY <1>0, <2>1, <3>1, <3>2, <3>3, PageStaysSound
  <2> QED BY <2>4, <2>5, <2>6
<1>2. CASE page \in {"history", "home"}
  <2>1. Loads(page, loads) /\ UNCHANGED <<queued, refreshing>>
    BY <1>2 DEF Button
  <2>2. queued' \in BOOLEAN /\ missed \subseteq Lists
    BY <2>1 DEF ListsTyped
  <2>3. ASSUME NEW p \in Lists, p = page
        PROVE  LoadsAreSound' /\ missed' \subseteq Lists /\ \A q \in Lists : PageIsSound(q)'
    BY <1>0, <2>1, <2>2, <2>3, ReloadIsSound
  <2>4. LoadsAreSound' /\ missed' \subseteq Lists /\ \A q \in Lists : PageIsSound(q)'
    BY <1>0, <2>3
  <2>5. ListsTyped'
    BY <1>0, <2>1, <2>4 DEF ListsTyped
  <2> QED BY <2>4, <2>5
<1> QED BY <1>0, <1>1, <1>2 DEF Lists

LEMMA LoadReads_Inv == ASSUME PagesInv, LoadReads PROVE PagesInv'
<1> USE DEF PagesInv
<1>1. PICK l \in loads : /\ l.got = Nothing
        /\ \E got \in {Reads(l.list), Failed} : loads' = (loads \ {l}) \cup {[l EXCEPT !.got = got]}
  BY DEF LoadReads
<1>2. PICK got \in {Reads(l.list), Failed} : loads' = (loads \ {l}) \cup {[l EXCEPT !.got = got]}
  BY <1>1
<1>3. UNCHANGED <<stored, page, playing, shown, queued, refreshing, change, removal, window, missed>>
  BY DEF LoadReads
<1> DEFINE e == [l EXCEPT !.got = got]
<1>4. IsLoad(l)
  BY DEF LoadsAreSound
<1>5. IsLoad(e) /\ e.list = l.list /\ e.current = l.current /\ e.got = got
  BY <1>4 DEF IsLoad
<1>6. loads' = (loads \ {l}) \cup {e}
  BY <1>2
<1> HIDE DEF e
<1>7. ASSUME NEW p PROVE Loading(p)' <=> Loading(p)
  BY <1>5, <1>6 DEF Loading
<1>8. LoadsAreSound'
  <2>1. \A k \in loads' : IsLoad(k)
    BY <1>5, <1>6 DEF LoadsAreSound
  <2>2. ASSUME NEW k \in loads', NEW m \in loads', k.list = m.list, k.list \in Lists, k.current, m.current
        PROVE  k = m
    BY <1>5, <1>6, <2>2 DEF LoadsAreSound
  <2>3. queued' => Open' /\ Loading("home")'
    BY <1>3, <1>7 DEF LoadsAreSound, Open
  <2> QED BY <2>1, <2>2, <2>3 DEF LoadsAreSound
<1>9. ListsTyped'
  BY <1>3 DEF ListsTyped
<1>10. ASSUME NEW p \in Lists PROVE PageIsSound(p)'
  <2> SUFFICES ASSUME Open, page = p PROVE ListTells(p)' /\ ListIsWatched(p)'
    BY <1>3 DEF PageIsSound, Open
  <2>1. ListTells(p) /\ ListIsWatched(p)
    BY DEF PageIsSound
  <2>2. Changing(p) => Changing(p)'
    <3>1. ASSUME NEW k \in loads, k.list = "recheck", Updated(k.got)
          PROVE  \E m \in loads' : m.list = "recheck" /\ Updated(m.got)'
      <4>1. CASE k # l
        BY <1>3, <1>6, <3>1, <4>1 DEF Updated
      <4>2. CASE k = l
        <5>1. Updates(Reads("recheck")) = Updates(stored)
          BY DEF Reads, Shows, Updates
        <5>2. Updated(got)'
          BY <1>2, <1>3, <3>1, <4>2, <5>1 DEF Updated
        <5> QED BY <1>5, <1>6, <3>1, <4>2, <5>2
      <4> QED BY <4>1, <4>2
    <3> QED BY <1>3, <3>1 DEF Changing
  <2>3. Saving(p) => Saving(p)'
    BY <1>3 DEF Saving
  <2>4. ListTells(p)'
    <3>1. l.list = p => Tells(p, got)
      BY <1>2 DEF Tells
    <3>2. ~Changing(p) => /\ \A k \in loads : k.list = p /\ k.current => Tells(p, k.got)
                          /\ ~Loading(p) => Tells(p, shown[p])
      BY <2>1 DEF ListTells
    <3>3. ~Changing(p) => /\ \A k \in loads' : k.list = p /\ k.current => Tells(p, k.got)
                          /\ ~Loading(p)' => Tells(p, shown[p])
      BY <3>1, <3>2, <1>5, <1>6, <1>7
    <3>4. \A v : Tells(p, v)' <=> Tells(p, v)
      BY <1>3 DEF Tells, Rows, Reads
    <3>5. Tells(p, shown[p])' <=> Tells(p, shown[p])
      BY <1>3 DEF Tells, Rows, Reads
    <3> QED BY <2>2, <3>3, <3>4, <3>5 DEF ListTells
  <2>5. ListIsWatched(p)'
    <3>1. l.list = p /\ p \in {"home", "history"} => Watched(got)
      BY <1>2 DEF Watched, Reads, Shows
    <3> QED BY <1>3, <1>5, <1>6, <1>7, <2>1, <2>3, <3>1 DEF ListIsWatched, Watched
  <2> QED BY <2>4, <2>5
<1> QED BY <1>8, <1>9, <1>10

LEMMA LoadTaken_Inv ==
  ASSUME PagesInv, NEW l \in loads, l.got # Nothing, l.list # "recheck", LoadTaken(l),
         UNCHANGED <<stored, page, playing, change, removal, window>>
  PROVE  PagesInv'
<1> USE DEF PagesInv
<1>1. /\ l.current /\ Open /\ (l.list # "home" => page = l.list) /\ ~(l.list = "home" /\ queued)
      /\ shown' = [shown EXCEPT ![l.list] = l.got] /\ loads' = loads \ {l}
      /\ UNCHANGED <<queued, missed>>
  BY DEF LoadTaken, StillWanted
<1>2. l.list \in Lists /\ IsLoad(l)
  BY DEF LoadsAreSound, IsLoad
<1>3. /\ refreshing' \in [Refreshed -> {"no", "running", "some"}]
      /\ \A k \in Refreshed : refreshing[k] = "some" => refreshing'[k] = "some"
  <2>1. Refresh("following", FALSE) \/ UNCHANGED refreshing
    BY DEF LoadTaken
  <2>2. "following" \in Refreshed
    BY DEF Refreshed
  <2>3. ASSUME UNCHANGED refreshing
        PROVE  /\ refreshing' \in [Refreshed -> {"no", "running", "some"}]
               /\ \A k \in Refreshed : refreshing[k] = "some" => refreshing'[k] = "some"
    BY <2>3 DEF ListsTyped
  <2> QED BY <2>1, <2>2, <2>3, RefreshIsTyped
<1>4. ListsTyped'
  BY <1>1, <1>2, <1>3 DEF ListsTyped
<1>5. LoadsAreSound'
  BY <1>1, LoadLeaves
<1>6. ASSUME NEW p \in Lists PROVE Changing(p) => Changing(p)'
  <2>1. ASSUME NEW k \in loads, k.list = "recheck", Updated(k.got)
        PROVE  \E m \in loads' : m.list = "recheck" /\ Updated(m.got)'
    BY <1>1, <2>1 DEF Updated
  <2> QED BY <1>1, <1>3, <2>1 DEF Changing, Refreshed
<1>7. ASSUME NEW p \in Lists PROVE Saving(p) => Saving(p)'
  BY <1>1 DEF Saving
<1>8. ASSUME NEW p \in Lists PROVE PageIsSound(p)'
  <2>1. CASE p # l.list
    <3>1. shown'[p] = shown[p] /\ Reads(p)' = Reads(p) /\ (Open' => Open)
      BY <1>1, <1>4, <2>1 DEF ListsTyped, Reads, Open
    <3>2. Loading(p) => Loading(p)'
      BY <1>1, <2>1 DEF Loading
    <3> QED BY <1>1, <1>6, <1>7, <3>1, <3>2, PageStaysSound
  <2>2. CASE p = l.list
    <3> SUFFICES ASSUME page = p PROVE ListTells(p)' /\ ListIsWatched(p)'
      BY DEF PageIsSound
    <3>1. ListTells(p) /\ ListIsWatched(p)
      BY <1>1 DEF PageIsSound
    <3>2. shown'[p] = l.got
      BY <1>1, <1>2, <2>2 DEF ListsTyped
    <3>3. \A k \in loads' : ~(k.list = p /\ k.current)
      BY <1>1, <2>2 DEF LoadsAreSound
    <3>4. ListTells(p)'
      <4>1. ~Changing(p) => Tells(p, l.got)
        BY <1>1, <2>2, <3>1 DEF ListTells
      <4>2. Tells(p, l.got) => Tells(p, shown[p])'
        BY <1>1, <3>2 DEF Tells, Rows, Reads
      <4> QED BY <1>6, <3>3, <4>1, <4>2 DEF ListTells
    <3>5. ListIsWatched(p)'
      <4>1. p \in {"home", "history"} /\ ~Saving(p) => Watched(l.got)
        BY <1>1, <2>2, <3>1 DEF ListIsWatched
      <4>2. Watched(l.got) => Watched(shown[p])'
        BY <1>1, <3>2 DEF Watched
      <4> QED BY <1>7, <3>3, <4>1, <4>2 DEF ListIsWatched
    <3> QED BY <3>4, <3>5
  <2> QED BY <2>1, <2>2
<1> QED BY <1>4, <1>5, <1>8

LEMMA LoadAnswers_Inv == ASSUME PagesInv, LoadAnswers PROVE PagesInv'
<1> USE DEF PagesInv
<1>1. PICK l \in loads : /\ l.got # Nothing /\ l.list # "recheck"
                         /\ LoadTaken(l) \/ HomeLoadsAgain(l) \/ LoadDropped(l)
  BY DEF LoadAnswers
<1>2. UNCHANGED <<stored, page, playing, change, removal, window>>
  BY DEF LoadAnswers
<1>3. CASE LoadTaken(l)
  BY <1>1, <1>2, <1>3, LoadTaken_Inv
<1>4. CASE HomeLoadsAgain(l)
  <2>1. /\ l.list = "home" /\ queued' = FALSE /\ Loads("home", loads \ {l}) /\ Open
        /\ UNCHANGED <<shown, refreshing>>
    BY <1>4 DEF HomeLoadsAgain, StillWanted
  <2>2. "home" \in Lists /\ missed' \subseteq Lists /\ loads' = Load("home", loads \ {l}) /\ missed' = missed \ {"home"}
    BY <2>1 DEF Loads, Lists, ListsTyped
  <2>3. /\ \A k \in loads' : IsLoad(k)
        /\ \A k, m \in loads' : k.list = m.list /\ k.list \in Lists /\ k.current /\ m.current => k = m
        /\ Loading("home")'
        /\ \A k \in loads' : k.list = "home" /\ k.current => k.got = Nothing
        /\ \A k \in loads' : k.list # "home" => k \in loads \ {l}
        /\ \A k \in loads \ {l} : k.list # "home" => k \in loads'
    BY <2>2, LoadIsFresh
  <2>4. LoadsAreSound'
    BY <2>1, <2>3 DEF LoadsAreSound
  <2>5. ListsTyped'
    BY <1>2, <2>1, <2>2 DEF ListsTyped
  <2>6. ASSUME NEW p \in Lists PROVE PageIsSound(p)'
    <3>1. CASE p = "home"
      BY <2>3, <3>1, ReloadedIsSound
    <3>2. CASE p # "home"
      <4>1. Changing(p) => Changing(p)'
        BY <1>2, <2>1, <2>2, <3>2 DEF Changing
      <4>2. Saving(p) => Saving(p)'
        BY <1>2, <2>1, <3>2 DEF Saving
      <4>3. Loading(p) => Loading(p)'
        BY <2>1, <2>3, <3>2 DEF Loading
      <4>4. Reads(p)' = Reads(p) /\ (Open' => Open) /\ shown'[p] = shown[p]
        BY <1>2, <2>1 DEF Reads, Open
      <4>5. \A k \in loads' : k.list = p /\ k.current => k \in loads
        BY <2>3, <3>2
      <4> QED BY <1>2, <4>1, <4>2, <4>3, <4>4, <4>5, PageStaysSound
    <3> QED BY <3>1, <3>2
  <2> QED BY <2>4, <2>5, <2>6
<1>5. CASE LoadDropped(l)
  <2>1. /\ ~(l.current /\ Open /\ (l.list # "home" => page = l.list))
        /\ loads' = loads \ {l} /\ UNCHANGED <<shown, queued, refreshing, missed>>
    BY <1>5 DEF LoadDropped, StillWanted
  <2>2. ListsTyped'
    BY <1>2, <2>1 DEF ListsTyped
  <2>3. LoadsAreSound'
    BY <1>2, <2>1, LoadLeaves DEF LoadsAreSound
  <2>4. ASSUME NEW p \in Lists PROVE PageIsSound(p)'
    <3> SUFFICES ASSUME Open, page = p PROVE PageIsSound(p)'
      BY <1>2 DEF PageIsSound, Open
    <3>1. Loading(p) => Loading(p)'
      BY <2>1 DEF Loading, Lists
    <3>2. Changing(p) => Changing(p)'
      BY <1>1, <1>2, <2>1 DEF Changing, Updated
    <3>3. Saving(p) => Saving(p)'
      BY <1>2, <2>1 DEF Saving
    <3>4. Reads(p)' = Reads(p) /\ (Open' => Open) /\ shown'[p] = shown[p]
      BY <1>2, <2>1 DEF Reads, Open
    <3> QED BY <1>2, <2>1, <3>1, <3>2, <3>3, <3>4, PageStaysSound
  <2> QED BY <2>2, <2>3, <2>4
<1> QED BY <1>1, <1>3, <1>4, <1>5

\* What the user does and the player that opens, leave the lists as they are.
LEMMA Quiet_Inv ==
  ASSUME PagesInv, ListsTyped', UNCHANGED <<stored, page, shown, loads, queued, refreshing, window, missed>>,
         playing = "on" => playing' = "on",
         change.at = "answered" => change' = change,
         removal = "answered" => removal' = removal
  PROVE  PagesInv'
<1> USE DEF PagesInv
<1>1. LoadsAreSound'
  BY LoadsStaySound
<1>2. ASSUME NEW p \in Lists PROVE PageIsSound(p)'
  <2>1. Changing(p) => Changing(p)'
    BY DEF Changing, Updated
  <2>2. Saving(p) => Saving(p)'
    BY DEF Saving
  <2>3. Reads(p)' = Reads(p) /\ (Open' => Open) /\ (Loading(p) => Loading(p)')
    BY DEF Reads, Open, Loading
  <2> QED BY <2>1, <2>2, <2>3, PageStaysSound
<1> QED BY <1>1, <1>2

LEMMA Clicks_Inv ==
  ASSUME PagesInv, Play \/ PlayEnds \/ RemoveHistory \/ \E to \in BOOLEAN : SetFollowing(to)
  PROVE  PagesInv'
<1> USE DEF PagesInv
<1>1. CASE Play
  <2>1. ListsTyped'
    BY <1>1 DEF Play, ListsTyped
  <2> QED BY <1>1, <2>1, Quiet_Inv DEF Play, Clicks
<1>2. CASE PlayEnds
  <2>1. ListsTyped'
    BY <1>2 DEF PlayEnds, ListsTyped
  <2> QED BY <1>2, <2>1, Quiet_Inv DEF PlayEnds
<1>3. CASE RemoveHistory
  <2>1. ListsTyped'
    BY <1>3 DEF RemoveHistory, ListsTyped
  <2> QED BY <1>3, <2>1, Quiet_Inv DEF RemoveHistory
<1>4. CASE \E to \in BOOLEAN : SetFollowing(to)
  <2>1. PICK to \in BOOLEAN : SetFollowing(to)
    BY <1>4
  <2>2. ListsTyped'
    BY <2>1 DEF SetFollowing, ListsTyped
  <2> QED BY <2>1, <2>2, Quiet_Inv DEF SetFollowing
<1> QED BY <1>1, <1>2, <1>3, <1>4

LEMMA PlaybackSaves_Inv == ASSUME PagesInv, PlaybackSaves PROVE PagesInv'
<1> USE DEF PagesInv
<1>1. stored' \in [followed : BOOLEAN, watched : 0..2, news : BOOLEAN, week : BOOLEAN]
  BY DEF PlaybackSaves, ListsTyped
<1>2. ListsTyped'
  BY <1>1 DEF PlaybackSaves, ListsTyped
<1>3. LoadsAreSound'
  BY LoadsStaySound DEF PlaybackSaves
<1>4. \A p \in Lists : PageIsSound(p)'
  BY ChangingIsSound DEF PlaybackSaves
<1> QED BY <1>2, <1>3, <1>4

LEMMA JobStores_Inv == ASSUME PagesInv, NEW kind \in Refreshed, JobStores(kind) PROVE PagesInv'
<1> USE DEF PagesInv
<1>1. /\ refreshing' = [refreshing EXCEPT ![kind] = "some"]
      /\ UNCHANGED <<page, playing, shown, loads, queued, change, removal, window, missed>>
  BY DEF JobStores
<1>2. /\ stored' \in [followed : BOOLEAN, watched : 0..2, news : BOOLEAN, week : BOOLEAN]
      /\ stored'.watched = stored.watched
      /\ kind = "schedule" => \A f \in {"followed", "watched", "news"} : stored'[f] = stored[f]
      /\ kind = "following" => \A f \in {"followed", "watched", "week"} : stored'[f] = stored[f]
  <2>1. CASE kind = "schedule"
    BY <2>1 DEF JobStores, ListsTyped
  <2>2. CASE kind = "following"
    <3>1. PICK new \in BOOLEAN : stored' = [stored EXCEPT !.news = stored.news \/ new]
      BY <2>2 DEF JobStores
    <3> QED BY <2>2, <3>1 DEF ListsTyped
  <2> QED BY <2>1, <2>2 DEF Refreshed
<1>3. ListsTyped'
  BY <1>1, <1>2 DEF ListsTyped
<1>4. LoadsAreSound'
  BY <1>1, LoadsStaySound
<1>5. refreshing'[kind] = "some" /\ \A k \in Refreshed : refreshing[k] = "some" => refreshing'[k] = "some"
  BY <1>1 DEF ListsTyped
<1>6. ASSUME NEW p \in Lists PROVE PageIsSound(p)'
  <2>1. Saving(p) => Saving(p)'
    BY <1>1 DEF Saving
  <2>2. (Open' => Open) /\ (Loading(p) => Loading(p)')
    BY <1>1 DEF Open, Loading
  <2>3. CASE \/ p = "home" /\ kind = "following"
             \/ p = "schedule" /\ kind = "schedule"
    <3>1. Changing(p)'
      BY <1>5, <2>3 DEF Changing
    <3> QED BY <1>1, <1>2, <2>1, <2>2, <3>1, PageStaysSound
  <2>4. CASE /\ ~(p = "home" /\ kind = "following")
             /\ ~(p = "schedule" /\ kind = "schedule")
    <3>0. \/ p = "home" /\ kind = "schedule"
          \/ p = "schedule" /\ kind = "following"
          \/ p \in {"following", "history"}
      BY <2>4 DEF Lists, Refreshed
    <3>1. \A f \in Shows[p] : stored'[f] = stored[f]
      BY <1>2, <3>0 DEF Shows, Refreshed
    <3>2. Reads(p)' = Reads(p)
      BY <3>1 DEF Reads
    <3>3. Changing(p) => Changing(p)'
      <4>1. p = "home" => stored'["news"] = stored["news"] /\ stored'["followed"] = stored["followed"]
        BY <1>2, <3>0
      <4>2. p = "home" => Updates(stored)' = Updates(stored)
        BY <4>1 DEF Updates
      <4>3. p = "home" => \A l \in loads : Updated(l.got) => Updated(l.got)'
        BY <4>2 DEF Updated
      <4> QED BY <1>1, <1>5, <4>3 DEF Changing, Refreshed
    <3> QED BY <1>1, <1>2, <2>1, <2>2, <3>2, <3>3, PageStaysSound
  <2> QED BY <2>3, <2>4
<1> QED BY <1>3, <1>4, <1>6

\* A page that loads again when what has changed it is over.
LEMMA PageReloads ==
  ASSUME PagesInv, Open, page \in Lists, Loads(page, loads), UNCHANGED <<page, window, queued>>
  PROVE  LoadsAreSound' /\ missed' \subseteq Lists /\ \A q \in Lists : PageIsSound(q)'
<1>1. ASSUME NEW p \in Lists, p = page
      PROVE  LoadsAreSound' /\ missed' \subseteq Lists /\ \A q \in Lists : PageIsSound(q)'
  <2>1. LoadsAreSound /\ missed \subseteq Lists /\ queued' \in BOOLEAN
    BY DEF PagesInv, ListsTyped
  <2> QED BY <1>1, <2>1, ReloadIsSound
<1> QED BY <1>1

LEMMA RefreshDone_Inv == ASSUME PagesInv, NEW kind \in Refreshed, RefreshDone(kind) PROVE PagesInv'
<1> USE DEF PagesInv
<1>1. /\ refreshing' = [refreshing EXCEPT ![kind] = "no"]
      /\ UNCHANGED <<stored, page, playing, shown, queued, change, removal, window>>
  BY DEF RefreshDone
<1>2. refreshing' \in [Refreshed -> {"no", "running", "some"}]
      /\ \A k \in Refreshed : k # kind => refreshing'[k] = refreshing[k]
  BY <1>1 DEF ListsTyped
<1>3. CASE Open /\ page = kind
  <2>1. Loads(page, loads) /\ page \in Lists
    BY <1>3 DEF RefreshDone, Lists, Refreshed
  <2>2. LoadsAreSound' /\ missed' \subseteq Lists /\ \A q \in Lists : PageIsSound(q)'
    BY <1>1, <1>3, <2>1, PageReloads
  <2> QED BY <1>1, <1>2, <2>2 DEF ListsTyped
<1>4. CASE Open /\ page = "home" /\ kind = "following" /\ refreshing[kind] = "some"
  <2> DEFINE new == [list |-> "recheck", current |-> TRUE, got |-> Nothing]
  <2>1. loads' = loads \cup {new} /\ missed' = missed
    BY <1>4 DEF RefreshDone, Refreshed
  <2>2. IsLoad(new) /\ new.list = "recheck" /\ new.got = Nothing /\ "recheck" \notin Lists
    BY DEF IsLoad, Lists
  <2> HIDE DEF new
  <2>3. LoadsAreSound'
    BY <1>1, <2>1, <2>2 DEF LoadsAreSound, Open, Loading
  <2>4. ListsTyped'
    BY <1>1, <1>2, <2>1 DEF ListsTyped
  <2>5. ASSUME NEW p \in Lists PROVE PageIsSound(p)'
    <3>1. CASE p # "home"
      BY <1>1, <1>4, <3>1, ChangingIsSound
    <3>2. CASE p = "home"
      <4>1. Changing(p)'
        BY <2>1, <2>2, <3>2 DEF Changing, Updated
      <4>2. Saving(p) => Saving(p)'
        BY <1>1, <2>1 DEF Saving
      <4>3. (Open' => Open) /\ (Loading(p) => Loading(p)') /\ \A l \in loads' : l.list = p /\ l.current => l \in loads
        BY <1>1, <2>1, <2>2 DEF Open, Loading
      <4> QED BY <1>1, <4>1, <4>2, <4>3, PageStaysSound
    <3> QED BY <3>1, <3>2
  <2> QED BY <2>3, <2>4, <2>5
<1>5. CASE ~(Open /\ page = kind) /\ ~(Open /\ page = "home" /\ kind = "following" /\ refreshing[kind] = "some")
  <2>1. UNCHANGED <<loads, missed>>
    BY <1>5 DEF RefreshDone
  <2>2. ListsTyped'
    BY <1>1, <1>2, <2>1 DEF ListsTyped
  <2>3. LoadsAreSound'
    BY <1>1, <2>1, LoadsStaySound
  <2>4. ASSUME NEW p \in Lists PROVE PageIsSound(p)'
    <3> SUFFICES ASSUME Open, page = p PROVE PageIsSound(p)'
      BY <1>1 DEF PageIsSound, Open
    <3>1. Changing(p) => Changing(p)'
      <4>1. p \in {"home", "following"} /\ refreshing["following"] = "some" => refreshing'["following"] = "some"
        BY <1>2, <1>5 DEF Refreshed
      <4>2. p = "schedule" /\ refreshing["schedule"] = "some" => refreshing'["schedule"] = "some"
        BY <1>2, <1>5 DEF Refreshed
      <4>3. \A l \in loads : Updated(l.got) => Updated(l.got)'
        BY <1>1 DEF Updated
      <4> QED BY <1>1, <2>1, <4>1, <4>2, <4>3 DEF Changing
    <3>2. Saving(p) => Saving(p)'
      BY <1>1, <2>1 DEF Saving
    <3>3. Reads(p)' = Reads(p) /\ (Open' => Open) /\ (Loading(p) => Loading(p)')
      BY <1>1, <2>1 DEF Reads, Open, Loading
    <3> QED BY <1>1, <2>1, <3>1, <3>2, <3>3, PageStaysSound
  <2> QED BY <2>2, <2>3, <2>4
<1> QED BY <1>3, <1>4, <1>5

LEMMA Recheck_Inv == ASSUME PagesInv, Recheck PROVE PagesInv'
<1> USE DEF PagesInv
<1>1. PICK l \in loads :
         /\ l.list = "recheck" /\ l.got # Nothing
         /\ \/ Rechecked(l) /\ Differ(l.got) /\ RefreshHome(loads \ {l})
            \/ Rechecked(l) /\ Agree(l.got) /\ loads' = loads \ {l} /\ UNCHANGED <<queued, missed>>
            \/ /\ ~Rechecked(l)
               /\ loads' = loads \ {l} /\ UNCHANGED queued
               /\ missed' = IF Open /\ page = "home" THEN missed \cup {"home"} ELSE missed
  BY DEF Recheck
<1>2. UNCHANGED <<stored, page, playing, shown, refreshing, change, removal, window>>
  BY DEF Recheck
<1>3. CASE Rechecked(l) /\ Differ(l.got) /\ RefreshHome(loads \ {l})
  <2>1. Open /\ page = "home" /\ ~Loading("home") /\ "home" \in Lists
    BY <1>3 DEF Rechecked, Lists
  <2>2. Loads("home", loads \ {l}) /\ queued' = queued
    BY <1>3, <2>1 DEF RefreshHome
  <2>3. missed \subseteq Lists /\ queued' \in BOOLEAN
    BY <2>2 DEF ListsTyped
  <2>4. LoadsAreSound' /\ missed' \subseteq Lists /\ \A q \in Lists : PageIsSound(q)'
    BY <1>2, <2>1, <2>2, <2>3, ReloadIsSound
  <2> QED BY <1>2, <2>3, <2>4 DEF ListsTyped
<1>4. CASE /\ loads' = loads \ {l} /\ queued' = queued
           /\ \/ Rechecked(l) /\ Agree(l.got) /\ missed' = missed
              \/ ~Rechecked(l) /\ missed' = IF Open /\ page = "home" THEN missed \cup {"home"} ELSE missed
  <2>1. ListsTyped'
    BY <1>2, <1>4 DEF ListsTyped, Lists
  <2>2. LoadsAreSound'
    BY <1>1, <1>2, <1>4, LoadLeaves
  <2>3. ASSUME NEW p \in Lists, Open, page = p PROVE PageIsSound(p)'
    <3>1. /\ Reads(p)' = Reads(p) /\ (Open' => Open) /\ (Loading(p) => Loading(p)')
          /\ \A m \in loads' : m.list = p /\ m.current => m \in loads
          /\ Saving(p) => Saving(p)'
      BY <1>1, <1>2, <1>4 DEF Reads, Open, Loading, Lists, Saving
    <3>2. CASE ~Changing(p) \/ Changing(p)'
      BY <1>2, <1>4, <3>1, <3>2, PageStaysSound
    <3>3. CASE Changing(p) /\ ~Changing(p)'
      <4>1. p = "home" /\ Updated(l.got) /\ missed' = missed
        BY <1>1, <1>2, <1>4, <3>3 DEF Changing, Updated
      <4>2. Rechecked(l) /\ Agree(l.got)
        BY <1>2, <1>4, <2>3, <3>3, <4>1 DEF Changing
      <4>3. page = "home" /\ ~Loading("home") /\ l.got # Failed /\ Open
        BY <4>2 DEF Rechecked
      <4>4. ~Saving(p)
        BY <1>2, <1>4, <3>3, <4>1 DEF Saving, Changing
      <4>5. Watched(shown[p])
        BY <4>1, <4>3, <4>4 DEF PageIsSound, ListIsWatched
      <4>6. shown["home"] \notin {Nothing, Failed} => Updates(shown["home"]) = Updates(stored)
        BY <1>1, <4>1, <4>2, <4>3 DEF Agree, Updated
      <4>7. Reads("home").watched = stored.watched /\ Updates(Reads("home")) = Updates(stored)
        BY DEF Reads, Shows, Updates
      <4>8. Tells(p, shown[p])
        BY <4>1, <4>5, <4>6, <4>7 DEF Tells, Rows, Watched
      <4>9. Tells(p, shown[p])'
        BY <1>2, <3>1, <4>8 DEF Tells, Rows
      <4>10. \A m \in loads' : ~(m.list = p /\ m.current)
        BY <1>4, <4>1, <4>3 DEF Loading
      <4>11. ListTells(p)'
        BY <4>9, <4>10 DEF ListTells
      <4>12. ListIsWatched(p)'
        BY <1>2, <4>5, <4>10 DEF ListIsWatched, Watched
      <4> QED BY <4>11, <4>12 DEF PageIsSound
    <3> QED BY <3>2, <3>3
  <2>4. \A p \in Lists : PageIsSound(p)'
    BY <1>2, <2>3 DEF PageIsSound, Open
  <2> QED BY <2>1, <2>2, <2>4
<1>5. CASE Rechecked(l) /\ Agree(l.got) /\ loads' = loads \ {l} /\ UNCHANGED <<queued, missed>>
  BY <1>4, <1>5
<1>6. CASE /\ ~Rechecked(l) /\ loads' = loads \ {l} /\ UNCHANGED queued
           /\ missed' = IF Open /\ page = "home" THEN missed \cup {"home"} ELSE missed
  BY <1>4, <1>6
<1> QED BY <1>1, <1>3, <1>5, <1>6

LEMMA FollowStored_Inv == ASSUME PagesInv, FollowStored PROVE PagesInv'
<1> USE DEF PagesInv
<1>1. PICK ok \in BOOLEAN :
         /\ change' = [change EXCEPT !.at = "answered", !.ok = ok]
         /\ stored' = IF ok THEN [stored EXCEPT !.followed = change.to] ELSE stored
         /\ missed' = IF ok THEN missed \cup ({"home", "following", "history"} \ {change.from}) ELSE missed
  BY DEF FollowStored
<1>2. change.at = "calling" /\ UNCHANGED <<page, playing, shown, loads, queued, refreshing, removal, window>>
  BY DEF FollowStored
<1>3. /\ change' = [at |-> change'.at, to |-> change'.to, from |-> change'.from, ok |-> change'.ok]
      /\ change'.at = "answered" /\ change'.to = change.to /\ change'.from = change.from
  BY <1>1 DEF ListsTyped
<1>4. /\ stored' \in [followed : BOOLEAN, watched : 0..2, news : BOOLEAN, week : BOOLEAN]
      /\ stored'.watched = stored.watched /\ stored'["week"] = stored["week"]
  <2>1. CASE ok
    BY <1>1, <2>1 DEF ListsTyped
  <2>2. CASE ~ok
    BY <1>1, <2>2 DEF ListsTyped
  <2> QED BY <2>1, <2>2
<1>5. ListsTyped'
  <2>1. change'.to \in BOOLEAN
    BY <1>3 DEF ListsTyped
  <2>2. missed' \subseteq Lists
    BY <1>1 DEF ListsTyped, Lists
  <2> QED BY <1>2, <1>3, <1>4, <2>1, <2>2 DEF ListsTyped
<1>6. LoadsAreSound'
  BY <1>2, LoadsStaySound
<1>7. ASSUME NEW p \in Lists PROVE PageIsSound(p)'
  <2>1. missed \subseteq missed'
    BY <1>1
  <2>2. Saving(p) => Saving(p)'
    BY <1>2, <2>1 DEF Saving
  <2>3. (Open' => Open) /\ (Loading(p) => Loading(p)') /\ shown'[p] = shown[p]
    BY <1>2 DEF Open, Loading
  <2>4. CASE ~ok
    <3>1. stored' = stored
      BY <1>1, <2>4
    <3>2. \A l \in loads : Updated(l.got) => Updated(l.got)'
      BY <3>1 DEF Updated
    <3>3. Changing(p) => Changing(p)'
      BY <1>2, <1>3, <2>1, <3>2 DEF Changing
    <3>4. Reads(p)' = Reads(p)
      BY <3>1 DEF Reads
    <3> QED BY <1>2, <1>4, <2>2, <2>3, <3>3, <3>4, PageStaysSound
  <2>5. CASE ok /\ p # "schedule"
    <3>1. p = change.from \/ p \in missed'
      BY <1>1, <2>5 DEF Lists
    <3>2. Changing(p)'
      BY <1>3, <3>1 DEF Changing
    <3> QED BY <1>2, <1>4, <2>2, <2>3, <3>2, PageStaysSound
  <2>6. CASE p = "schedule"
    <3>1. Reads(p)' = Reads(p)
      BY <1>4, <2>6 DEF Reads, Shows
    <3>2. Changing(p) => Changing(p)'
      BY <1>2, <1>3, <2>1, <2>6 DEF Changing
    <3> QED BY <1>2, <1>4, <2>2, <2>3, <3>1, <3>2, PageStaysSound
  <2> QED BY <2>4, <2>5, <2>6
<1> QED BY <1>5, <1>6, <1>7

LEMMA FollowDone_Inv == ASSUME PagesInv, FollowDone PROVE PagesInv'
<1> USE DEF PagesInv
<1>1. /\ change.at = "answered" /\ change' = NoChange
      /\ UNCHANGED <<stored, page, playing, queued, refreshing, removal, window>>
  BY DEF FollowDone
<1>2. /\ shown' = [p \in Lists |-> shown'[p]]
      /\ \A p \in Lists : shown'[p] = shown[p] \/ (Open /\ change.from = "history" /\ p = "history")
  <2> DEFINE h == [shown["history"] EXCEPT !.followed = change.to]
  <2>1. shown' = shown \/ (Open /\ change.from = "history" /\ shown' = [shown EXCEPT !["history"] = h])
    BY DEF FollowDone
  <2> HIDE DEF h
  <2> QED BY <2>1 DEF ListsTyped
<1>3. /\ change' = [at |-> change'.at, to |-> change'.to, from |-> change'.from, ok |-> change'.ok]
      /\ change'.at = "none" /\ change'.to \in BOOLEAN
  <2>1. /\ NoChange = [at |-> NoChange.at, to |-> NoChange.to, from |-> NoChange.from, ok |-> NoChange.ok]
        /\ NoChange.at = "none" /\ NoChange.to = FALSE
    BY DEF NoChange
  <2> QED BY <1>1, <2>1
<1>4. CASE Open /\ page = change.from /\ page \in Lists
  <2>1. Loads(page, loads)
    BY <1>4 DEF FollowDone
  <2>2. LoadsAreSound' /\ missed' \subseteq Lists /\ \A q \in Lists : PageIsSound(q)'
    BY <1>1, <1>4, <2>1, PageReloads
  <2>3. ListsTyped'
    BY <1>1, <1>2, <1>3, <2>2 DEF ListsTyped
  <2> QED BY <2>2, <2>3
<1>5. CASE ~(Open /\ page = change.from /\ page \in Lists)
  <2>1. UNCHANGED <<loads, missed>>
    BY <1>5 DEF FollowDone
  <2>2. ListsTyped'
    BY <1>1, <1>2, <1>3, <2>1 DEF ListsTyped
  <2>3. LoadsAreSound'
    BY <1>1, <2>1, LoadsStaySound
  <2>4. ASSUME NEW p \in Lists PROVE PageIsSound(p)'
    <3> SUFFICES ASSUME Open, page = p PROVE PageIsSound(p)'
      BY <1>1 DEF PageIsSound, Open
    <3>1. shown'[p] = shown[p] /\ change.from # p
      BY <1>2, <1>5
    <3>2. \A l \in loads : Updated(l.got) => Updated(l.got)'
      BY <1>1 DEF Updated
    <3>3. Changing(p) => Changing(p)'
      BY <1>1, <2>1, <3>1, <3>2 DEF Changing
    <3>4. Saving(p) => Saving(p)'
      BY <1>1, <2>1 DEF Saving
    <3>5. Reads(p)' = Reads(p) /\ (Open' => Open) /\ (Loading(p) => Loading(p)')
      BY <1>1, <2>1 DEF Reads, Open, Loading
    <3> QED BY <1>1, <2>1, <3>1, <3>3, <3>4, <3>5, PageStaysSound
  <2> QED BY <2>2, <2>3, <2>4
<1> QED BY <1>4, <1>5

LEMMA HistoryRemoved_Inv == ASSUME PagesInv, HistoryRemoved PROVE PagesInv'
<1> USE DEF PagesInv
<1>1. /\ removal = "calling" /\ removal' = "answered"
      /\ UNCHANGED <<page, playing, shown, loads, queued, refreshing, change, window>>
  BY DEF HistoryRemoved
<1>2. /\ stored' \in [followed : BOOLEAN, watched : 0..2, news : BOOLEAN, week : BOOLEAN]
      /\ \A f \in {"followed", "news", "week"} : stored'[f] = stored[f]
      /\ stored' = stored \/ {"home", "following"} \subseteq missed'
      /\ missed \subseteq missed' /\ missed' \subseteq Lists
  <2>1. CASE UNCHANGED <<stored, missed>>
    BY <2>1 DEF ListsTyped
  <2>2. CASE stored' = [stored EXCEPT !.watched = 0] /\ missed' = missed \cup {"home", "following"}
    BY <2>2 DEF ListsTyped, Lists
  <2> QED BY <2>1, <2>2 DEF HistoryRemoved
<1>3. ListsTyped'
  BY <1>1, <1>2 DEF ListsTyped
<1>4. LoadsAreSound'
  BY <1>1, LoadsStaySound
<1>5. ASSUME NEW p \in Lists PROVE PageIsSound(p)'
  <2>1. Saving(p) => Saving(p)'
    BY <1>1, <1>2 DEF Saving
  <2>2. (Open' => Open) /\ (Loading(p) => Loading(p)') /\ shown'[p] = shown[p]
    BY <1>1 DEF Open, Loading
  <2>3. Updates(stored)' = Updates(stored)
    BY <1>2 DEF Updates
  <2>4. \A l \in loads : Updated(l.got) => Updated(l.got)'
    BY <2>3 DEF Updated
  <2>5. Changing(p) => Changing(p)'
    BY <1>1, <1>2, <2>4 DEF Changing
  <2>6. CASE stored' = stored
    <3>1. Reads(p)' = Reads(p)
      BY <2>6 DEF Reads
    <3> QED BY <1>1, <2>1, <2>2, <2>5, <2>6, <3>1, PageStaysSound
  <2>7. CASE p \in {"home", "history"} /\ stored' # stored
    <3>1. Changing(p)' /\ Saving(p)'
      BY <1>1, <1>2, <2>7 DEF Changing, Saving
    <3> QED BY <1>1, <2>1, <2>2, <3>1, PageStaysSound
  <2>9. CASE p = "following" /\ stored' # stored
    <3>1. Changing(p)'
      BY <1>2, <2>9 DEF Changing
    <3>2. ListTells(p)' /\ ListIsWatched(p)'
      BY <2>9, <3>1 DEF ListTells, ListIsWatched
    <3> QED BY <3>2 DEF PageIsSound
  <2>8. CASE p = "schedule"
    <3>1. Reads(p)' = Reads(p)
      BY <1>2, <2>8 DEF Reads, Shows
    <3>2. ListIsWatched(p)'
      BY <2>8 DEF ListIsWatched
    <3>3. ASSUME Open', page' = p PROVE ListTells(p)'
      <4>1. ListTells(p)
        BY <1>1, <2>2, <3>3 DEF PageIsSound
      <4>2. \A v : Tells(p, v)' <=> Tells(p, v)
        BY <3>1 DEF Tells, Rows
      <4>3. Tells(p, shown[p])' <=> Tells(p, shown[p])
        BY <2>2, <3>1 DEF Tells, Rows
      <4> QED BY <1>1, <2>2, <2>5, <4>1, <4>2, <4>3 DEF ListTells
    <3> QED BY <3>2, <3>3 DEF PageIsSound
  <2> QED BY <2>6, <2>7, <2>8, <2>9 DEF Lists
<1> QED BY <1>3, <1>4, <1>5

LEMMA RemovalDone_Inv == ASSUME PagesInv, RemovalDone PROVE PagesInv'
<1> USE DEF PagesInv
<1>1. /\ removal = "answered" /\ removal' = "none"
      /\ UNCHANGED <<stored, page, playing, shown, queued, refreshing, change, window>>
  BY DEF RemovalDone
<1>2. CASE Open /\ page = "history"
  <2>1. Loads(page, loads) /\ page \in Lists
    BY <1>2 DEF RemovalDone, Lists
  <2>2. LoadsAreSound' /\ missed' \subseteq Lists /\ \A q \in Lists : PageIsSound(q)'
    BY <1>1, <1>2, <2>1, PageReloads
  <2> QED BY <1>1, <2>2 DEF ListsTyped
<1>3. CASE ~(Open /\ page = "history")
  <2>1. UNCHANGED <<loads, missed>>
    BY <1>3 DEF RemovalDone
  <2>2. ListsTyped'
    BY <1>1, <2>1 DEF ListsTyped
  <2>3. LoadsAreSound'
    BY <1>1, <2>1, LoadsStaySound
  <2>4. ASSUME NEW p \in Lists PROVE PageIsSound(p)'
    <3> SUFFICES ASSUME Open, page = p, p # "history" PROVE PageIsSound(p)'
      BY <1>1, <1>3 DEF PageIsSound, Open
    <3>1. \A l \in loads : Updated(l.got) => Updated(l.got)'
      BY <1>1 DEF Updated
    <3>2. Changing(p) => Changing(p)'
      BY <1>1, <2>1, <3>1 DEF Changing
    <3>3. Saving(p) => Saving(p)'
      BY <1>1, <2>1 DEF Saving
    <3>4. Reads(p)' = Reads(p) /\ (Open' => Open) /\ (Loading(p) => Loading(p)')
      BY <1>1, <2>1 DEF Reads, Open, Loading
    <3> QED BY <1>1, <2>1, <3>2, <3>3, <3>4, PageStaysSound
  <2> QED BY <2>2, <2>3, <2>4
<1> QED BY <1>2, <1>3

LEMMA Cancel_Inv == ASSUME PagesInv, Cancel PROVE PagesInv'
<1> USE DEF PagesInv
<1> DEFINE old(l) == [l EXCEPT !.current = l.current /\ l.list # "home"]
<1>1. /\ window' = "closing" /\ queued' = FALSE
      /\ loads' = {old(l) : l \in loads}
      /\ UNCHANGED <<stored, page, playing, shown, refreshing, change, removal, missed>>
  BY DEF Cancel
<1>2. ASSUME NEW l \in loads
      PROVE  IsLoad(old(l)) /\ old(l).list = l.list /\ (old(l).current => l.current)
  <2>1. IsLoad(l)
    BY DEF LoadsAreSound
  <2> DEFINE e == [list |-> l.list, current |-> l.current /\ l.list # "home", got |-> l.got]
  <2>2. old(l) = e
    BY <2>1 DEF IsLoad
  <2>3. e.list = l.list /\ e.current = (l.current /\ l.list # "home")
        /\ e = [list |-> e.list, current |-> e.current, got |-> e.got]
    OBVIOUS
  <2>4. e.current \in BOOLEAN
    BY <2>3
  <2>5. IsLoad(e)
    BY <2>1, <2>3, <2>4 DEF IsLoad
  <2> HIDE DEF e, old
  <2> QED BY <2>2, <2>3, <2>5
<1> HIDE DEF old
<1>3. LoadsAreSound'
  <2>1. \A k \in loads' : IsLoad(k)
    BY <1>1, <1>2
  <2>2. ASSUME NEW k \in loads', NEW m \in loads', k.list = m.list, k.list \in Lists, k.current, m.current
        PROVE  k = m
    <3>1. PICK a \in loads : k = old(a)
      BY <1>1
    <3>2. PICK b \in loads : m = old(b)
      BY <1>1
    <3>3. a = b
      BY <1>2, <2>2, <3>1, <3>2 DEF LoadsAreSound
    <3> QED BY <3>1, <3>2, <3>3
  <2> QED BY <1>1, <2>1, <2>2 DEF LoadsAreSound
<1>4. ListsTyped'
  BY <1>1 DEF ListsTyped
<1>5. \A p \in Lists : PageIsSound(p)'
  BY <1>1 DEF PageIsSound, Open
<1> QED BY <1>3, <1>4, <1>5

LEMMA PagesNext_Inv == PagesInv /\ [PagesNext]_pagesVars => PagesInv'
<1> SUFFICES ASSUME PagesInv, [PagesNext]_pagesVars PROVE PagesInv'
  OBVIOUS
<1>1. CASE UNCHANGED pagesVars
  <2>1. UNCHANGED <<stored, page, playing, shown, loads, queued, refreshing, change, removal, window, missed>>
    BY <1>1 DEF pagesVars
  <2>2. ListsTyped'
    BY <2>1 DEF PagesInv, ListsTyped
  <2> QED BY <2>1, <2>2, Quiet_Inv
<1>2. CASE \E p \in Pages : ShowSection(p) \/ Return(p)
  BY <1>2, ShowSection_Inv
<1>3. CASE Button \/ LoadReads \/ LoadAnswers \/ Recheck
  BY <1>3, Button_Inv, LoadReads_Inv, LoadAnswers_Inv, Recheck_Inv
<1>4. CASE Play \/ PlayEnds \/ RemoveHistory \/ \E to \in BOOLEAN : SetFollowing(to)
  BY <1>4, Clicks_Inv
<1>5. CASE PlaybackSaves
  BY <1>5, PlaybackSaves_Inv
<1>6. CASE \E kind \in Refreshed : JobStores(kind) \/ RefreshDone(kind)
  BY <1>6, JobStores_Inv, RefreshDone_Inv
<1>7. CASE FollowStored \/ FollowDone \/ HistoryRemoved \/ RemovalDone \/ Cancel
  BY <1>7, FollowStored_Inv, FollowDone_Inv, HistoryRemoved_Inv, RemovalDone_Inv, Cancel_Inv
<1> QED BY <1>1, <1>2, <1>3, <1>4, <1>5, <1>6, <1>7 DEF PagesNext

LEMMA PagesInv_Shown == PagesInv => ShownIsStored
<1> SUFFICES ASSUME PagesInv PROVE ShownIsStored
  OBVIOUS
<1> USE DEF PagesInv
<1>1. ASSUME NEW p \in Lists PROVE Cardinality({l \in loads : l.list = p /\ l.current}) <= 1
  <2> DEFINE S == {l \in loads : l.list = p /\ l.current}
  <2>1. S = {} \/ \E l : S = {l}
    BY DEF LoadsAreSound
  <2> HIDE DEF S
  <2>2. Cardinality(S) = 0 \/ Cardinality(S) = 1
    BY <2>1, FS_EmptySet, FS_Singleton
  <2> QED BY <2>2 DEF S
<1>2. PagesTypeOK
  BY <1>1 DEF PagesTypeOK, ListsTyped
<1>3. ASSUME Settled, page \in Lists \ missed PROVE UpToDate(page)
  <2>1. /\ Open /\ playing = "no" /\ change.at = "none" /\ removal = "none"
        /\ \A l \in loads : l.list \in {page, "recheck"} => ~l.current
        /\ page = "home" => refreshing["following"] = "no"
        /\ page = "schedule" => refreshing[page] = "no"
    BY <1>3 DEF Settled
  <2>2. ListTells(page) /\ ListIsWatched(page)
    BY <1>3, <2>1 DEF PageIsSound
  <2>3. ~Loading(page)
    BY <2>1 DEF Loading
  <2>4. ~(page = "home" /\ queued)
    BY <2>3 DEF LoadsAreSound
  <2>5. \A l \in loads : l.list # "recheck"
    BY <2>1 DEF LoadsAreSound, IsLoad
  <2>6. ~Changing(page)
    BY <1>3, <2>1, <2>4, <2>5 DEF Changing
  <2> QED BY <2>2, <2>3, <2>6 DEF ListTells, Tells, UpToDate
<1>4. ASSUME Open, playing = "no", page = "history", Playable(page)
      PROVE  shown[page].watched = stored.watched
  <2>1. HasRow("history") /\ ~Loading("history") /\ removal = "none"
    BY <1>4 DEF Playable
  <2>2. ListIsWatched("history")
    BY <1>4 DEF PageIsSound, Lists
  <2> QED BY <1>4, <2>1, <2>2 DEF ListIsWatched, Saving, HasRow, Watched
<1> QED BY <1>2, <1>3, <1>4 DEF ShownIsStored, LoadsAreSound

\* Once the page shown has settled, its rows are what the store has, after any
\* order of any number of loads, refreshes, saves, follows and removals answering.
\* Excepted until they load again are a list since whose last load another page's
\* follow, unfollow or removal was stored, and Home once the check after a refresh
\* was dropped, unread or because Home was loading.  And a row of the history that
\* can be played is at the position stored.
THEOREM ListsShowTheStore == PagesSpec => []ShownIsStored
BY PagesInit_Inv, PagesNext_Inv, PagesInv_Shown, PTL DEF PagesSpec

=============================================================================
