-------------------------------- MODULE Search --------------------------------
(* The search page and the detail screen it holds.  searchModel runs one      *)
(* request at a time (the library, a remote search or an anime's detail);     *)
(* what the user asks meanwhile supersedes it and is queued behind its        *)
(* answer.  A detail then loads its resources on goroutines of their own: the *)
(* metadata lookup with the cover, the stored episodes and Anime1's.          *)
EXTENDS Naturals, FiniteSets

CONSTANTS
    Animes,
    MaxActions  \* bound: what the user does

ASSUME SearchAssumption == MaxActions \in Nat

NoOne == "none"

VARIABLES
    onSearch,   \* the search page is selected
    onDetail,   \* searchPreview: the detail screen covers it
    model,      \* searchModel
    detail,     \* detailModel and detailEpisodesErr; ghost: how its detail answered
    resources,  \* goroutines of the detail screens opened so far
    lookedUp,   \* metadataLookedUp
    listed,     \* the anime whose episode list the store has
    actions

searchVars == <<onSearch, onDetail, model, detail, resources, lookedUp, listed, actions>>

\* A request: current until it is superseded, fresh until its detail is left.
NoRequest == [kind |-> NoOne, of |-> NoOne, current |-> FALSE, fresh |-> FALSE]
NoPending == [kind |-> NoOne, of |-> NoOne]
NoList == NoPending  \* else the list of an anime, "stored" or "fresh" from Anime1
NoDetail(a) == [open |-> a, list |-> NoList, refreshed |-> FALSE, failed |-> FALSE,
                answered |-> "no"]

SearchInit ==
    /\ onSearch = FALSE /\ onDetail = FALSE
    /\ model = [loaded |-> FALSE, libraryFailed |-> FALSE, query |-> FALSE, phase |-> "idle",
                active |-> NoRequest, pending |-> NoPending, item |-> NoOne, preview |-> NoOne]
    /\ detail = NoDetail(NoOne) /\ resources = {} /\ lookedUp = {}
    /\ listed \in {{}, Animes} /\ actions = 0

(***************************************************************************)
(* searchModel: what its methods make of it.  Its generation is kept as    *)
(* whether the active request is the current one; a query as whether there *)
(* is one.                                                                 *)
(***************************************************************************)
Active(m) == m.active.kind # NoOne

InvalidateRequest(m) ==
    [m EXCEPT !.active.current = FALSE, !.preview = NoOne, !.item = NoOne, !.phase = "idle"]

CancelModel(m) == [InvalidateRequest(m) EXCEPT !.pending = NoPending]

Begin(m, kind, a) ==
    [m EXCEPT !.active = [kind |-> kind, of |-> a, current |-> TRUE, fresh |-> TRUE],
              !.phase = "loading"]

BeginLibrary(m) == IF m.loaded \/ Active(m) THEN m ELSE Begin(m, "library", NoOne)

\* queueSearch: behind the library, or behind what was superseded.
QueueSearch(m) ==
    IF m.active.kind = "library" \/ ~m.active.current
    THEN [m EXCEPT !.pending = [kind |-> "remote", of |-> NoOne]] ELSE m

StartRemoteSearch(m) ==
    IF ~m.query THEN m ELSE IF Active(m) THEN QueueSearch(m) ELSE Begin(m, "remote", NoOne)

\* Fault: the detail shows as requested, and is not queued.
ForgetDetail(m, a) == [(IF m.active.current THEN InvalidateRequest(m) ELSE m) EXCEPT !.item = a]

QueueDetail(m, a) ==
    [(IF m.active.current THEN InvalidateRequest(m) ELSE m) EXCEPT
        !.pending = [kind |-> "detail", of |-> a], !.item = a, !.preview = NoOne]

RequestDetail(m, a) ==
    IF Active(m) THEN QueueDetail(m, a)
    ELSE [Begin(m, "detail", a) EXCEPT !.item = a, !.preview = NoOne]

\* finishLibrary, finishSearch, finishDetail.
Finish(m, ok) ==
    LET over == [m EXCEPT !.active = NoRequest]
    IN  IF ~m.active.current THEN over
        ELSE IF ~ok THEN [over EXCEPT !.phase = "failed", !.libraryFailed = @ \/ m.active.kind = "library"]
        ELSE IF m.active.kind = "library"
             THEN [over EXCEPT !.phase = "idle", !.loaded = TRUE, !.libraryFailed = FALSE]
        ELSE IF m.active.kind = "detail" THEN [over EXCEPT !.phase = "idle", !.preview = m.active.of]
        ELSE [over EXCEPT !.phase = "idle"]

(***************************************************************************)
(* Pages.  stopDetailLoad ends the resources' context and their            *)
(* generation.                                                             *)
(***************************************************************************)
Acts == actions < MaxActions /\ actions' = actions + 1

Left(set)   == {[r EXCEPT !.current = FALSE] : r \in set}
Unfresh(m)  == [m EXCEPT !.active.fresh = FALSE]

\* openSearchResult; resources and detail start afresh.
OpenSearchResult(m, a) ==
    /\ model' = RequestDetail(Unfresh(m), a)
    /\ detail' = NoDetail(a) /\ resources' = Left(resources) /\ onDetail' = TRUE

\* showSection leaves a detail that is shown; the page then loads the library.
ShowSearch ==
    /\ Acts
    /\ onSearch' = TRUE /\ onDetail' = FALSE
    /\ IF onDetail
       THEN /\ model' = BeginLibrary(CancelModel(Unfresh(model)))
            /\ detail' = NoDetail(NoOne) /\ resources' = Left(resources)
       ELSE model' = BeginLibrary(model) /\ UNCHANGED <<detail, resources>>
    /\ UNCHANGED <<lookedUp, listed>>

LeaveSearch ==
    /\ Acts /\ onSearch
    /\ onSearch' = FALSE /\ onDetail' = FALSE
    /\ model' = CancelModel(Unfresh(model))
    /\ detail' = NoDetail(NoOne) /\ resources' = Left(resources)
    /\ UNCHANGED <<lookedUp, listed>>

\* backToSearchResults.
Back ==
    /\ Acts /\ onDetail
    /\ onDetail' = FALSE /\ model' = CancelModel(Unfresh(model))
    /\ detail' = NoDetail(NoOne) /\ resources' = Left(resources)
    /\ UNCHANGED <<onSearch, lookedUp, listed>>

\* From the results, or (openDetailFrom) from another page.
OpenDetail(a) ==
    /\ Acts /\ ~onDetail
    /\ onSearch' = TRUE
    /\ OpenSearchResult(IF onSearch THEN model ELSE BeginLibrary(model), a)
    /\ UNCHANGED <<lookedUp, listed>>

RetryDetail ==
    /\ Acts /\ onDetail /\ model.item # NoOne
    /\ OpenSearchResult(model, model.item)
    /\ UNCHANGED <<onSearch, lookedUp, listed>>

\* playSelectedDetailEpisode: the resources still loading are given up.
PlayFromDetail ==
    /\ Acts /\ onDetail /\ detail.list # NoList
    /\ resources' = Left(resources) /\ model' = Unfresh(model)
    /\ UNCHANGED <<onSearch, onDetail, detail, lookedUp, listed>>

SetQuery ==
    /\ Acts /\ onSearch /\ ~onDetail
    /\ \E query \in BOOLEAN : model' = [CancelModel(model) EXCEPT !.query = query]
    /\ UNCHANGED <<onSearch, onDetail, detail, resources, lookedUp, listed>>

SubmitSearch ==
    /\ Acts /\ onSearch /\ ~onDetail
    /\ model' = IF model.libraryFailed /\ ~model.loaded /\ ~Active(model)
                THEN BeginLibrary(IF model.query THEN [model EXCEPT !.pending.kind = "remote"] ELSE model)
                ELSE StartRemoteSearch(model)
    /\ UNCHANGED <<onSearch, onDetail, detail, resources, lookedUp, listed>>

(***************************************************************************)
(* Answers of requests.                                                    *)
(***************************************************************************)

CanRefresh(a) == a \notin lookedUp

\* loadDetailResources, when the detail of what is still shown has answered;
\* the lookup only when the anime has no metadata.
LoadResources(a) ==
    \E look \in {CanRefresh(a), FALSE} :
        /\ resources' = resources \cup
             {[of |-> a, kind |-> k, current |-> TRUE, got |-> NoOne] :
                k \in {"stored", "episodes"} \cup (IF look THEN {"lookup"} ELSE {})}
        /\ lookedUp' = IF look THEN lookedUp \cup {a} ELSE lookedUp

Answered(ok) ==
    IF model.active.kind = "detail" /\ model.active.current
    THEN /\ detail' = [detail EXCEPT !.answered = IF ok THEN "ok" ELSE "failed"]
         /\ IF ok /\ model.active.fresh /\ onDetail THEN LoadResources(model.active.of)
            ELSE UNCHANGED <<resources, lookedUp>>
    ELSE UNCHANGED <<detail, resources, lookedUp>>

\* refreshSearchView: the action queued behind the request, else the library.
Served(m, ok) ==
    LET taken == [m EXCEPT !.pending = NoPending]
        next  == IF m.pending.kind = "remote" THEN StartRemoteSearch(taken) ELSE taken
    IN  IF m.pending.kind = "detail"
        THEN OpenSearchResult(taken, m.pending.of) /\ UNCHANGED lookedUp
        ELSE /\ model' = IF next.libraryFailed THEN next ELSE BeginLibrary(next)
             /\ Answered(ok) /\ UNCHANGED onDetail

RequestAnswers ==
    /\ Active(model)
    /\ \E ok \in BOOLEAN :
         IF onSearch THEN Served(Finish(model, ok), ok)
         ELSE /\ model' = Finish(model, ok)
              /\ UNCHANGED <<onDetail, detail, resources, lookedUp>>
    /\ UNCHANGED <<onSearch, listed, actions>>

(***************************************************************************)
(* Answers of a detail's resources.                                        *)
(***************************************************************************)
\* What the goroutine read: Anime1's list is stored as it comes.
ResourceReads ==
    /\ \E r \in resources : \E ok \in BOOLEAN :
         /\ r.got = NoOne
         /\ resources' = (resources \ {r}) \cup
              {[r EXCEPT !.got = IF ~ok THEN "failed"
                                 ELSE IF r.kind = "stored" /\ r.of \notin listed THEN "empty"
                                 ELSE "read"]}
         /\ listed' = IF ok /\ r.kind = "episodes" THEN listed \cup {r.of} ELSE listed
    /\ UNCHANGED <<onSearch, onDetail, model, detail, lookedUp, actions>>

\* Fault: the generation of a resource is not compared.
AnyDetail(r) == onSearch /\ onDetail

\* detailRequestCurrent, with the context of the detail not ended.
DetailRequestCurrent(r) == onSearch /\ onDetail /\ r.current /\ detail.open = r.of

\* Fault: the stored list replaces whatever is shown.
ApplyAlways(r) == [detail EXCEPT !.list = [kind |-> "stored", of |-> r.of]]

ApplyStored(r) ==
    IF detail.refreshed THEN detail ELSE [detail EXCEPT !.list = [kind |-> "stored", of |-> r.of]]

ApplyRefresh(r) ==
    IF r.got = "failed"
    THEN [detail EXCEPT !.refreshed = TRUE, !.failed = detail.list = NoList]
    ELSE [detail EXCEPT !.refreshed = TRUE, !.failed = FALSE,
                        !.list = [kind |-> "fresh", of |-> r.of]]

\* A lookup that failed, or was left, may be made again.
ResourceAnswers ==
    /\ \E r \in resources :
         /\ r.got # NoOne /\ resources' = resources \ {r}
         /\ detail' = IF ~DetailRequestCurrent(r) THEN detail
                      ELSE IF r.kind = "stored" /\ r.got = "read" THEN ApplyStored(r)
                      ELSE IF r.kind = "episodes" THEN ApplyRefresh(r)
                      ELSE detail
         /\ lookedUp' = IF r.kind = "lookup" /\ (r.got = "failed" \/ ~r.current)
                        THEN lookedUp \ {r.of} ELSE lookedUp
    /\ UNCHANGED <<onSearch, onDetail, model, listed, actions>>

SearchNext ==
    \/ ShowSearch \/ LeaveSearch \/ Back \/ RetryDetail \/ PlayFromDetail
    \/ \E a \in Animes : OpenDetail(a)
    \/ SetQuery \/ SubmitSearch
    \/ RequestAnswers \/ ResourceReads \/ ResourceAnswers

SearchSpec == SearchInit /\ [][SearchNext]_searchVars

(***************************************************************************)
(* Properties.                                                             *)
(***************************************************************************)
\* What the detail screen shows is all of the anime it was opened for, however
\* many anime were opened and left before and in whatever order they answer;
\* the search page says it is loading exactly while its current request runs,
\* what is queued waits behind a request that runs, and at most one metadata
\* lookup of an anime runs at a time.
DetailIsItsAnime ==
    /\ onDetail => onSearch /\ model.item = detail.open /\ model.preview \in {NoOne, detail.open}
    /\ onDetail /\ detail.answered = "ok" => model.preview = detail.open
    /\ detail.list # NoList => detail.list.of = detail.open
    /\ model.phase = "loading" <=> Active(model) /\ model.active.current
    /\ model.pending.kind # NoOne => Active(model) /\ onSearch
    /\ \A a \in Animes : Cardinality({r \in resources : r.kind = "lookup" /\ r.of = a}) <= 1

\* The stored list never replaces the one Anime1 gave for the anime shown.
FreshIsKept ==
    [][detail.list.kind = "fresh" => detail'.list.kind # "stored"]_detail

\* A detail screen that is not answered is being answered: its own request runs
\* or waits behind the one that runs, whatever was asked before.
DetailIsAnswered ==
    onDetail /\ detail.answered = "no" =>
        \/ model.active.kind = "detail" /\ model.active.of = detail.open /\ model.active.current
        \/ Active(model) /\ model.pending = [kind |-> "detail", of |-> detail.open]

\* The stored list is shown once read, unless Anime1's is: a failed refresh
\* keeps it (applyRefresh).
FailedRefreshKeepsStored ==
    [][\A r \in resources :
         resources' = resources \ {r} /\ r.kind = "stored" /\ r.got = "read" /\ DetailRequestCurrent(r) =>
             detail'.list # NoList]_searchVars
=============================================================================
