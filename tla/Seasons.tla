------------------------------- MODULE Seasons --------------------------------
(***************************************************************************)
(* The airing seasons Bangumi lists (adapters/metadata/bangumi): each is   *)
(* fetched once for the run of the program, page by page, by the first     *)
(* lookup that asks for it, under the context of that lookup; the others   *)
(* wait for what it finds.                                                 *)
(*                                                                         *)
(* A lookup asks once, so a fetch is named after the lookup that makes it. *)
(* A subject of a season is its number in the site's order.                *)
(***************************************************************************)
EXTENDS Integers, FiniteSets

CONSTANTS
  Lookups,      \* calls of BrowseSeason
  Months,       \* seasons asked for
  NoFetch,
  MaxCached,    \* maxCachedSeasons
  BrowseSize,   \* browsePageSize
  FirstPages,   \* browseFirstPages
  MaxSubjects,  \* maxBrowseSubjects
  Totals        \* bound: how many subjects a season may have

ASSUME SeasonsAssumption ==
  /\ NoFetch \notin Lookups
  /\ {MaxCached, BrowseSize, FirstPages, MaxSubjects} \subseteq Nat \ {0}
  /\ MaxSubjects % BrowseSize = 0 /\ FirstPages * BrowseSize <= MaxSubjects
  /\ Totals \subseteq Nat

VARIABLES
  month,    \* what each lookup asks for
  total,    \* how many subjects the site has of a season
  context,  \* of each lookup: "live", "canceled" (its page closed) or "expired"
  lookup,   \* [at, for]: where each lookup is, and the fetch it waits for
  cached,   \* client.seasons: the fetch of each season, or NoFetch
  fetch,    \* of each lookup: [asked, got, err, done]; the pages under way and those read
  browsed   \* what each lookup returns: [err, subjects]

seasonVars == <<month, total, context, lookup, cached, fetch, browsed>>

NotFetched == [asked |-> {}, got |-> {}, err |-> "none", done |-> FALSE]
NotBrowsed == [err |-> "none", subjects |-> {}]

SeasonsInit ==
  /\ month \in [Lookups -> Months] /\ total \in Totals
  /\ context = [l \in Lookups |-> "live"]
  /\ lookup = [l \in Lookups |-> [at |-> "starts", for |-> NoFetch]]
  /\ cached = [m \in Months |-> NoFetch]
  /\ fetch = [l \in Lookups |-> NotFetched]
  /\ browsed = [l \in Lookups |-> NotBrowsed]

-----------------------------------------------------------------------------
(* A context ends: the page of the lookup closes, or its time is over.     *)

EndLookup(l) ==
  /\ context[l] = "live" /\ lookup[l].at # "returned"
  /\ \E end \in {"canceled", "expired"} : context' = [context EXCEPT ![l] = end]
  /\ UNCHANGED <<month, total, lookup, cached, fetch, browsed>>

MoveTo(l, at, for) == lookup' = [lookup EXCEPT ![l] = [at |-> at, for |-> for]]

Returns(l, err, subjects) ==
  /\ MoveTo(l, "returned", lookup[l].for)
  /\ browsed' = [browsed EXCEPT ![l] = [err |-> err, subjects |-> subjects]]

\* checkContext, before anything is asked.
BeginBrowse(l) ==
  /\ lookup[l].at = "starts"
  /\ IF context[l] = "live" THEN MoveTo(l, "joins", NoFetch) /\ UNCHANGED browsed ELSE Returns(l, context[l], {})
  /\ UNCHANGED <<month, total, context, cached, fetch>>

-----------------------------------------------------------------------------
(* sharedSeason, with seasonsMu held.                                      *)

Finished(m) == cached[m] # NoFetch /\ fetch[cached[m]].done

\* What leaves a full cache: the seasons that are read.
Evicted == {m \in Months : Finished(m)}

Known == {m \in Months : cached[m] # NoFetch}

JoinFetch(l) ==
  /\ lookup[l].at = "joins" /\ cached[month[l]] # NoFetch
  /\ MoveTo(l, "waits", cached[month[l]])
  /\ UNCHANGED <<month, total, context, cached, fetch, browsed>>

StartFetch(l) ==
  /\ lookup[l].at = "joins" /\ cached[month[l]] = NoFetch
  /\ LET evicted == IF Cardinality(Known) >= MaxCached THEN Evicted ELSE {}
     IN cached' = [m \in Months |-> IF m = month[l] THEN l ELSE IF m \in evicted THEN NoFetch ELSE cached[m]]
  /\ fetch' = [fetch EXCEPT ![l].asked = 1..FirstPages]
  /\ MoveTo(l, "fetches", l)
  /\ UNCHANGED <<month, total, context, browsed>>

-----------------------------------------------------------------------------
(* fetchSeason: the first pages at once, then the others at once.          *)

Smaller(a, b) == IF a < b THEN a ELSE b

\* Fault: a last page that is not full is not asked for.
FullPages(t) == FirstPages + (Smaller(t, MaxSubjects) - FirstPages * BrowseSize) \div BrowseSize

\* How many pages the season has, of those that are read.
PagesOf(t) == FirstPages + (Smaller(t, MaxSubjects) - FirstPages * BrowseSize + BrowseSize - 1) \div BrowseSize

MorePages(t) == IF Smaller(t, MaxSubjects) > FirstPages * BrowseSize THEN (FirstPages + 1)..PagesOf(t) ELSE {}

Subjects(t, pages) == {s \in 1..t : (s - 1) \div BrowseSize + 1 \in pages}

\* The season is read, and those who wait are woken.
PageComes(l) ==
  /\ lookup[l].at = "fetches" /\ context[l] = "live"
  /\ \E p \in fetch[l].asked :
       LET got  == fetch[l].got \cup {p}
           left == fetch[l].asked \ {p}
           more == IF left = {} THEN MorePages(total) \ got ELSE left
       IN /\ fetch' = [fetch EXCEPT ![l].got = got, ![l].asked = more]
          /\ IF more = {} THEN MoveTo(l, "closes", l) ELSE UNCHANGED lookup
  /\ UNCHANGED <<month, total, context, cached, browsed>>

\* A page fails, of itself or with the context, and the others are canceled; the
\* error kept is the first one's.
PageFails(l) ==
  /\ lookup[l].at = "fetches"
  /\ fetch' = [fetch EXCEPT ![l].asked = {}, ![l].got = {}, ![l].err = IF context[l] = "live" THEN "failed" ELSE context[l]]
  /\ MoveTo(l, "drops", l)
  /\ UNCHANGED <<month, total, context, cached, browsed>>

\* Fault: a fetch that failed leaves those who wait for it waiting.
DropsAlone(l) ==
  /\ lookup[l].at = "drops"
  /\ cached' = [cached EXCEPT ![month[l]] = NoFetch]
  /\ Returns(l, fetch[l].err, {})
  /\ UNCHANGED <<month, total, context, fetch>>

DropFetch(l) ==
  /\ lookup[l].at = "drops"
  /\ cached' = [cached EXCEPT ![month[l]] = NoFetch]
  /\ MoveTo(l, "closes", l)
  /\ UNCHANGED <<month, total, context, fetch, browsed>>

\* BrowseSeason asks again when a fetch it shared was canceled and it lives itself.
AsksAgain(l, err) == err = "canceled" /\ context[l] = "live"

Listing(f) == Subjects(total, fetch[f].got)

CloseFetch(l) ==
  /\ lookup[l].at = "closes"
  /\ fetch' = [fetch EXCEPT ![l].done = TRUE]
  /\ Returns(l, fetch[l].err, Listing(l))
  /\ UNCHANGED <<month, total, context, cached>>

-----------------------------------------------------------------------------
(* A lookup that waits for the fetch of another.                           *)

FetchHeard(l) ==
  /\ lookup[l].at = "waits" /\ fetch[lookup[l].for].done
  /\ LET shared == fetch[lookup[l].for]
     IN IF AsksAgain(l, shared.err)
        THEN MoveTo(l, "joins", NoFetch) /\ UNCHANGED browsed
        ELSE Returns(l, shared.err, Listing(lookup[l].for))
  /\ UNCHANGED <<month, total, context, cached, fetch>>

StopsWaiting(l) ==
  /\ lookup[l].at = "waits" /\ context[l] # "live"
  /\ Returns(l, context[l], {})
  /\ UNCHANGED <<month, total, context, cached, fetch>>

LookupStep(l) ==
  \/ BeginBrowse(l) \/ JoinFetch(l) \/ StartFetch(l) \/ PageComes(l) \/ PageFails(l)
  \/ DropFetch(l) \/ CloseFetch(l) \/ FetchHeard(l) \/ StopsWaiting(l)

SeasonsNext == \E l \in Lookups : EndLookup(l) \/ LookupStep(l)

\* Every request ends, of itself or after its time, and every goroutine runs on.
SeasonsFairness == \A l \in Lookups : WF_seasonVars(LookupStep(l))

SeasonsSpec == SeasonsInit /\ [][SeasonsNext]_seasonVars /\ SeasonsFairness

-----------------------------------------------------------------------------
(* What the lookups of a season may rely on.                               *)

UnderWay(l) == lookup[l].at \in {"fetches", "drops"}

\* One fetch of a season runs at a time, and lookups that come meanwhile find
\* it; a failed one is gone before anyone hears of it, so that the next lookup
\* asks the site again (sharedSeason: the order of delete and close, and what a
\* full cache drops).
SeasonIsShared ==
  /\ \A l \in Lookups : UnderWay(l) => cached[month[l]] = l
  /\ \A m \in Months : Finished(m) => fetch[cached[m]].err = "none"

WholeSeason == 1..Smaller(total, MaxSubjects)

\* A lookup is answered with the whole of its own season, of however many pages,
\* or with an error; with a cancellation only if its own context is over
\* (fetchSeason, browsePages, BrowseSeason).
SeasonIsWhole ==
  \A l \in Lookups : lookup[l].at = "returned" =>
    /\ browsed[l].err = "none" => browsed[l].subjects = WholeSeason /\ month[lookup[l].for] = month[l]
    /\ browsed[l].err # "none" => browsed[l].subjects = {}
    /\ browsed[l].err = "canceled" => context[l] # "live"

\* Lookups of one season share one fetch, and each has the whole of it or an error
\* of its own (sharedSeason and fetchSeason).
LookupsAreServed == SeasonIsShared /\ SeasonIsWhole

=============================================================================
