-------------------------------- MODULE Anime1 --------------------------------
(***************************************************************************)
(* What the anime1 source (adapters/source/anime1) makes of the site's     *)
(* answers: its catalog and a search in it, the episodes of an anime page  *)
(* by page, and the stream of an episode.                                  *)
(*                                                                         *)
(* The site is not the program's: it adds and withdraws posts at any       *)
(* moment, so two pages of one list are read from two different archives,  *)
(* and it may answer late, not at all, or with another page.               *)
(*                                                                         *)
(* A post is [id, kind]; what its HTML must hold is its kind:              *)
(*   "episode"   an article the list shows;                                *)
(*   "other"     an article with an id, without one clean title or number: *)
(*               skipped, its id kept;                                     *)
(*   "nameless"  an article without an id: skipped;                        *)
(*   "oversized" a number, title or id over its limit: a malformed page;   *)
(*   "foreign"   an article of another category: a malformed page.         *)
(***************************************************************************)
EXTENDS Integers, Sequences, SequencesExt, FiniteSets, Functions, Lists

CONSTANTS
  MaxPages,     \* maxEpisodePages
  MaxListed,  \* maxEpisodeCount
  PageSize,     \* posts of one page of the site
  MaxPosts      \* bound: posts there ever are

ASSUME Anime1Assumption ==
  /\ MaxPages \in Nat \ {0} /\ MaxListed \in Nat /\ PageSize \in Nat \ {0} /\ MaxPosts \in Nat

VARIABLES
  archive,   \* the site's posts of the category, the newest first
  lastId,    \* id of the newest post there has been
  withdrawn, \* whether the site withdrew a post during the call
  asked,     \* what the call asks for: [what, id], the id of the episode for a stream
  at,        \* "idle", "page" (a page or the catalog) or "stream" (the API): the request under way
  attempt,   \* of getPage: 0 or 1
  live,      \* whether the context still lives
  page,      \* pageNumber of the request
  prefix,    \* decodedPrefix the links have shown, or "unknown"
  newest,    \* newestFirst: the episodes gathered
  seen,      \* seenIDs
  first,     \* what the archive held when the first page was read
  posted,    \* tokens the API was asked with, in order
  reply     \* what the call returned, None before

siteVars == <<archive, lastId, withdrawn>>
listVars == <<page, prefix, newest, seen, first>>
animeVars == <<siteVars, listVars, asked, at, attempt, live, posted, reply>>

PostKinds == {"episode", "other", "nameless", "oversized", "foreign"}
None   == [kind |-> "none"]
Failed == [kind |-> "failed"]
ListOf(ids) == [kind |-> "list", ids |-> ids]

Ask(what, id) == [what |-> what, id |-> id]

Ids(posts) == [i \in DOMAIN posts |-> posts[i].id]
Episodes == [id : Nat, kind : {"episode"}]
EpisodesOf(posts) == Only(posts, Episodes)

AnimeInit ==
  /\ \E n \in 0..MaxPosts : \E k \in [1..n -> PostKinds] :
       /\ lastId = n
       /\ archive = [i \in 1..n |-> [id |-> n + 1 - i, kind |-> k[i]]]
       /\ Cardinality({i \in 1..n : k[i] # "episode"}) <= 1
  /\ withdrawn = FALSE /\ asked = Ask("nothing", 0) /\ at = "idle" /\ attempt = 0 /\ live = TRUE
  /\ page = 1 /\ prefix = "unknown" /\ newest = <<>> /\ seen = {} /\ first = <<>>
  /\ posted = <<>> /\ reply = None

-----------------------------------------------------------------------------
(* The site.                                                               *)

PostsOn(n) == SubSeq(archive, (n - 1) * PageSize + 1, IF n * PageSize < Len(archive) THEN n * PageSize ELSE Len(archive))

Link(onSite, of, n) == [site |-> onSite, prefix |-> of, page |-> n]

\* The links to older posts of page n: above and below the list, none on the last page.
LinksOn(n) == IF Len(archive) > n * PageSize THEN {Link(TRUE, "show", n + 1)} ELSE {}

\* Links it may have instead or besides: of another page, of another category,
\* or no page of a category on the site at all.
OtherLinks(n) == {Link(TRUE, "show", n + 2), Link(TRUE, "else", n + 1), Link(FALSE, "show", n + 1)}

PagesShown(n) ==
  {[posts |-> PostsOn(n), links |-> linked] :
     linked \in {LinksOn(n)} \cup {{l} : l \in OtherLinks(n)} \cup {LinksOn(n) \cup {l} : l \in OtherLinks(n)}}

\* CatalogRows of the catalog: an id, a title and the fields with what they tell.
CatalogRows == [id : {0, 1, 2}, title : {"", "x", "xy"}]

NewPost ==
  /\ at # "idle" /\ lastId < MaxPosts
  /\ lastId' = lastId + 1
  /\ archive' = <<[id |-> lastId + 1, kind |-> "episode"]>> \o archive
  /\ UNCHANGED <<withdrawn, listVars, asked, at, attempt, live, posted, reply>>

Withdraw ==
  /\ at # "idle" /\ ~withdrawn
  /\ \E i \in DOMAIN archive : archive' = RemoveAt(archive, i)
  /\ withdrawn' = TRUE
  /\ UNCHANGED <<lastId, listVars, asked, at, attempt, live, posted, reply>>

-----------------------------------------------------------------------------
(* Requests.                                                               *)

\* The call ends; what it gathered is dropped unless it is the answer.
Return(result) ==
  /\ reply' = result /\ at' = "idle"
  /\ UNCHANGED <<siteVars, asked, attempt, live>>

Asks(what) ==
  /\ at = "idle" /\ reply = None
  /\ asked' = what /\ at' = "page"
  /\ UNCHANGED <<siteVars, listVars, attempt, live, posted, reply>>

\* Bound: a catalog, which is no archive, is asked for once.
AskCatalog == archive = <<>> /\ Asks(Ask("catalog", 0))
AskEpisodes == Asks(Ask("episodes", 0))
AskStream == \E i \in DOMAIN archive : Asks(Ask("stream", archive[i].id))

\* getPage repeats a page that the site leaves without an answer, once and while
\* the context lives; the catalog and the API are not asked again.
Repeats == at = "page" /\ asked.what # "catalog" /\ attempt = 0 /\ live

RequestTimesOut ==
  /\ at # "idle"
  /\ IF Repeats THEN attempt' = 1 /\ UNCHANGED <<siteVars, asked, at, live, reply>> ELSE Return(Failed)
  /\ UNCHANGED <<listVars, posted>>

\* Any other failure: of the request, its status, its type or its size.
RequestFails == at # "idle" /\ Return(Failed) /\ UNCHANGED <<listVars, posted>>

Cancel ==
  /\ at # "idle" /\ live
  /\ live' = FALSE
  /\ UNCHANGED <<siteVars, listVars, asked, at, attempt, posted, reply>>

-----------------------------------------------------------------------------
(* The catalog and a search in it.                                         *)

\* parseRow takes a row with an id other than 0 and a title.
ValidRow(row) == row.id # 0 /\ row.title # ""

\* The first valid row of each id, in the order of the rows.
Catalog(rows) ==
  LET isFirst(i) == ValidRow(rows[i]) /\ \A j \in 1..(i - 1) : ~(ValidRow(rows[j]) /\ rows[j].id = rows[i].id)
  IN [k \in 1..Cardinality({i \in DOMAIN rows : isFirst(i)}) |->
        rows[CHOOSE i \in DOMAIN rows : isFirst(i) /\ k = Cardinality({j \in 1..i : isFirst(j)})]]

\* Titles a query is a part of: "x" of both, "xy" of itself, and of no title "".
HasQuery(row, query) == query = row.title \/ query = "x"
SearchIn(rows, query) == Only(Catalog(rows), {row \in CatalogRows : HasQuery(row, query)})

CatalogArrives ==
  /\ at = "page" /\ asked.what = "catalog"
  /\ \E rows \in UNION {[1..n -> CatalogRows] : n \in 0..2}, query \in {"x", "xy"} :
       IF live /\ Catalog(rows) # <<>>
       THEN Return([kind |-> "found", in |-> rows, query |-> query, ids |-> Ids(SearchIn(rows, query))])
       ELSE Return(Failed)
  /\ UNCHANGED <<listVars, posted>>

-----------------------------------------------------------------------------
(* The episodes of an anime.                                               *)

\* parseEpisodePage: a page of the category that shows an episode, its links to
\* older posts all one page of a category.
WellFormed(p) ==
  /\ \A i \in DOMAIN p.posts : p.posts[i].kind \in {"episode", "other", "nameless"}
  /\ EpisodesOf(p.posts) # <<>>
  /\ \A l, m \in p.links : l.site /\ l.page <= MaxPages /\ l = m

\* parsePostID: the ids of the page's posts that have one.
Named(p) == {p.posts[i].id : i \in {j \in DOMAIN p.posts : p.posts[j].kind # "nameless"}}

\* Fault: a page is not compared with those before it.
NeverRepeated(p) == FALSE

\* A post of the page was on an earlier one.
Repeated(p) == Named(p) \cap seen # {}

TooMany(p) == Len(newest) + Len(EpisodesOf(p.posts)) > MaxListed

\* validateEpisodePagination: the page after this one, of the prefix seen before.
Follows(l) == l.page = page + 1 /\ prefix \in {"unknown", l.prefix}

\* The episodes gathered, the oldest first.
OldestFirst(posts) == Reverse(Ids(posts))

\* The page is added to what was gathered, and the next is asked for.
Continue(p, l) ==
  /\ page' = l.page /\ prefix' = l.prefix /\ attempt' = 0
  /\ UNCHANGED <<siteVars, asked, at, live, reply>>

PageArrives ==
  /\ at = "page" /\ asked.what = "episodes"
  /\ first' = IF page = 1 THEN archive ELSE first
  /\ \E p \in PagesShown(page) :
       /\ newest' = newest \o EpisodesOf(p.posts) /\ seen' = seen \cup Named(p)
       /\ \/ /\ ~live \/ ~WellFormed(p) \/ Repeated(p) \/ TooMany(p)
             /\ Return(Failed) /\ UNCHANGED <<page, prefix>>
          \/ /\ live /\ WellFormed(p) /\ ~Repeated(p) /\ ~TooMany(p)
             /\ \/ p.links = {} /\ Return(ListOf(OldestFirst(newest'))) /\ UNCHANGED <<page, prefix>>
                \/ \E l \in p.links :
                     IF page < MaxPages /\ Follows(l) THEN Continue(p, l)
                     ELSE Return(Failed) /\ UNCHANGED <<page, prefix>>
  /\ UNCHANGED posted

-----------------------------------------------------------------------------
(* The stream of an episode.                                               *)

\* What the site shows for a post: the post alone, with or without its video,
\* or once it is withdrawn another post, or the list it was in.
PostPages(id) ==
  LET shown == {<<p>> : p \in Range(Ids(archive))} \cup {Ids(archive)}
      own == IF id \in Range(Ids(archive)) THEN {<<id>>} ELSE shown
  IN {[articles |-> a, tokens |-> t] : a \in own, t \in own \cup {<<>>}}

\* parseResolverToken: the one article is the episode's, and it has one token.
NamesEpisode(p) == p.articles = <<asked.id>>
HasToken(p) == NamesEpisode(p) /\ Len(p.tokens) = 1

\* The page's token goes to the API, in a request that is not repeated.
TokenArrives ==
  /\ at = "page" /\ asked.what = "stream"
  /\ \E p \in PostPages(asked.id) :
       IF live /\ HasToken(p)
       THEN at' = "stream" /\ posted' = posted \o p.tokens /\ UNCHANGED <<siteVars, asked, attempt, live, reply>>
       ELSE Return(Failed) /\ UNCHANGED posted
  /\ UNCHANGED listVars

\* Sources the API names: an mp4 of the site's hosts, another type, or an mp4 elsewhere.
Sources == UNION {[1..n -> {"mp4", "hls", "elsewhere"}] : n \in 0..2}
Cookies == {"e", "h", "p"}

Playable(sources) == {i \in DOMAIN sources : sources[i] = "mp4"}
FirstPlayable(sources) == CHOOSE i \in Playable(sources) : \A j \in Playable(sources) : i <= j

StreamArrives ==
  /\ at = "stream"
  /\ \E sources \in Sources, cookies \in SUBSET Cookies, succeeds \in BOOLEAN :
       IF live /\ succeeds /\ Playable(sources) # {} /\ cookies = Cookies
       THEN Return([kind |-> "stream", of |-> Last(posted), source |-> FirstPlayable(sources)])
       ELSE Return(Failed)
  /\ UNCHANGED <<listVars, posted>>

AnimeNext ==
  \/ NewPost \/ Withdraw
  \/ AskCatalog \/ AskEpisodes \/ AskStream \/ RequestTimesOut \/ RequestFails \/ Cancel
  \/ CatalogArrives \/ PageArrives \/ TokenArrives \/ StreamArrives

AnimeSpec == AnimeInit /\ [][AnimeNext]_animeVars

-----------------------------------------------------------------------------
(* What the answers are worth.                                             *)

\* A list of episodes is what the site held when its first page was read, whole
\* and the oldest first, although new posts shift the pages while they are read
\* and a page may link elsewhere. (A post withdrawn meanwhile shifts them the
\* other way, and nothing shows that one was passed over: such lists are left out.)
ListIsTheArchive ==
  reply.kind = "list" /\ ~withdrawn => reply.ids = OldestFirst(EpisodesOf(first))

\* A search finds each anime once, under a title that has the query.
FoundIsInCatalog ==
  reply.kind = "found" =>
    /\ IsInjective(reply.ids)
    /\ \A id \in Range(reply.ids) :
         \E i \in DOMAIN reply.in : reply.in[i].id = id /\ HasQuery(reply.in[i], reply.query)

\* A stream is of the episode asked for, whatever page the site shows for it,
\* and its token was sent once.
StreamIsItsEpisode ==
  /\ reply.kind = "stream" => reply.of = asked.id
  /\ Len(posted) <= 1

\* What the source answers is what the site has (Episodes, Search and Resolve of
\* anime1.go and resolver.go): no list with a hole or a repetition, no stream of
\* another episode, although the site changes between the requests.
AnswerIsTheSites == ListIsTheArchive /\ FoundIsInCatalog /\ StreamIsItsEpisode
=============================================================================
