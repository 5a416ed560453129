------------------------------- MODULE Matching -------------------------------
(***************************************************************************)
(* Which record of which metadata provider the program takes for an anime  *)
(* (core/metadata_refresh.go and metadata_match.go): the providers are     *)
(* searched in turn, what they name is scored against the anime's title,   *)
(* and nothing is stored unless one candidate is certain, because no       *)
(* metadata is better than wrong metadata (ADR-009).                       *)
(*                                                                         *)
(* Titles come as metadataFields leaves them: a main part and a subtitle,  *)
(* each a sequence of words, and a season apart, 0 if none is named. Works *)
(* is what there really is; a candidate tells of one, and may leave out    *)
(* what it does not know. The comparison needs no more of a year or of a   *)
(* number of episodes than 0 for unknown.                                  *)
(***************************************************************************)
EXTENDS Integers, Sequences, SequencesExt, FiniteSets, Lists

CONSTANTS
  Works,         \* [id, title, own, season, year, episodes]: title as the site has it, own as Bangumi has it
  MaxCandidates, \* metadataMaxCandidates
  MaxFound       \* bound: candidates of one search

ASSUME MatchingAssumption ==
  /\ MaxCandidates \in Nat /\ MaxFound \in Nat /\ IsFiniteSet(Works)
  /\ \A w \in Works : /\ {w.id, w.season, w.year, w.episodes} \subseteq Nat
                      /\ DOMAIN w.title = {"main", "sub"} /\ DOMAIN w.own = {"main", "sub"}
  /\ \A v, w \in Works : v.id = w.id => v = w

VARIABLES
  anime,      \* the work the anime is
  query,      \* the MetadataQuery made of what the site tells of it
  step,       \* "search" of each provider in turn, "browse", "get", "save" or "ended"
  turn,       \* the provider asked
  failures,   \* providers whose search failed
  candidates, \* what they named
  lives,      \* whether the context still lives
  chosen,     \* the candidate accepted, None before
  stored,     \* the work whose metadata is stored for the anime, or None
  ended       \* what RefreshMetadata returns: "found", "none", "unavailable", "canceled" or "error"

matchVars == <<anime, query, step, turn, failures, candidates, lives, chosen, stored, ended>>

-----------------------------------------------------------------------------
(* Scores.                                                                 *)

MediumScore == 50
HighScore == 70
WeakExactScore == HighScore - 10
AmbiguityGap == 8

NoName == [main |-> <<>>, sub |-> <<>>]

Whole(n) == n.main \o n.sub

\* metadataNameMatch: the same words, wherever the subtitle begins.
FullMatch(a, b) == Whole(a) = Whole(b)

\* The same main title, with a subtitle on one side only.
OneSided(a, b) == a.main = b.main /\ (a.sub = <<>> \/ b.sub = <<>>)

IsNoParticle(word) == word # "of"
WithoutParticles(words) == SelectSeq(words, IsNoParticle)

\* metadataParticleMatch.
ParticleMatch(a, b) ==
  /\ a.sub # <<>> /\ a.sub = b.sub
  /\ WithoutParticles(a.main) = WithoutParticles(b.main)

SubtitlesDiffer(a, b) == a.sub # <<>> /\ b.sub # <<>> /\ a.sub # b.sub

\* Of main titles, none shorter than its limit here.
PartOf(a, b) == a # <<>> /\ \E i \in 0..(Len(b) - Len(a)) : SubSeq(b, i + 1, i + Len(a)) = a

\* metadataTextScore.
TextScore(a, b) ==
  IF a = NoName \/ b = NoName THEN 0
  ELSE IF FullMatch(a, b) THEN HighScore
  ELSE IF OneSided(a, b) \/ ParticleMatch(a, b) THEN WeakExactScore
  ELSE IF ~SubtitlesDiffer(a, b) /\ (PartOf(a.main, b.main) \/ PartOf(b.main, a.main)) THEN MediumScore + 2
  ELSE 0

Best(scores) == CHOOSE s \in scores : \A t \in scores : t <= s

AskedNames(q) == {q.title, q.native}
Names(c) == {c.title, c.native}
Exactly(a, b) == TextScore(a, b) = HighScore

\* bestMetadataTitleScore: an alias counts only if it is the name, and then less.
TitleScore(q, c) ==
  Best({TextScore(a, n) : a \in AskedNames(q), n \in Names(c)}
       \cup {IF \E a \in AskedNames(q), n \in c.aliases : Exactly(a, n) THEN WeakExactScore ELSE 0})

\* metadataSeriesNames: what those call themselves that have the title as an alias.
SeriesNames(q, cs) ==
  (UNION {Names(c) : c \in {d \in Range(cs) : \E a \in AskedNames(q), n \in d.aliases : Exactly(a, n)}})
    \ (AskedNames(q) \cup {NoName})

\* candidateTitleScore.
NameScore(q, c, series) ==
  Best({TitleScore(q, c), IF \E s \in series, n \in Names(c) : Exactly(s, n) THEN WeakExactScore ELSE 0})

\* metadataHintScore: what two values that may be unknown count for.
Hint(a, b, same, differ) == IF 0 \in {a, b} THEN 0 ELSE IF a = b THEN same ELSE differ

SeasonHint(a, b) == IF 0 \in {a, b} THEN (IF a = b THEN 0 ELSE -10) ELSE (IF a = b THEN 12 ELSE -14)
YearHint(a, b) == IF a - b \in {-1, 1} THEN 0 ELSE Hint(a, b, 12, -14)

\* Fault: a season that only one side names counts for nothing.
LenientHint(q, c) == Hint(q.season, c.season, 12, -14) + YearHint(q.year, c.year) + Hint(q.episodes, c.episodes, 8, -10)

HintScore(q, c) == SeasonHint(q.season, c.season) + YearHint(q.year, c.year) + Hint(q.episodes, c.episodes, 8, -10)

-----------------------------------------------------------------------------
(* Works that the scores can tell apart (StoredIsTheAnime).                *)

\* What stands before a title in brackets.
LatinName == [main |-> <<"latin">>, sub |-> <<>>]

Called(w) == {w.title, w.own}
AtMostAlike(v, w, score) == \A m \in Called(v), n \in Called(w) : TextScore(m, n) <= score

\* By season and year; without a season, by names that are not the same and by
\* the year, or by the only name each has; or by names that have nothing in common
\* with those of any work of the title.
ToldApart(v, w) ==
  \/ v.season # w.season /\ v.year # w.year
  \/ /\ v.season = 0 /\ w.season = 0
     /\ \/ AtMostAlike(v, w, WeakExactScore) /\ v.year # w.year
        \/ AtMostAlike(v, w, MediumScore + 2) /\ v.own = v.title /\ w.own = w.title
  \/ \A u \in Works : FullMatch(u.title, v.title) => AtMostAlike(u, w, 0)

ASSUME WorksAssumption ==
  /\ \A v, w \in Works : v # w => ToldApart(v, w)
  /\ \A w \in Works : NoName \notin Called(w) /\ \A n \in Called(w) : TextScore(LatinName, n) = 0

-----------------------------------------------------------------------------
(* MatchMetadata.                                                          *)

ScoredAs(c, title, hints) == [of |-> c, title |-> title, score |-> title + hints]

\* scoreMetadataCandidates, given the names of the series: those whose names match at all.
Scored(q, cs, series) ==
  LET all == [i \in DOMAIN cs |-> ScoredAs(cs[i], NameScore(q, cs[i], series), HintScore(q, cs[i]))]
  IN Only(all, {s \in Range(all) : s.title # 0})

Rank(provider) == IF provider = "bangumi" THEN 0 ELSE 1

\* Fault: nothing decides between two of one score.
BeforeByScore(a, b) == a.score > b.score

\* metadataCandidateBefore.
Before(a, b) ==
  \/ a.score > b.score
  \/ /\ a.score = b.score
     /\ \/ Rank(a.of.provider) < Rank(b.of.provider)
        \/ (a.of.provider = b.of.provider /\ a.of.id < b.of.id)

\* The first after a stable sort.
TopOf(s) == CHOOSE i \in DOMAIN s :
  \A j \in DOMAIN s \ {i} : ~Before(s[j], s[i]) /\ (j < i => Before(s[i], s[j]))

Agree(a, b) == a = 0 \/ b = 0 \/ a = b

\* equivalentMetadataCandidates.
Equivalent(a, b) ==
  /\ (a.title # NoName /\ a.title = b.title) \/ (a.native # NoName /\ a.native = b.native)
  /\ Agree(a.season, b.season) /\ Agree(a.year, b.year) /\ Agree(a.episodes, b.episodes)

SameWork(a, b) == Equivalent(a, b) /\ (a.provider # b.provider \/ a.id = b.id)

\* sameSeasonArcs; an arc of Works is never a recap.
SeasonArcs(a, b) ==
  /\ a.provider = b.provider /\ a.season # 0 /\ a.season = b.season
  /\ a.title.main # <<>> /\ a.title.main = b.title.main /\ a.title.sub # <<>> /\ b.title.sub # <<>>

Close(top, other) == other.score >= top.score - AmbiguityGap

Conflict(top, others) ==
  \E other \in others : ~SameWork(top.of, other.of) /\ ~SeasonArcs(top.of, other.of) /\ Close(top, other)

CrossChecked(top, others) ==
  \E other \in others : /\ other.score >= MediumScore /\ Equivalent(top.of, other.of)
                        /\ top.of.provider # other.of.provider

NoMatch == [kind |-> "none"]

\* The first of the ranking, if it is certain.
Certain(top, others) ==
  /\ top.score >= MediumScore /\ ~Conflict(top, others)
  /\ \/ top.score >= HighScore
     \/ CrossChecked(top, others)
     \/ top.title = WeakExactScore /\ top.score >= WeakExactScore

Accepted(s, first) ==
  IF Certain(s[first], {s[i] : i \in DOMAIN s \ {first}}) THEN s[first].of ELSE NoMatch

Ranked(s) == IF s = <<>> THEN NoMatch ELSE Accepted(s, TopOf(s))

\* The candidate accepted, or NoMatch.
MatchMetadata(q, cs) ==
  IF AskedNames(q) = {NoName} \/ Len(cs) > MaxCandidates THEN NoMatch
  ELSE Ranked(Scored(q, cs, SeriesNames(q, cs)))

-----------------------------------------------------------------------------
(* What the site and the providers tell.                                   *)

\* metadataQueryFor: the site may not know the year or the number of episodes,
\* and gives the year a show reached it; it may have the title in brackets
\* behind a Latin one, and names a season unless it is the first.
Queries(w) ==
  {[title |-> t[1], native |-> t[2], season |-> w.season, year |-> y, episodes |-> e] :
     t \in {<<w.title, NoName>>, <<LatinName, w.title>>},
     y \in {0, w.year, w.year + 1}, e \in {0, w.episodes}}

\* A provider's record: Bangumi has its own names and the site's of a first
\* season among the aliases; it may not know the year or the episodes.
Record(provider, w, knows) ==
  LET own == provider = "bangumi"
  IN [provider |-> provider, id |-> w.id, kind |-> "candidate",
      title |-> IF own THEN w.own ELSE w.title, native |-> NoName, season |-> w.season,
      aliases |-> IF own /\ w.season = 0 /\ w.own # w.title THEN {w.title} ELSE {},
      year |-> IF knows = "all" THEN w.year ELSE 0, episodes |-> IF knows = "all" THEN w.episodes ELSE 0]

\* The answer to one search, in some order (OrderIsNoMatter).
Found(provider, ws, knows) ==
  LET listed == SetToSeq(ws)
  IN [i \in DOMAIN listed |-> Record(provider, listed[i], knows)]

Knowing == {"all", "none"}
Searches(provider) == {Found(provider, ws, k) : ws \in {s \in SUBSET Works : Cardinality(s) <= MaxFound}, k \in Knowing}

\* The season that the site tells of the anime, which Bangumi alone lists.
InSeason == {w \in Works : w.year = query.year}

-----------------------------------------------------------------------------
(* RefreshMetadata.                                                        *)

Providers == <<"bangumi", "anilist">>

MatchingInit ==
  /\ anime \in Works /\ query \in Queries(anime)
  /\ step = "search" /\ turn = 1 /\ failures = 0 /\ candidates = <<>>
  /\ lives = TRUE /\ chosen = NoMatch /\ stored = NoMatch /\ ended = "no"

EndRefresh(result) == step' = "ended" /\ ended' = result

LookupEnds ==
  /\ step # "ended" /\ lives
  /\ lives' = FALSE
  /\ UNCHANGED <<anime, query, step, turn, failures, candidates, chosen, stored, ended>>

\* After a match or none; and whether the season's list is still to be asked.
Settle(match, more) ==
  IF match # NoMatch THEN chosen' = match /\ step' = "get" /\ UNCHANGED ended
  ELSE /\ UNCHANGED chosen
       /\ IF more THEN step' = "browse" /\ UNCHANGED ended ELSE EndRefresh("none")

\* After the last search: the match, and the season's list where none is accepted
\* and the site told which season it is.
Searched(cs, failed) ==
  /\ candidates' = cs /\ failures' = failed
  /\ IF turn < Len(Providers) THEN turn' = turn + 1 /\ UNCHANGED <<step, chosen, ended>>
     ELSE /\ UNCHANGED turn
          /\ IF failed = Len(Providers) THEN EndRefresh("unavailable") /\ UNCHANGED chosen
             ELSE Settle(MatchMetadata(query, cs), query.year # 0)
  /\ UNCHANGED <<anime, query, lives, stored>>

SearchAnswers ==
  /\ step = "search" /\ lives
  /\ \E found \in Searches(Providers[turn]) : Searched(candidates \o found, failures)

SearchFailed == step = "search" /\ lives /\ Searched(candidates, failures + 1)

SearchEnds ==
  /\ step = "search" /\ ~lives /\ EndRefresh("canceled")
  /\ UNCHANGED <<anime, query, turn, failures, candidates, lives, chosen, stored>>

RefOf(c) == <<c.provider, c.id>>

FirstOf(s, n) == SubSeq(s, 1, IF Len(s) < n THEN Len(s) ELSE n)

\* addSeasonCandidates: those not named yet whose names match at all, up to the limit.
Added(found) ==
  LET isNew(c) == /\ RefOf(c) \notin {RefOf(d) : d \in Range(candidates)}
                  /\ NameScore(query, c, SeriesNames(query, candidates)) > 0
      room == IF MaxCandidates > Len(candidates) THEN MaxCandidates - Len(candidates) ELSE 0
  IN candidates \o FirstOf(Only(found, {c \in Range(found) : isNew(c)}), room)

Browsed(cs) ==
  /\ step = "browse" /\ lives
  /\ candidates' = cs
  /\ Settle(MatchMetadata(query, cs), FALSE)
  /\ UNCHANGED <<anime, query, turn, failures, lives, stored>>

SeasonAnswers == \E ws \in SUBSET InSeason, k \in Knowing : Browsed(Added(Found("bangumi", ws, k)))

SeasonFails == Browsed(candidates)

SeasonEnds ==
  /\ step = "browse" /\ ~lives /\ EndRefresh("canceled")
  /\ UNCHANGED <<anime, query, turn, failures, candidates, lives, chosen, stored>>

GetAnswers ==
  /\ step = "get" /\ lives
  /\ step' = "save"
  /\ UNCHANGED <<anime, query, turn, failures, candidates, lives, chosen, stored, ended>>

GetFails ==
  /\ step = "get"
  /\ EndRefresh(IF lives THEN "unavailable" ELSE "canceled")
  /\ UNCHANGED <<anime, query, turn, failures, candidates, lives, chosen, stored>>

SaveMetadata ==
  /\ step = "save"
  /\ \/ lives /\ stored' = chosen /\ EndRefresh("found")
     \/ UNCHANGED stored /\ EndRefresh("error")
  /\ UNCHANGED <<anime, query, turn, failures, candidates, lives, chosen>>

MatchingNext ==
  \/ LookupEnds \/ SearchAnswers \/ SearchFailed \/ SearchEnds
  \/ SeasonAnswers \/ SeasonFails \/ SeasonEnds \/ GetAnswers \/ GetFails \/ SaveMetadata

MatchingSpec == MatchingInit /\ [][MatchingNext]_matchVars

-----------------------------------------------------------------------------
(* What the match is worth.                                                *)

\* When the anime itself is among the candidates, under a name that matches, no
\* other work is stored for it, unless the site has the year wrong (of a show that
\* reached it a year late, a sequel of that year may be stored).
Recognised == \E c \in Range(candidates) : c.id = anime.id /\ NameScore(query, c, SeriesNames(query, candidates)) > 0
StoredIsTheAnime ==
  stored # NoMatch /\ Recognised /\ query.year \in {0, anime.year} => stored.id = anime.id

\* The order in which candidates come decides nothing.
OrderIsNoMatter ==
  step \in {"get", "browse"} \/ ended = "none" => MatchMetadata(query, Reverse(candidates)) = MatchMetadata(query, candidates)
=============================================================================
