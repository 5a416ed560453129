------------------------------- MODULE MCService -------------------------------
(* Parts of the service that share no state, each explored from its own       *)
(* initial states while the others rest: the backend's operations, the        *)
(* season listing of Bangumi, and the choice of a metadata record. The works  *)
(* are a show, its sequel under the same name, a side story and a film.       *)
EXTENDS Backend, Seasons, Matching

VARIABLE part

serviceVars == <<part, vars, seasonVars, matchVars>>

Name(main, sub) == [main |-> main, sub |-> sub]
Work(id, title, own, season, year, episodes) ==
    [id |-> id, title |-> title, own |-> own, season |-> season, year |-> year, episodes |-> episodes]

MCWorks == {
    Work(1, Name(<<"hero">>, <<>>), Name(<<"yong">>, <<>>), 0, 2001, 12),
    Work(2, Name(<<"hero">>, <<>>), Name(<<"yong">>, <<>>), 2, 2002, 12),
    Work(3, Name(<<"hero">>, <<"side">>), Name(<<"hero">>, <<"side">>), 0, 2004, 6),
    Work(4, Name(<<"hero", "film">>, <<>>), Name(<<"hero", "film">>, <<>>), 0, 2004, 1)}

\* Of the three lookups two are of the first month.
ServiceInit ==
    /\ part \in {"backend", "seasons", "matching"} /\ Init /\ SeasonsInit /\ MatchingInit
    /\ month[1] = 1 /\ month[2] = 1
    /\ part # "seasons" => month[3] = 1 /\ total = CHOOSE t \in Totals : TRUE
    /\ part # "matching" => anime.id = 1 /\ query = CHOOSE q \in Queries(anime) : TRUE

ServiceNext ==
    \/ part = "backend" /\ Next /\ UNCHANGED <<part, seasonVars, matchVars>>
    \/ part = "seasons" /\ SeasonsNext /\ UNCHANGED <<part, vars, matchVars>>
    \/ part = "matching" /\ MatchingNext /\ UNCHANGED <<part, vars, seasonVars>>

\* The fairness of Backend, and that of Seasons for the part that is explored.
ServiceSpec ==
    /\ ServiceInit /\ [][ServiceNext]_serviceVars
    /\ Fairness
    /\ \A l \in Lookups : WF_seasonVars(part = "seasons" /\ LookupStep(l))

\* What waits for others ends: Close of the service, which waits for every
\* operation, and each lookup of a season, also one that waits for another's fetch.
Waiting == \/ closing \notin {"no", "done"}
           \/ \E l \in Lookups : lookup[l].at \notin {"starts", "returned"}
WaitsEnd == Waiting ~> ~Waiting
=============================================================================
