------------------------------- MODULE MCSources -------------------------------
(* Parts that share no state, each explored from its own initial states       *)
(* while the others rest: the event relay, the anime1 source and the check of *)
(* a range.                                                                   *)
EXTENDS EventRelay, Anime1, PlaybackRange

VARIABLE part

sourcesVars == <<part, vars, animeVars, rangeVars>>

SourcesInit ==
    /\ part \in {"relay", "anime", "range"}
    /\ Init /\ AnimeInit /\ RangeInit
    /\ part # "anime" => archive = <<>>
    /\ part # "range" => header = Absent

\* Bound: an answer refused for its type, encoding or headers tells no length.
OneFlaw == answer'.flaw # "none" => answer'.length = -1

SourcesNext ==
    \/ part = "relay" /\ Next /\ UNCHANGED <<part, animeVars, rangeVars>>
    \/ part = "anime" /\ AnimeNext /\ UNCHANGED <<part, vars, rangeVars>>
    \/ part = "range" /\ RangeNext /\ OneFlaw /\ UNCHANGED <<part, vars, animeVars>>

\* The fairness of EventRelay.
SourcesSpec ==
    /\ SourcesInit /\ [][SourcesNext]_sourcesVars
    /\ WF_vars(part = "relay" /\ WakeRelay) /\ WF_vars(part = "relay" /\ Run)
=============================================================================
