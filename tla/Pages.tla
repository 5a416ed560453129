-------------------------------- MODULE Pages --------------------------------
(* The home window's lists: Home, Following, History and Schedule load from   *)
(* the store on goroutines and take the answer on the UI thread; follows and  *)
(* removals change the store the same way; the runs of the Refresher change   *)
(* it in the background.  A load's generation is kept as whether it is the    *)
(* latest of its list.                                                        *)
EXTENDS Naturals, FiniteSets

CONSTANTS
    MaxClicks,  \* bound: what the user does
    MaxLoads    \* bound: loads under way at once

ASSUME PagesAssumption == MaxClicks \in Nat /\ MaxLoads \in Nat

Lists == {"home", "following", "history", "schedule"}
Refreshed == {"following", "schedule"}
Pages == Lists \cup {"search"}  \* the search page also holds the detail screen
\* One anime: followed, watched (up to one of two positions, 0 when not), with
\* new episodes; and the week's schedule.
Shows == [home |-> {"followed", "watched", "news"}, following |-> {"followed", "watched"},
          history |-> {"followed", "watched"}, schedule |-> {"week"},
          recheck |-> {"followed", "news"}]  \* not a list: what the recheck of Home reads

VARIABLES
    stored,      \* what the store has
    page,        \* the page shown
    playing,     \* "no"; the player covers the window: "opening", or "on" once it plays
    shown,       \* what each list was built from, or that it failed
    loads,       \* loads under way: their list, whether the latest, what they read
    queued,      \* homeRefreshPending
    refreshing,  \* followingRefreshing, scheduleRefreshing: "no", "running", and "some"
                 \* once one of its jobs has stored its answer
    change,      \* the follow or unfollow under way, else the last one
    removal,     \* the removal of the history under way, else "none"
    window,      \* "open", or "closing" after cancel
    missed,      \* ghost: lists not loaded again since a change they were not told of
    clicks

pagesVars == <<stored, page, playing, shown, loads, queued, refreshing, change, removal, window,
          missed, clicks>>

Nothing   == [f \in {} |-> TRUE]  \* not read yet
Failed    == [failed |-> TRUE]
Reads(p)  == [f \in Shows[p] |-> stored[f]]
NoChange  == [at |-> "none", to |-> FALSE, from |-> "search", ok |-> FALSE]

PagesInit ==
    /\ stored = [followed |-> TRUE, watched |-> 1, news |-> FALSE, week |-> FALSE]
    /\ page = "home" /\ playing = "no"
    /\ shown = [p \in Lists |-> Nothing]
    /\ loads = {[list |-> "home", current |-> TRUE, got |-> Nothing]}
    /\ queued = FALSE /\ refreshing = [k \in Refreshed |-> "no"]
    /\ change = NoChange /\ removal = "none"
    /\ window = "open" /\ missed = {} /\ clicks = 0

Open       == window = "open"
Clicks     == Open /\ playing = "no" /\ clicks < MaxClicks /\ clicks' = clicks + 1
Loading(p) == \E l \in loads : l.list = p /\ l.current

\* A load of list p begins: those before it are no longer the latest.
Load(p, others) ==
    {[l EXCEPT !.current = @ /\ l.list # p] : l \in others}
        \cup {[list |-> p, current |-> TRUE, got |-> Nothing]}
Loads(p, others) ==
    /\ Cardinality(Load(p, others)) <= MaxLoads
    /\ loads' = Load(p, others) /\ missed' = missed \ {p}

\* startFollowingRefresh, startScheduleRefresh: an automatic refresh only starts
\* when the last attempt is long enough ago.  Bound: one refresh at a time.
Refresh(kind, force) ==
    \/ (\A k \in Refreshed : refreshing[k] = "no") /\ Open /\ refreshing' = [refreshing EXCEPT ![kind] = "running"]
    \/ (force => refreshing[kind] # "no") /\ UNCHANGED refreshing

\* loadHome, or one more load queued behind the one under way.
RefreshHome(others) ==
    IF Loading("home") THEN queued' = TRUE /\ loads' = others /\ UNCHANGED missed
    ELSE Loads("home", others) /\ UNCHANGED queued

\* Fault: a list already loading is not loaded again.
LazyShow(p) ==
    CASE Loading(p)    -> UNCHANGED <<loads, missed, queued, refreshing>>
      [] p = "home"    -> RefreshHome(loads) /\ UNCHANGED refreshing
      [] p = "search"  -> UNCHANGED <<loads, missed, queued, refreshing>>
      [] p = "history" -> Loads(p, loads) /\ UNCHANGED <<queued, refreshing>>
      [] OTHER         -> Loads(p, loads) /\ Refresh(p, FALSE) /\ UNCHANGED queued

\* What showSection loads and refreshes for the page it shows.
Show(p) ==
    CASE p = "home"    -> RefreshHome(loads) /\ UNCHANGED refreshing
      [] p = "search"  -> UNCHANGED <<loads, missed, queued, refreshing>>
      [] p = "history" -> Loads(p, loads) /\ UNCHANGED <<queued, refreshing>>
      [] OTHER         -> Loads(p, loads) /\ Refresh(p, FALSE) /\ UNCHANGED queued

ShowSection(p) ==
    /\ Clicks /\ (p = "home" => page # "home")
    /\ page' = p /\ Show(p)
    /\ UNCHANGED <<stored, playing, shown, change, removal, window>>

\* The button of the page: 更新集數, 重新整理, or Home's and History's retry.
Button ==
    /\ Clicks /\ page \in Lists
    /\ CASE page \in {"following", "schedule"} ->
              Refresh(page, TRUE) /\ UNCHANGED <<loads, missed, queued>>
         [] page = "history" ->
              shown["history"] = Failed /\ Loads(page, loads) /\ UNCHANGED <<queued, refreshing>>
         [] OTHER ->
              /\ shown["home"] = Failed /\ ~Loading("home")
              /\ Loads(page, loads) /\ UNCHANGED <<queued, refreshing>>
    /\ UNCHANGED <<stored, page, playing, shown, change, removal, window>>

(***************************************************************************)
(* Loads.                                                                  *)
(***************************************************************************)
\* The goroutine has read; any of its reads may have failed.
LoadReads ==
    /\ \E l \in loads :
         /\ l.got = Nothing
         /\ \E got \in {Reads(l.list), Failed} :
               loads' = (loads \ {l}) \cup {[l EXCEPT !.got = got]}
    /\ UNCHANGED <<stored, page, playing, shown, queued, refreshing, change, removal,
                   window, missed, clicks>>

\* The checks of the awakened function: the latest load, of a page still shown.
StillWanted(l) == l.current /\ Open /\ (l.list # "home" => page = l.list)

LoadTaken(l) ==
    /\ StillWanted(l) /\ ~(l.list = "home" /\ queued)
    /\ shown' = [shown EXCEPT ![l.list] = l.got]
    /\ loads' = loads \ {l}
    /\ IF l.list = "home" /\ l.got # Failed THEN Refresh("following", FALSE)
       ELSE UNCHANGED refreshing
    /\ UNCHANGED <<queued, missed>>

\* The load queued behind this one begins, and this one's answer is not shown.
HomeLoadsAgain(l) ==
    /\ StillWanted(l) /\ l.list = "home" /\ queued
    /\ queued' = FALSE /\ Loads("home", loads \ {l})
    /\ UNCHANGED <<shown, refreshing>>

LoadDropped(l) ==
    /\ ~StillWanted(l)
    /\ loads' = loads \ {l}
    /\ UNCHANGED <<shown, queued, refreshing, missed>>

LoadAnswers ==
    /\ \E l \in loads :
         /\ l.got # Nothing /\ l.list # "recheck"
         /\ LoadTaken(l) \/ HomeLoadsAgain(l) \/ LoadDropped(l)
    /\ UNCHANGED <<stored, page, playing, change, removal, window, clicks>>

(***************************************************************************)
(* Playback: its saves change the history behind the pages.                *)
(***************************************************************************)
HasRow(p)  == shown[p] \notin {Nothing, Failed} /\ shown[p].watched > 0

\* playHomeRow, continueHistory; a detail screen plays what its anime has.
Playable(p) ==
    CASE p = "home"    -> HasRow(p) /\ ~Loading(p)
      [] p = "history" -> HasRow(p) /\ ~Loading(p) /\ removal = "none"
      [] OTHER         -> p = "search"

Play ==
    /\ Clicks /\ Playable(page)
    /\ playing' = "opening"
    /\ UNCHANGED <<stored, page, shown, loads, queued, refreshing, change, removal, window,
                   missed>>

PlayEnds ==
    /\ Open /\ playing = "opening"
    /\ playing' \in {"on", "no"}  \* it failed: the page shows again as it was
    /\ UNCHANGED <<stored, page, shown, loads, queued, refreshing, change, removal, window,
                   missed, clicks>>

PlaybackSaves ==
    /\ playing = "on" /\ stored' = [stored EXCEPT !.watched = 2]
    /\ UNCHANGED <<page, playing, shown, loads, queued, refreshing, change, removal, window,
                   missed, clicks>>

\* The session has closed and saved: navigate shows a page, and reloads Home.
Return(p) ==
    /\ Open /\ playing = "on"
    /\ playing' = "no" /\ page' = p /\ Show(p)
    /\ UNCHANGED <<stored, shown, change, removal, window, clicks>>

(***************************************************************************)
(* Refreshes.                                                              *)
(***************************************************************************)
\* A job stores the episode list of a followed show, or the schedule, or fails.
JobStores(kind) ==
    /\ refreshing[kind] # "no"
    /\ refreshing' = [refreshing EXCEPT ![kind] = "some"]
    /\ IF kind = "schedule" THEN stored' = [stored EXCEPT !.week = TRUE]
       ELSE \E new \in BOOLEAN : stored' = [stored EXCEPT !.news = @ \/ new]
    /\ UNCHANGED <<page, playing, shown, loads, queued, change, removal, window, missed,
                   clicks>>

\* The run has returned: its page loads again, and Home is checked when some
\* episode list was stored.
RefreshDone(kind) ==
    /\ refreshing[kind] # "no"
    /\ refreshing' = [refreshing EXCEPT ![kind] = "no"]
    /\ CASE Open /\ page = kind -> Loads(kind, loads)
         [] Open /\ kind = "following" /\ page = "home" /\ refreshing[kind] = "some" ->
              /\ loads' = loads \cup {[list |-> "recheck", current |-> TRUE, got |-> Nothing]}
              /\ UNCHANGED missed
         [] OTHER -> UNCHANGED <<loads, missed>>
    /\ UNCHANGED <<stored, page, playing, shown, queued, change, removal, window, clicks>>

\* reloadHomeIfUpdatesChanged: Home loads again only when its updates changed;
\* what it shows after a failure, or before its first load, may be anything.
Updates(v) == v.followed /\ v.news
Differ(got) == shown["home"] \notin {Nothing, Failed} => Updates(shown["home"]) # Updates(got)
Agree(got)  == shown["home"] \notin {Nothing, Failed} => Updates(shown["home"]) = Updates(got)

Rechecked(l) == Open /\ page = "home" /\ ~Loading("home") /\ l.got # Failed

Recheck ==
    /\ \E l \in loads :
         /\ l.list = "recheck" /\ l.got # Nothing
         /\ \/ Rechecked(l) /\ Differ(l.got) /\ RefreshHome(loads \ {l})
            \/ Rechecked(l) /\ Agree(l.got) /\ loads' = loads \ {l} /\ UNCHANGED <<queued, missed>>
            \/ /\ ~Rechecked(l)
               /\ loads' = loads \ {l} /\ UNCHANGED queued
               /\ missed' = IF Open /\ page = "home" THEN missed \cup {"home"} ELSE missed
    /\ UNCHANGED <<stored, page, playing, shown, refreshing, change, removal, window,
                   clicks>>

(***************************************************************************)
(* Follows and removals: one at a time, each reloading its own page.       *)
(***************************************************************************)
\* Following's rows unfollow (it keeps them when a load fails), History's star
\* turns over, a detail does either.
Offers(p, to) ==
    CASE p = "following" -> ~to /\ shown[p] # Nothing /\ (shown[p] # Failed => shown[p].followed)
      [] p = "history"   -> HasRow(p) /\ to = ~shown[p].followed
      [] OTHER           -> p = "search"

SetFollowing(to) ==
    /\ Clicks /\ change.at = "none" /\ Offers(page, to)
    /\ change' = [at |-> "calling", to |-> to, from |-> page, ok |-> FALSE]
    /\ UNCHANGED <<stored, page, playing, shown, loads, queued, refreshing, removal, window,
                   missed>>

FollowStored ==
    /\ change.at = "calling"
    /\ \E ok \in BOOLEAN :
         /\ change' = [change EXCEPT !.at = "answered", !.ok = ok]
         /\ stored' = IF ok THEN [stored EXCEPT !.followed = change.to] ELSE stored
         /\ missed' = IF ok THEN missed \cup ({"home", "following", "history"} \ {change.from}) ELSE missed
    /\ UNCHANGED <<page, playing, shown, loads, queued, refreshing, removal, window,
                   clicks>>

FollowDone ==
    /\ change.at = "answered" /\ change' = NoChange
    /\ shown' = IF Open /\ change.ok /\ change.from = "history" /\ shown["history"] \notin {Nothing, Failed}
                THEN [shown EXCEPT !["history"].followed = change.to] ELSE shown
    /\ IF Open /\ page = change.from /\ page \in Lists THEN Loads(page, loads)
       ELSE UNCHANGED <<loads, missed>>
    /\ UNCHANGED <<stored, page, playing, queued, refreshing, removal, window, clicks>>

RemoveHistory ==
    /\ Clicks /\ page = "history" /\ HasRow(page) /\ removal = "none"
    /\ removal' = "calling"
    /\ UNCHANGED <<stored, page, playing, shown, loads, queued, refreshing, change, window,
                   missed>>

HistoryRemoved ==
    /\ removal = "calling" /\ removal' = "answered"
    /\ \/ UNCHANGED <<stored, missed>>
       \/ stored' = [stored EXCEPT !.watched = 0] /\ missed' = missed \cup {"home", "following"}
    /\ UNCHANGED <<page, playing, shown, loads, queued, refreshing, change, window, clicks>>

RemovalDone ==
    /\ removal = "answered" /\ removal' = "none"
    /\ IF Open /\ page = "history" THEN Loads(page, loads) ELSE UNCHANGED <<loads, missed>>
    /\ UNCHANGED <<stored, page, playing, shown, queued, refreshing, change, window,
                   clicks>>

\* The window closes: no awakened function does anything more.
Cancel ==
    /\ Open /\ window' = "closing" /\ queued' = FALSE
    /\ loads' = {[l EXCEPT !.current = @ /\ l.list # "home"] : l \in loads}
    /\ UNCHANGED <<stored, page, playing, shown, refreshing, change, removal, missed, clicks>>

PagesNext ==
    \/ \E p \in Pages : ShowSection(p) \/ Return(p)
    \/ Button \/ LoadReads \/ LoadAnswers \/ Recheck
    \/ Play \/ PlayEnds \/ PlaybackSaves
    \/ \E kind \in Refreshed : JobStores(kind) \/ RefreshDone(kind)
    \/ \E to \in BOOLEAN : SetFollowing(to)
    \/ FollowStored \/ FollowDone \/ RemoveHistory \/ HistoryRemoved \/ RemovalDone
    \/ Cancel

PagesSpec == PagesInit /\ [][PagesNext]_pagesVars

(***************************************************************************)
(* Properties.                                                             *)
(***************************************************************************)
PagesTypeOK ==
    /\ stored \in [followed : BOOLEAN, watched : 0..2, news : BOOLEAN, week : BOOLEAN]
    /\ page \in Pages /\ playing \in {"no", "opening", "on"} /\ queued \in BOOLEAN
    /\ refreshing \in [Refreshed -> {"no", "running", "some"}]
    /\ removal \in {"none", "calling", "answered"}
    /\ window \in {"open", "closing"} /\ missed \subseteq Lists
    /\ \A p \in Lists : Cardinality({l \in loads : l.list = p /\ l.current}) <= 1

\* Nothing of the page shown is under way.
Settled ==
    /\ Open /\ playing = "no" /\ change.at = "none" /\ removal = "none"
    /\ ~\E l \in loads : l.list \in {page, "recheck"} /\ l.current
    /\ page = "home" => refreshing["following"] = "no"
    /\ page = "schedule" => refreshing[page] = "no"

\* What a reload compares: Home's two rows, else every field of the list.
Rows(p, v) == IF p = "home" THEN <<v.watched, Updates(v)>> ELSE v

UpToDate(p) == shown[p] \in {Nothing, Failed} \/ Rows(p, shown[p]) = Rows(p, Reads(p))

\* Once a page has settled its rows are what the store has, after every order
\* of loads, refreshes, saves, follows and removals answering.  Two exceptions, both
\* until the list loads again: a follow, unfollow or removal made on another page
\* was stored since its last load began; and Home, when the check after a refresh
\* could not read, or answered while Home was loading, and was dropped.  And the
\* load queued behind one of Home's is never forgotten, and a row of the history
\* that can be played is at the position stored, so that a stale saved position is
\* never used (showHistory).
ShownIsStored ==
    /\ PagesTypeOK
    /\ Settled /\ page \in Lists \ missed => UpToDate(page)
    /\ queued => Open /\ Loading("home")
    /\ Open /\ playing = "no" /\ page = "history" /\ Playable(page) =>
          shown[page].watched = stored.watched

=============================================================================
