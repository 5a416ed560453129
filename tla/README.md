# AnimePortable: a verification project

AnimePortable is a portable Windows program that finds anime episodes on one source, plays
them in process with libmpv through a local proxy, and keeps progress, history and follow
lists in a SQLite database next to the executable or in a folder of the user's choice. The
modules in this directory model the program in TLA+, check it with TLC on small instances, and
prove some of it with TLAPS. Paths below are relative to `src/`.

## 1. Inventory

### Components

| Component | State it keeps | Operations | Talks to |
| --- | --- | --- | --- |
| Tracked playback session, `core/playback_tracking.go` | the tracked playback, generation and persisted, the pending load, two gates, closing | Load, SwitchEpisode, Snapshot, observe, checkpoint, run, Close | the player (calls, a channel of events), the store, the relay |
| Playback event relay, same file | two queues, a wake token, the window's channel | publish, run, deliverQueued, shutdown | the session publishes, the window reads |
| libmpv session, `adapters/player/libmpv` | the current request and its proxy session, generations, loading, closed | Start, Load, forwardEvent, Snapshot, Close | the engine, the proxy |
| Engine, `apps/desktop/fltkengine` | generation, pending, start stage, ended, failed, cached properties | Load, pollEvents, tick, Control, Snapshot, Close | mpv, on the UI thread; posts to the window's handlers |
| Playback proxy, `adapters/playback/proxy` | sessions, transfers, two semaphores, two wait groups, timers | NewSession, requests, Session.Close, Server.Close | mpv over HTTP, the upstream over the controlled client |
| Player control, `apps/desktop/main_fltk_windows.go`, `player_*.go`, `play_queue.go` | viewGeneration and the four other shared flags, the selection, the queue, the start watch, autoplay, the follow star | play, select, stop, end, the engine's handlers | the backend, the engine, the player window |
| Player window, `apps/desktop/fltkplayer` | what is shown, the open panel, the episode list, focus, keys and mouse held | UI events, news from the control | the control, by callbacks |
| Portable data folder, `apps/desktop/backend` | `data-location.txt`, the databases with their -wal files and backups, the plan, dataMoved | planPortable, CreateFresh, MoveDataLocation, the write guard | the file system, SQLite |
| Backend service, `apps/desktop/backend/service.go`, `actions.go` | sixteen operation slots, lifecycle, session and player, three locks | every action of the UI, Start, Close | core, store, clients |
| Refresher, `core/refresh.go` | slots, the background reserve, attempts, closed | Attempt, Run, RunInBackground, Close | jobs of the backend |
| SQLite store, `adapters/persistence/sqlite` | the tables, the one connection | open and migrate, one operation after the other, snapshot | the file system |
| Home window, `apps/desktop/fltkhome` | the page shown, each list's task and generation, the search page's request, the detail's resources, the settings waiting to be saved | searches, details, lists, settings | the backend, on the UI thread |
| Anime1 source, `adapters/source/anime1` | none between calls | Catalog, Search, Episodes, Resolve | the site, which changes between the requests |
| Metadata, `core/metadata_*.go`, `adapters/metadata` | the seasons listed so far | RefreshMetadata, MatchMetadata, BrowseSeason | Bangumi, AniList, the store |
| Domain rules, `core` | none | following, history, schedule, openings | store and providers |
| Network clients | connections, the proxy in use | one bounded request each | the internet |

`PROJECT.json` lists these and the smaller parts (widgets, texts, tools), each with what is
modelled of it or why it is not.

### How they interact

The user acts on the UI thread. Starting, switching and stopping an episode become jobs of one
play queue; a job calls `Service.Play`, which uses the tracked session, which uses the libmpv
session, which posts `Engine.Load` back to the UI thread and waits for it. mpv reads the file
from the proxy. Its events are polled on the UI thread; from there they go one way through a
channel, the libmpv session and the tracked session into the store and the relay, and another
way through the engine's handlers straight to the player window. So one playback is known in
five places (window, queue, tracked session, libmpv session, mpv), each with a counter of its
own to tell its loads apart, and the hard part of this program is that the five agree.

Every page reads and changes the store through `Service` on goroutines of its own and takes the
answer on the UI thread, where the page, the anime or the window may have gone; the refresher's
jobs change the same tables behind it.

### Hard behaviours

* a generation compared before a step and acted upon after it (player control, the relay's
  queueGeneration, checkpoints that are written without the lock they were captured under);
* mpv's events carry no load number, tracked events carry episodes only;
* an operation whose context ends after it took effect (`dispatch`);
* closing, with its timeout, against operations, the ticker and readers that have gone away;
* proxy sessions that expire, are closed and go down with the server while a stream blocks;
* a move of the data folder, a migration or a transaction that fails or dies between two steps;
* answers of pages that come in another order than they were asked for, or after a change;
* work shared by several callers under the context of one of them (`sharedSeason`);
* a site whose list moves under the reader's pages.

`hazards` in `PROJECT.json` has each at its line, with the properties that watch it.

### What makes each part correct

* Relay: what the window reads is in order, the terminal event of an episode is its last, no
  wake-up is lost, a stopped relay ends.
* Tracked session: no older state overwrites a newer one, "saved" is true, a switch saves
  first, Close saves last and returns, positions and completion belong to their episode.
* Engine and libmpv session: what is sent for a load is about its own file; starts and ends
  are told once; no proxy session leaks.
* Proxy: nobody uses what revoke has cleared, nothing of a finished request is left behind,
  slots come back, Close ends, only bytes asked for get through.
* Player control and window: a failure is shown once, a start that works is not given up, a
  player that was left is silent, loading ends; the star tells the truth; no state of the window
  keeps the viewer in.
* Data folder: what the user was told is saved is in the database the next start opens.
* Backend: admitted operations finish before the store closes; one playback is owned; a save
  undoes no other; Close ends.
* Refresher: background work leaves a slot to the user, nothing runs after Close.
* Store: a file of this program always opens, a foreign one is never changed; tables agree;
  progress is merged in one step; identities stay.
* Pages: a settled page shows what is stored; a detail is its own anime's, and is answered.
* Anime1: a list is what the site had, a stream is of its episode, a token is spent once.
* Metadata: no other work's record is stored; a season's listing is whole and nobody else's
  cancellation is passed on.

## 2. Plan

Done, in this order: `EventRelay`, `PlaybackTracking`; `PlayerEngine`; `PlaybackProxy`;
`PlaybackRange`; `DataLocation`; `PlayerControl`; then `Backend`; `StoreOpening` and `Storage` with
the abstract `ProgressStore`, which `Storage` implements; `Pages`, `Search`, `FollowStar`, `Refresher`,
`SettingsWriter`; `Anime1`, `PlayerWindow`; `Seasons` and `Matching`. Their proofs are in eight modules,
section 5: every safety and action property of a passing run is a theorem for all values of the constants.

Left, in order:

1. `PlayerSeek`: overlapping seeks and the positions cached around them.
2. The opening lookup (`player_opening.go`), and closing the program.
3. The domain rules as operators, each against a reference definition.

## 3. The modules

Every module begins with what it models; every definition's lines are in `PROJECT.json`, under
`map`. A definition marked `Fault` is a plausible bug, kept beside what it would replace to show
that a property notices it; nothing uses it.

Modules whose parts share no state are explored together: `MCHome` (`Pages`, `Search`,
`DataLocation`, `PlayerWindow`), `MCDesktop` (`PlayerControl`, `FollowStar`, `SettingsWriter`, `Refresher`), `MCService`
(`Backend`, `Seasons`, `Matching`) and `MCSources` (`EventRelay`, `Anime1`, `PlaybackRange`) choose a
`part` at first; the others then keep their initial state, so a run is the union of its parts' runs
and not their product.

**EventRelay.** `trackedEventRelay`. A step is one critical section of `mu`, or one send or
receive: `publish` (ignored, terminal, or enqueued with coalescing and `dropProgress`) and its
wake-up after the unlock are two, `run` is cut where it sleeps, dequeues, checks
`queueGeneration` and sends. The window reads when it likes, or never; the session stops the
relay when it likes.

**PlaybackTracking.** Threads op, run and close with a program counter each; a step ends where
a lock, a gate, the player or the store is used. A position is a number up to `Late`, the 90%
mark; `of` remembers whose file a position came from, which the code does not. Calls of the
player and the store fail, are cancelled or take effect. The player's part is abstract: one
file, the request events are attributed to, and a load that may take effect although it fails.

**PlayerEngine.** mpv opens, loads, plays and ends files and queues events for it; the engine
polls them on the UI thread (`Poll`), ticks, and sends down its channel of limited capacity; the
session forwards, loads and closes. `Engine.Load` empties that queue first (`Emptied`), then mpv takes the
command (`EngineLoad`) or refuses it (`EngineRefuses`), and the load that goes on has lost what was told of
it; `missed` remembers which loads have lost a start, a file-loaded or an end that way. Each mpv event carries, for the properties only, the load
it is really about. mpv itself is external: the order start, file-loaded, restart, end per file
is what the engine's code relies on.

**PlaybackProxy.** One step per critical section of the server's, a session's and a transfer's
mutex. Requests go through a program counter; the upstream and mpv answer, stall or go away.
Whoever revokes first does the work and the others wait on `closeDone`; the model keeps that
work with the session.

**PlaybackRange.** Pure: a header is parsed, an answer checked. Text is two halves, each a number,
empty, or junk. Of the answer's other headers `flaw` says what is wrong: the type, the encoding, or one that
is doubled or malformed. `PassedWasAsked` and `HonestIsPassed` compare with the meaning of both headers.

**DataLocation.** A database is a set of writes, split over its file and its -wal file. A step
is one file system operation, one store call or one assignment in the Service; `Crash` may come
between any two and `Launch` starts again from what is on disk.

**PlayerControl.** `view`, `actionView`, `expected`, `awaiting`, `selection` are the five shared
variables of `main`; `screen` is the part of the player window's state they are about. The UI
thread runs user actions and posted updates whole (`Plays`, `RunFailure`, ...); the worker's job
is cut wherever the UI thread can come in between: before and after each comparison of
viewGeneration, each store, and each call of the backend. `PlayErrs`, `SessionDies`, `PlayLoads`
and `PlayReturns` are `Service.Play` as the window sees it. A context is cancelled exactly if its
view is not the current one any more. `notices` counts failures shown per start, and `revived` remembers
that a failed switch gave the previous file back in a view that was not its own; both are history.

**Backend.** Each of the 21 operations of `Service` is a program: a sequence of stages between two
points where another goroutine can run (`Play` takes its lock, asks the source, switches the
session or closes it and starts a new one, publishes). Slots, the application's context, the
three locks, the settings row, which an earlier run has saved and a start may fail to read, the proxy in force, the ids two loads give one episode, and the
playback with who owns it are the state. Start and Close are threads of their own.

**StoreOpening, Storage, ProgressStore.** Opening holds the gate, prepares the file and applies the
missing migrations in one transaction; foreign, newer, half-made and empty files are found on disk.
`Storage` runs the operations statement by statement on the one connection; `Killed` may come
between any two statements and drops the open transaction. `ProgressStore` is the promise (a save
merges in one step, a removal drops in one step) and `Promised` the instance of it under which the
two progress tables are read as one record per episode.

**Pages, Search, FollowStar, SettingsWriter, Refresher.** The goroutines of the home window and of
the player's star, and the runs of the refresher. Answers arrive in any order; each is compared
with the generation, page, anime or window of the moment, as in the code. The store's content is
the few fields that lists differ in, and `Shows` says which of them each list is built from, so that a
property can say whether what is shown is what is stored. A press of the star either reaches the store or
fails; one that does both is not modelled.

**Anime1.** The site is a list of posts that grows and shrinks between requests; what a page must
look like is a kind of each post. Pages, their links, the token and the stream are requests with an
answer, a time-out (repeated once where the code does) or a cancellation each.

**PlayerWindow.** One event of FLTK, one callback or one piece of news at a time on the UI thread;
keys and mouse buttons are held and let go inside the window or outside of it. An UNFOCUS that carries a
key keeps the keys that are held, one that carries none forgets them (`LoseKeyboard`).

**Seasons.** A lookup begins, joins or starts a fetch, and waits; a fetch is named after the lookup
under whose context it runs. Pages come or fail one by one; failing, `delete` and `close(done)` are
steps of their own; a full cache drops the seasons that are read.

**Lists.** `Only`, what the loops keep that walk a list and append to another one: those of
`parseEpisodePage`, `Search`, `scoreMetadataCandidates` and `addSeasonCandidates`. It is a recursive
function, so that it can be evaluated and proved about.

**Matching.** Titles as `metadataFields` leaves them: words of a main part and of a subtitle, and a
season. Four works that resemble each other (a show, its sequel under the same name, a side story, a
film), what two providers may tell of each, and what the site may tell of one. `MatchMetadata` is
whole: scores, hints, series names, conflicts, arcs, cross-checks. RefreshMetadata's searches, season
list, record and save are steps that fail, and its context may end between any two. An answer to a
search lists its works in one fixed order: `OrderIsNoMatter` says that another would change nothing.

The works have to be such that scores can tell them apart, and `WorksAssumption` says what that takes.
Two works differ in season and year; or neither is of a season, and either their names are not the
same and their years differ, or each has one name only and those are hardly alike; or the names have
nothing in common, nor with those of any work of the title. A show and its sequel, a side story of
another year and a film are the cases of the run. A remake under the same name is outside of it: records that
leave out the year count as the same work (`Equivalent`), and the one that matches better is taken.

## 4. What is checked

| Run | Bounds | What it shows |
| --- | --- | --- |
| `PlaybackTracking` | 2 episodes, 1 load, 1 player event | saves never go back, saved means saved, switch and Close save, positions and completion belong to their episode, Close returns. One load is the least with an old and a new episode; what several events add is in `EventRelay`, and in the proofs |
| `PlaybackTracking_threshold` | the same | a disagreement, below |
| `PlayerEngine` | 3 loads, 1 report, channel of 1 | events are their load's, starts and ends once, current events heard, no proxy session left, a load settles, although mpv may refuse a load after its queue was emptied for it. With 3 loads an event can be two loads late |
| `PlaybackProxy` | 1 session, 2 requests, 2 slots on the server and 1 in the session | limits, clean ends, missed transfers, Close |
| `Home` | 2 clicks and 2 loads; 2 anime and 3 actions; 2 folders, 2 writes, 1 older database, 1 backup second; 2 episodes of which 1 is listed, a key or the mouse button held down, not both, and the key that an UNFOCUS keeps is Esc | settled lists are the store's; a detail is its anime's and is answered; a move onto every kind of content, back and again within a second, with a crash or failure anywhere, keeps what was told; the player's window stays usable. Two clicks are a load and a change that overtakes it, and what a third adds is in the proof; one list at a time has failed to be read, the window closes before the second click, and a -wal file found in a chosen folder holds something. The two writes are symmetric |
| `DataLocation_waiting`, `Search_failedRefresh` | the same | two disagreements, below |
| `PlayerControl_leaving` | 2 episodes, 3 user actions | a disagreement, below: play, switch and leave are the three |
| `Desktop` | 2 episodes, 2 user actions and what autoplay and the watch add; 3 plays of 2 shows; 5 saves; 2 slots and 2 jobs a run | failures shown once, no working start given up, silence after leaving; the star is the list's; the last choice is saved; a slot is left to the user; loading, saving and runs end. Two slots leave a background run one |
| `Service` | 3 calls of 6 kinds that share state, 2 slots, a settings row saved by an earlier run; 3 lookups of 2 months, a cache of 1, pages of 2, seasons of 3 and 5 with at most 4 read; 4 works, 2 found by a search, 5 candidates at most | the store outlives its users, one owned playback, no save undone; each lookup has all of its season; no other work is stored and the order of the answers is no matter; Close and lookups end. The bounds pass each limit once: the second page, the cap, a full cache, a fifth candidate |
| `Storage` | 2 migrations, 2 openings, 2 calls of 10 kinds, 2 times and positions | as above; two calls are what can interleave in a transaction and outside of it, and times may come in either order |
| `Sources` | queues of 2, 3 episodes, 4 events; lists of up to 7 posts, pages of 2, 3 pages, 5 listed; integers up to 4, numbers up to 5, and an answer with a wrong header tells no length | order, terminal last, no lost wake-up; a terminal event reaches a window that reads; a stopped relay ends. Two is the least capacity at which dropping, coalescing and jumping the queue differ; 4 events overfill both queues. Lists without holes or repetitions, streams of their episodes; the limit of an integer, one below and one above it, and files shorter and longer than a suffix |

Properties that belong together are conjunctions of named parts; each part has its own comment.
Deadlock is checked for `DataLocation_waiting`, whose system never stops. The others may: their
sessions are closed or their bounds used up, and the switch says so in the cfg.

### Fairness

Only what the code's scheduling gives. `EventRelay`: run goes on when it can, and a
publisher sends its wake-up; nobody has to read, and delivery is promised to a window that does.
`PlaybackTracking`: threads go on, since store and player calls return with their context; `Stopped`
is strongly fair because `select` takes a ready channel in the end; nobody has to call, tick or close.
`PlayerEngine`: mpv gets on with a file it was asked for, and the UI thread polls. `PlaybackProxy`: a
request goes on unless it waits for mpv or the upstream, and those need not do anything; a cancelled
context ends a wait on the upstream, a deadline or a closed connection a blocked write.
`PlayerControl`: the UI thread, the timer, and the queue, except that `Service.Play` may hang until its
context is cancelled; files need not start. `Backend`, `Storage`: a stage or statement ends, at the
latest with its context. `SettingsWriter`: its goroutine runs. `Refresher`: jobs have time-outs, and a
send blocked on a channel is served in its turn, hence strong fairness of a run's step. `Seasons`: each
lookup's goroutine goes on, and a request ends with its time at the latest; nobody's context need end.

### Disagreements found

* `PlaybackTracking_threshold`: docs/01_PRODUCT.md:103 counts an episode as completed at 90%. A
  checkpoint of the previous episode that finishes after a switch sets completed on the new one.
* `DataLocation_waiting`: data_location.go:97-98 says a write that waits during the snapshot must
  not succeed into the old database. One that was past the guard does.
* `Search_failedRefresh`: docs/loops/LOOP37D.md:81 says a failed refresh keeps the stored list. One
  that fails before the stored list was read drops it.

* `PlayerControl_leaving`: docs/archive/LOOP36.md:43 says an end whose generation is no longer playing,
  since the user switched or left, does nothing. The worker of a failed switch compares
  viewGeneration (main_fltk_windows.go:313) and then exchanges expectedPlaybackGeneration 0 for the
  previous file's generation (316). A leave between the two puts there just the 0 that the exchange
  looks for: the file is heard in the view of the leave, and its end starts the next episode behind the
  player that is about to hide. It came out of the proof attempt for `LeftIsSilent`, whose invariant
  failed on three actions where the run takes two.

Where a passing property has a condition, it excludes just such a case, which the code allows: `strayed` (a failed load
that took effect) and `blurred` (the late checkpoint) in `PlaybackTracking`, `misled` (a file-loaded
event of a replaced file that comes after `Engine.Load` emptied the queue) and `missed` (a load whose own
events a refused one has dropped) in `PlayerEngine`, `late` (writes past the guard) in `DataLocation`, the
proxy off after a start that could not read the settings, until the page's are saved, in `Backend`, an answer
with a wrong header in `PlaybackRange`, a key `kept` by an UNFOCUS that carried one in `PlayerWindow`, a list
not loaded again since another page stored a follow, unfollow or removal, and Home after a check that was
dropped since it could not read or met a load of Home, in `Pages`, a withdrawn post in `Anime1`, a year the site has wrong in `Matching`, and, in
`PlayerControl`'s `LeftIsSilent`, `revived` (the exchange above) and a start that was reported as
failed: a replay that fails to resolve hides the window over the file that was playing when it was
pressed, within the half second in which the window does not know that it plays.

### Seen while modelling

What the models show and no run asserts, for whoever changes this code next:

* A load that mpv refuses has emptied mpv's queue already (`engine_windows.go:306`): the file that plays on
  may lose its own start, file-loaded or end, and the engine then waits for it in vain.
* A removal from the history that is stored only after the user has gone on to Following or Home leaves
  the position there as it was: only the history loads again.
* A load whose context ended after mpv replaced the file (`engine_windows.go:264`) is reported as
  failed, and the new file's position is then saved for the old episode; docs/01_PRODUCT.md:97
  stores position per episode.
* Switch to B, switch on to C before B's job has entered B in the selection, and let C fail: B's file
  is made current again under A's name and its end starts B once more, where main_fltk_windows.go:333-334
  says autoplay must never read the previous episode. By the same path a late worker can clear
  `awaiting` under a new view, so that the opening lookup asks for the episode just left.
* A failure of the library request shows a loaded detail as failed; a detail reopened while its
  lookup of metadata still ends goes without one.
* A star pressed while the list is re-read for another reason may be left stale until the next play.
* An error of closing the old session in `play` leaves that session registered.
* An episode withdrawn from the site between two pages is missing from the list, without an error.
* The player window keeps its scrubbing and dragging flags when it hides, so the next release seeks.
* A lookup whose shared season was fetched under a context that timed out fails with that
  deadline, although its own still runs: `BrowseSeason` asks again only after a cancellation.
* A side story that both providers name is cross-checked, and so stored for a sequel whose own record's
  names do not match at all; the site's year, if one late, prefers a sequel of that year.

## 5. What is proved

`SourcesProofs`, first the relay, for every capacity of at least one and any number of episodes and
events (`RelayAssumption`):

* `TypeCorrect`, by induction on `TypeOK`, with one lemma per group of actions;
* `DeliveryInOrder` and `TerminalEndsDelivery`. Neither is inductive: they speak only of what the
  window has read. The inductive invariant `IInv` sees everything published and not dropped as one
  pipeline, delivered - events - held - priority - queue: nothing in it is newer than the last
  call of publish (`Known`), its numbers increase from end to end (`Ordered`), and a terminal
  event in it is remembered in lastTerminalOwner and newer than all its owner's others (`Ends`).
  Steps of run move or drop members, a publication adds the newest one. `DeliveryIsInOrder` puts the
  three together: it is the property of the run;
* `WakeupNeverLost`, which is inductive as it stands.

Then the source, for any limits and page sizes and any number of posts (`Anime1Assumption`):

* `AnswersAreTheSites`. A list is gathered page by page while posts are added in front, so the pages
  shift. `AnimeInv` says of a call that no post was withdrawn from (`Gathering`): what it has gathered are
  the episodes of the first page's archive up to some post c, each once and in order, and the next
  page begins no later than behind c; or a post it has was pushed onto a page to come (`Overtaken`), where
  it will be met a second time, and the call can only fail. That the page asked for continues at or before c
  needs the size of the shift, and that nothing is skipped or doubled needs induction over a page;
* what `Only` gives of a list (`OnlyComesFrom`, `OnlyKeeps`) is proved from the two equations of
  its recursive function. The library's induction theorems take an operator and cannot be used here, so
  the proofs go by sets: a set of numbers with 0 that is closed under the step holds all up to n (`UpTo`),
  since the least number outside of it (`LeastNumber`, from `WFMin` of the library) would have a predecessor.

Then the match, for any works, limits and numbers of candidates (`MatchingAssumption`, which has finitely
many works):

* `OrderDecidesNothing`, from `MatchInv`: no record is named twice, since Bangumi and AniList are asked
  once each and the season's list adds only what is new. On such candidates the ranking is a strict
  total order, so it has one top wherever that is in the list (`TopExists`, by the induction above), and
  series, scores and conflicts depend on the set of candidates alone (`MatchOfTheSame`);
* `NoOtherIsStored`, with `WorksAssumption`: what is stored is the match of the candidates there were
  (`ChosenInv`), and if another work's record is first, one of the anime's own is no more than 8
  behind it and does not seem to be the same (`NeverFarAhead`), so it is a conflict and nothing is taken.
  The bound is exact: a sequel that shares the title, and whose number of episodes is known where
  the show's own record leaves it out, comes to 8, the `metadataAmbiguityGap`.

`PlaybackTrackingProofs`, for any set of episodes, capacities of at least one, any 90% mark above
zero, and any number of loads and events, from `TrackingAssumption`:

* `TypeCorrect`. `TypeOK` is not inductive: where a checkpoint goes on depends on the operation's
  phase, and that opGate is released by who took it depends on close having acquired it; `Phases`
  adds both. One lemma per thread, one step per action, one leaf per conjunct;
* `WritesAdvance`, `CleanCheckpointIsSaved` and `SwitchSaves`, from one invariant, `IInv`. No
  checkpoint in progress is newer than what is tracked nor as old as what is saved (`Counters`); a
  capture of the present generation agrees with what is tracked, and one that is written is in the
  store (`Written`); the checkpoint after a resolved request captured all that was recorded by then
  (`Covered`). Steps come in three sorts: those that record nothing (`QuietStep`), those that record a
  change and so put every capture out of date (`RecordingStep`), and those of a checkpoint, of which
  persistGate allows one at a time (`OneWriter`);
* `CloseSaves`, from `Finality`: while close has met no error it has outlived run, then opGate is
  its own for good since nobody begins an operation any more, and after its checkpoint there is
  nobody left to record anything. It leans on the order of close's steps: `closing` is set before
  opGate is acquired, and run is joined before the final checkpoint. `CountedAsSavedIsSaved` and
  `LeavingSaves` state the properties of the run;
* `PublishesInOrder`, the action property `RelayedInOrder`, from `Relaying`: a pending load's owner is
  newer than the tracked one's, which is no older than the published one's, and whoever's terminal event
  is published or staged has recorded it. It is what `EventRelay` takes for granted of its producer, and
  it needs two events to be broken, beyond the bound of the run; here it holds for any number;
* `SavesAreEarned`, from `Earning`: what is tracked, captured or written for an episode came from its own
  file, whoever has staged it, unless a load has strayed.

`ProxyProofs`, for every width of the integers and every set of written numbers
(`RangeAssumption`), and for any sessions, requests and limits (`ProxyAssumption`):

* `OnlyAskedBytesPass` and `NoHonestRejected`. The invariant `Decided` says that `wanted` is what the
  header parses to and the verdict the one of `wanted` and the answer; the rest is a case split on the
  kinds of range (`MatchesWasAsked`), with the arithmetic of both headers;
* `StreamsStayClean` and `NothingIsMissed`, from `ProxyInv`. The counters are the cardinalities of the
  requests at the places they count (`Counts`), so a WaitGroup at zero means nobody; what a request has
  follows from its place (`Sound`, `Placed`); and a session knows of its transfers (`Knows`): who
  is in the map is not detached, and after revoke each in the map is on the list to be interrupted, was
  interrupted, or is finished. That needs both orders of attach and revoke.

`PlayerProofs`, from `WindowAssumption` and `EngineAssumption`:

* `WindowUsable`, from `WindowInv`: an open list fits the episodes there are, the focus is on a control
  that shows, and a key that counts as held is held or was kept (`KeysAreHeld`);
* `NewsOwn` and `LoadsAccounted`, from `EngineInv`. What mpv tells comes in the order of its files and
  the end of the current one is the last of it; whatever of the replaced file may still come is before the
  new file's start (`QueueInv`); starts are told in order (`StartsInv`), and once a load has ended or failed
  mpv has nothing more to tell of it (`EndsInv`). Half of it is under ~misled, or of loads that are `Faithful`, as the properties are.

`BackendProofs`, for any number of calls and slots and any choice of the operations
(`BackendAssumption`), and any lookups, seasons and sizes (`SeasonsAssumption`):

* `StoreStaysOpen`, `OnePlayback` and `SavesStay`, from `BackendInv`. An operation is a program; that
  its locks are held where it needs them (`Held`) and that a stage comes after the one that read for it
  (`Passed`) are facts about the 21 programs, proved once; the invariant says who holds which lock, what a
  call at a stage knows to be still so, and that every session alive is the service's or of the call
  that publishes or closes it (`LiveIsOwned`);
* `LookupsServed`, from `SeasonsInv`: a season that is cached is being fetched or was fetched whole, and
  who waits waits for the fetch of its own season.

`StorageProofs`, for any number of openings, migrations and calls (`OpeningAssumption`,
`StorageAssumption`):

* `CommittedAgrees` and `NamesStay`, from `StoreInv`: what the tables look like inside a transaction
  at each of its statements (`WorkSound`), and what a call outside of one has read is still so
  (`ReadSound`);
* `ProgressAsPromised`: `Storage` implements `ProgressStore`. A commit of a checkpoint is one merge, of
  a removal one drop, and every other step, a kill included, is a stutter.

`HomeProofs`, for any anime, clicks and loads, folders, writes and time stamps (`PagesAssumption`,
`SearchAssumption`, `DefaultAssumption`, `DataAssumption`, `FileAssumption`):

* `ListsShowTheStore`, from `PagesInv`: one load at most of each list is current; what it has read,
  and the rows once none is under way, tell what is stored unless a change that will load the list
  again is on its way (`Changing`, `Saving`);
* `DetailOwn`, `DetailServed` and `FreshStays`, from `SearchInv`: one request at a time, and who waits is
  behind it or is it;
* `DataStays` and `NothingLost`, from `DataInv`: at each step of a move what is where
  (`MovesAreSound`), where a backup has left its place free (`BackupsAreSound`), and that the program opens
  the folder that is configured unless it was just moved.

`DesktopProofs`, for any number of saves, plays, slots, jobs, episodes and user actions
(`WriterAssumption`, `FollowStarAssumption`, `RefresherAssumption`, `ControlAssumption`):

* `LastChoiceSaved`, from `WriterInv`, in which choices are numbered as they are made;
* `StarShowsList`, from `StarInv`: a read that still counts has what is stored, or what was before the
  press that has changed it;
* `UserIsNotKeptWaiting`, from `RefresherInv`: slots and tokens in use never exceed theirs, and every
  background run holds a token for its slot;
* `StartsAreReportedOnce` and `ShownStaysShown`, from `ControlInv`. Views are numbered as they begin, so
  each place that holds one can be compared with the current view: the jobs of the queue are in the order
  of theirs (`JobsInOrder`), one load at most is under way (`OneLoad`), what the engine plays and reports, a
  frame that is posted and a failure that is to be shown belong to a view that has begun (`EngineIsOwn`,
  `FrameIsHeard`, `FailureIsOnce`), and it is known of which views a failure was shown already
  (`Notices`). `Silent` says when a player that was left may still be heard, which is the condition of the
  property and the source of the disagreement `PlayerControl_leaving`.

Only model-checked: liveness (`RelayEnds`, both `CloseReturns`, `LoadSettles`, `CloseEnds`, `BegunEnds`,
`WaitsEnd`), which the proof system does not reach since it needs ENABLED; and the four disagreements,
which are false.

## 6. What is not modelled

* Rendering, layout, texts, logging and diagnostics: no state a property is about.
* mpv, SQLite, the file system, FLTK's queue and the network appear only as the code uses them.
* Seeks, pause, volume and speed in the player; the opening lookup; closing the program.
* The folding and cutting of titles (`metadata_normalize.go`, `metadata_variants.go`,
  `metadata_fold.go`), decoding of answers, and the checks of an address or a certificate: sequential
  conversions whose cases are texts. What their results decide is modelled.
* Following, history and schedule as rules over rows, the cover loader, the update check.
* The path and drive checks of a chosen folder, and -shm files.
