------------------------------ MODULE Backend ------------------------------
(* The desktop backend: the Service every page and the player call, its       *)
(* admission of operations, its start and its shutdown, the settings row and  *)
(* the proxy in use, the ids given to episodes, and the one playback session. *)
(* An operation is a program of stages; a stage is one atomic step of the     *)
(* code between two points where another goroutine can run.  The store, the   *)
(* network and the player answer, fail or are cut off by a cancelled context. *)
EXTENDS Naturals, Sequences, FiniteSets

CONSTANTS
    CallCount,  \* bound: the calls that pages and player make, one goroutine each
    Kinds,      \* the operations those calls may ask for
    SlotCount   \* capacity of operationSlots (16 in the code)

VARIABLES
    kind,       \* the operation each admitted call runs, else "none"
    at,         \* the stage it is at; 0 before the call, 1 once it has returned
    closed,     \* Service.closed
    cancelled,  \* lifecycleCtx is cancelled
    starting,   \* who holds startupMu in Start, and what it has opened
    closing,    \* how far Close is
    store,      \* Service.store and its handle
    identity,   \* holder of Service.identity
    settings,   \* holder of Service.settingsMu
    playing,    \* holder of Service.playMu
    row,        \* the stored settings row
    seen,       \* what each call read of that row
    proxy,      \* the proxy settings in force
    saved,      \* the newest value saved for each part of the row
    mapping,    \* the id stored for one episode of the source, None for none
    known,      \* the id each call found stored for it
    conflict,   \* a save was refused because another id was stored
    player,     \* Service.player is set
    session,    \* Service.session, named by the call that started it
    live,       \* sessions whose player and checkpoint loop run
    failed,     \* live sessions whose player has failed
    taken       \* the session each call, or Close, has taken to close it

service  == <<closed, cancelled, starting, closing, store>>
locks    == <<identity, settings, playing>>
rows     == <<row, seen, proxy, saved>>
ids      == <<mapping, known, conflict>>
playback == <<player, session, live, failed, taken>>
vars     == <<kind, at, service, locks, rows, ids, playback>>

Calls  == 1..CallCount     \* numbered in the order in which they are made
Closer == CallCount + 1    \* the goroutine that runs Close
None   == 0
Earlier == CallCount + 2   \* what an earlier run of the program has saved as the page's part
Off    == None             \* the zero value: no proxy

(***************************************************************************)
(* The operations.  Every one is admitted by begin and given back by done. *)
(***************************************************************************)

\* ingestAnime and ingestEpisodes hold the identity lock; done is deferred.
IngestAnime    == <<"identity", "ingest", "release">>
IngestEpisodes == <<"identity", "mappings", "map", "release">>
\* core.App, called by the service
RefreshLookup  == <<"read", "fetch", "fetch", "write">>
ListFollowing  == <<"read", "read">>
ListHistory    == <<"read", "read">>
MyAnimeListID  == <<"read", "read", "fetch", "fetch">>
FindOpening    == <<"read", "fetch">>
PreparePlay    == <<"read", "fetch", "write">>
\* fillCatalogInfo and addScheduledCatalogAnime: what fails in them is forgiven
FillCatalogInfo     == <<"tryRead", "tryRead", "tryFetch", "identity", "tryIngest", "release">>
AddScheduledCatalog == <<"tryFetch", "identity", "tryIngest", "release">>
StoredSchedule      == <<"read", "read">>

Catalog           == <<"snapshot", "fetch">> \o IngestAnime
Library           == <<"snapshot", "read">>
Detail            == <<"snapshot", "read", "read", "read">>
RefreshMetadata   == <<"snapshot">> \o FillCatalogInfo \o RefreshLookup
StoredEpisodes    == <<"snapshot", "read">>
Episodes          == <<"snapshot", "read", "fetch">> \o IngestEpisodes
Following         == <<"snapshot">> \o ListFollowing
SetFollowing      == <<"snapshot", "write">>
Schedule          == <<"snapshot", "fetch", "write">> \o AddScheduledCatalog \o StoredSchedule
CachedSchedule    == <<"snapshot">> \o StoredSchedule
History           == <<"snapshot">> \o ListHistory
RemoveHistory     == <<"snapshot", "write">>
Settings          == <<"snapshot", "read">>
SaveSettings      == <<"snapshot", "settings", "readRow", "savePage", "proxy">>
\* Fault: the row is read and saved without settingsMu.
UnlockedSpeed == <<"snapshot", "readRow", "saveSpeed">>

SavePlaybackSpeed == <<"snapshot", "settings", "readRow", "saveSpeed">>
PlayKept          == <<"play", "snapshot", "read", "player", "switch", "closeOld", "player">>
Play              == PlayKept \o PreparePlay \o <<"start", "publish">>
StopPlayback      == <<"play", "take", "closeTaken">>
GetCover          == <<"read", "fetch">>
TestProxy         == <<"fetch">>
CheckForUpdate    == <<"fetch">>
OpeningTimes      == <<"snapshot">> \o MyAnimeListID \o FindOpening

Program == [Catalog |-> Catalog, Library |-> Library, Detail |-> Detail,
            RefreshMetadata |-> RefreshMetadata, StoredEpisodes |-> StoredEpisodes,
            Episodes |-> Episodes, Following |-> Following, SetFollowing |-> SetFollowing,
            Schedule |-> Schedule, CachedSchedule |-> CachedSchedule, History |-> History,
            RemoveHistory |-> RemoveHistory, Settings |-> Settings,
            SaveSettings |-> SaveSettings, SavePlaybackSpeed |-> SavePlaybackSpeed,
            Play |-> Play, StopPlayback |-> StopPlayback, GetCover |-> GetCover,
            TestProxy |-> TestProxy, CheckForUpdate |-> CheckForUpdate,
            OpeningTimes |-> OpeningTimes]

ASSUME BackendAssumption ==
    /\ CallCount \in Nat /\ SlotCount \in Nat \ {0}
    /\ Kinds \subseteq DOMAIN Program

Admitted    == {c \in Calls : kind[c] # "none"}
Code(c)     == Program[kind[c]]
IsAt(c, s)  == c \in Admitted /\ Code(c)[at[c]] = s
NoSession   == [c \in Calls \cup {Closer} |-> None]

Init ==
    /\ kind = [c \in Calls |-> "none"]
    /\ at = [c \in Calls |-> 0]
    /\ closed = FALSE /\ cancelled = FALSE
    /\ starting = "no" /\ closing = "no" /\ store = "none"
    /\ identity = None /\ settings = None /\ playing = None
    /\ row = [page |-> Earlier, speed |-> None] /\ saved = row
    /\ seen = [c \in Calls |-> row]
    /\ proxy = Off
    /\ mapping = None /\ known = [c \in Calls |-> None] /\ conflict = FALSE
    /\ player = FALSE /\ session = None /\ live = {} /\ failed = {}
    /\ taken = NoSession

(***************************************************************************)
(* Admission, and how an operation goes on or ends.                        *)
(***************************************************************************)
\* begin refuses at once when every slot is taken, after Close or the end of
\* the application's context, and before the store is open.
Admits == /\ Cardinality(Admitted) < SlotCount
          /\ ~closed /\ ~cancelled /\ store = "open"

Begin(c) ==
    /\ at[c] = 0 /\ \A d \in 1..(c - 1) : at[d] # 0
    /\ at' = [at EXCEPT ![c] = 1]
    /\ IF Admits THEN \E k \in Kinds : kind' = [kind EXCEPT ![c] = k] ELSE UNCHANGED kind
    /\ UNCHANGED <<service, locks, rows, ids, playback>>

\* The deferred unlocks and done of an operation that returns.
Leave(c) ==
    /\ kind' = [kind EXCEPT ![c] = "none"] /\ at' = [at EXCEPT ![c] = 1]
    /\ identity' = IF identity = c THEN None ELSE identity
    /\ settings' = IF settings = c THEN None ELSE settings
    /\ playing'  = IF playing = c THEN None ELSE playing

GoTo(c, stage) == at' = [at EXCEPT ![c] = stage] /\ UNCHANGED <<kind, locks>>

Advance(c) == IF at[c] = Len(Code(c)) THEN Leave(c) ELSE GoTo(c, at[c] + 1)

\* The stage after the best-effort part the call is in.
AfterTry(c) ==
    1 + CHOOSE i \in at[c]..Len(Code(c)) :
          Code(c)[i] = "release" /\ \A j \in at[c]..(i - 1) : Code(c)[j] # "release"

\* appSnapshot: a service that was closed meanwhile ends the operation.
Snapshot(c) ==
    /\ IsAt(c, "snapshot")
    /\ IF closed THEN Leave(c) ELSE Advance(c)
    /\ UNCHANGED <<service, rows, ids, playback>>

\* One call of the store, of a provider or of the source; it answers, or its
\* failure, timeout or cancelled context ends the operation.
Access(c) ==
    /\ IsAt(c, "read") \/ IsAt(c, "fetch") \/ IsAt(c, "write") \/ IsAt(c, "ingest")
    /\ Advance(c) \/ Leave(c)
    /\ UNCHANGED <<service, rows, ids, playback>>

\* The same in a best-effort part, which a failure only cuts short.
Try(c) ==
    /\ IsAt(c, "tryRead") \/ IsAt(c, "tryFetch")
    /\ Advance(c) \/ GoTo(c, AfterTry(c))
    /\ UNCHANGED <<service, rows, ids, playback>>

TryIngest(c) ==
    /\ IsAt(c, "tryIngest")
    /\ Advance(c)
    /\ UNCHANGED <<service, rows, ids, playback>>

(***************************************************************************)
(* The mutexes of the operations; a waiting call keeps its slot.           *)
(***************************************************************************)
LockIdentity(c) ==
    /\ IsAt(c, "identity") /\ identity = None
    /\ identity' = c
    /\ at' = [at EXCEPT ![c] = @ + 1]
    /\ UNCHANGED <<kind, service, settings, playing, rows, ids, playback>>

ReleaseIdentity(c) ==
    /\ IsAt(c, "release")
    /\ IF at[c] = Len(Code(c)) THEN Leave(c)
       ELSE /\ at' = [at EXCEPT ![c] = @ + 1]
            /\ identity' = None
            /\ UNCHANGED <<kind, settings, playing>>
    /\ UNCHANGED <<service, rows, ids, playback>>

LockSettings(c) ==
    /\ IsAt(c, "settings") /\ settings = None
    /\ settings' = c
    /\ at' = [at EXCEPT ![c] = @ + 1]
    /\ UNCHANGED <<kind, service, identity, playing, rows, ids, playback>>

LockPlay(c) ==
    /\ IsAt(c, "play") /\ playing = None
    /\ playing' = c
    /\ at' = [at EXCEPT ![c] = @ + 1]
    /\ UNCHANGED <<kind, service, identity, settings, rows, ids, playback>>

(***************************************************************************)
(* Episode ids: read the stored mappings, then save what is new under a    *)
(* fresh id, here named by the call.  The store refuses a second id.       *)
(***************************************************************************)
ReadMappings(c) ==
    /\ IsAt(c, "mappings")
    /\ \/ known' = [known EXCEPT ![c] = mapping] /\ Advance(c)
       \/ UNCHANGED known /\ Leave(c)
    /\ UNCHANGED <<service, rows, mapping, conflict, playback>>

MapEpisode(c) ==
    /\ IsAt(c, "map")
    /\ \/ /\ known[c] # None \/ mapping = None
          /\ mapping' = IF known[c] # None THEN mapping ELSE c
          /\ Advance(c) /\ UNCHANGED conflict
       \/ /\ known[c] = None /\ mapping # None
          /\ conflict' = TRUE /\ Leave(c) /\ UNCHANGED mapping
       \/ Leave(c) /\ UNCHANGED <<mapping, conflict>>
    /\ UNCHANGED <<service, rows, known, playback>>

(***************************************************************************)
(* The settings row holds what the settings page saves and the speed the   *)
(* player saves; each save writes the whole row.                           *)
(***************************************************************************)
ReadRow(c) ==
    /\ IsAt(c, "readRow")
    /\ \/ seen' = [seen EXCEPT ![c] = row] /\ Advance(c)
       \/ UNCHANGED seen /\ Leave(c)
    /\ UNCHANGED <<service, row, proxy, saved, ids, playback>>

SavePage(c) ==
    /\ IsAt(c, "savePage")
    /\ \/ /\ row' = [page |-> c, speed |-> seen[c].speed]
          /\ saved' = [saved EXCEPT !.page = c]
          /\ Advance(c)
       \/ UNCHANGED <<row, saved>> /\ Leave(c)
    /\ UNCHANGED <<service, seen, proxy, ids, playback>>

SetProxy(c) ==
    /\ IsAt(c, "proxy")
    /\ proxy' = c
    /\ Advance(c)
    /\ UNCHANGED <<service, row, seen, saved, ids, playback>>

SaveSpeed(c) ==
    /\ IsAt(c, "saveSpeed")
    /\ \/ /\ row' = [seen[c] EXCEPT !.speed = c]
          /\ saved' = [saved EXCEPT !.speed = c]
          /\ Advance(c)
       \/ UNCHANGED <<row, saved>> /\ Leave(c)
    /\ UNCHANGED <<service, seen, proxy, ids, playback>>

(***************************************************************************)
(* Playing: one player and one session, kept across episodes.              *)
(***************************************************************************)
\* ensurePlayer: the kept player, or a new one, which may not be made.
EnsurePlayer(c) ==
    /\ IsAt(c, "player")
    /\ \/ player /\ Advance(c) /\ UNCHANGED player
       \/ ~player /\ ~closed /\ player' = TRUE /\ Advance(c)
       \/ ~player /\ Leave(c) /\ UNCHANGED player
    /\ UNCHANGED <<service, rows, ids, session, live, failed, taken>>

\* With a session the episode is switched in it: that works, fails, or tells
\* that the player is closed or has failed.  A session that is closed already
\* only fails: ErrPlaybackTracking is not terminal.
Switch(c) ==
    /\ IsAt(c, "switch")
    /\ \/ session = None /\ GoTo(c, Len(PlayKept) + 1)
       \/ session # None /\ Leave(c)
       \/ session \in failed /\ Advance(c)
    /\ UNCHANGED <<service, rows, ids, playback>>

\* Fault: the failed session is forgotten without being closed.
UnclosedOld(c) ==
    /\ IsAt(c, "closeOld")
    /\ session' = None /\ player' = FALSE /\ Advance(c)
    /\ UNCHANGED <<service, rows, ids, live, failed, taken>>

\* The failed session is closed; an error of that close keeps it registered.
CloseOld(c) ==
    /\ IsAt(c, "closeOld")
    /\ live' = live \ {session} /\ failed' = failed \ {session}
    /\ \/ session' = None /\ player' = FALSE /\ Advance(c)
       \/ UNCHANGED <<session, player>> /\ Leave(c)
    /\ UNCHANGED <<service, rows, ids, taken>>

StartSession(c) ==
    /\ IsAt(c, "start")
    /\ \/ live' = live \cup {c} /\ Advance(c)
       \/ UNCHANGED live /\ Leave(c)
    /\ UNCHANGED <<service, rows, ids, player, session, failed, taken>>

\* The new session is registered; one that was registered meanwhile is closed.
Publish(c) ==
    /\ IsAt(c, "publish")
    /\ session' = c
    /\ live' = live \ {session} /\ failed' = failed \ {session}
    /\ Leave(c)
    /\ UNCHANGED <<service, rows, ids, player, taken>>

TakeSession(c) ==
    /\ IsAt(c, "take")
    /\ taken' = [taken EXCEPT ![c] = session]
    /\ session' = None
    /\ IF session = None THEN Leave(c) ELSE Advance(c)
    /\ UNCHANGED <<service, rows, ids, player, live, failed>>

CloseTaken(c) ==
    /\ IsAt(c, "closeTaken")
    /\ live' = live \ {taken[c]} /\ failed' = failed \ {taken[c]}
    /\ taken' = [taken EXCEPT ![c] = None]
    /\ Advance(c)
    /\ UNCHANGED <<service, rows, ids, player, session>>

\* The player fails while it plays.
PlayerFails(s) ==
    /\ s \in live \ failed
    /\ failed' = failed \cup {s}
    /\ UNCHANGED <<kind, at, service, locks, rows, ids, player, session, live, taken>>

(***************************************************************************)
(* Start, the end of the application's context, and Close.                 *)
(***************************************************************************)
StartupFree == starting = "no" /\ closing \in {"no", "begun"}

StartBegin ==
    /\ StartupFree /\ ~closed /\ ~cancelled /\ store = "none"
    /\ starting' = "opening"
    /\ UNCHANGED <<kind, at, closed, cancelled, closing, store, locks, rows, ids, playback>>

\* openProduction opens the store and reads the stored proxy, or fails before or after.
\* Settings that cannot be read leave the proxy off, and Start goes on.
StartOpen ==
    /\ starting = "opening"
    /\ starting' \in {"opened", "no"}
    /\ proxy' \in IF starting' = "opened" THEN {row.page, Off} ELSE {row.page, Off, proxy}
    /\ UNCHANGED <<kind, at, closed, cancelled, closing, store, locks, row, seen, saved, ids, playback>>

\* adopt, unless the service was closed while the store was being opened:
\* then what was opened is closed again.
StartAdopt ==
    /\ starting = "opened"
    /\ starting' = "no"
    /\ store' = IF closed THEN store ELSE "open"
    /\ UNCHANGED <<kind, at, closed, cancelled, closing, locks, rows, ids, playback>>

\* bindLifecycle: the end of the context given to Start cancels the service's.
ContextEnds ==
    /\ store = "open" /\ ~cancelled
    /\ cancelled' = TRUE
    /\ UNCHANGED <<kind, at, closed, starting, closing, store, locks, rows, ids, playback>>

CloseBegin ==
    /\ closing = "no"
    /\ closing' = "begun" /\ closed' = TRUE /\ cancelled' = TRUE
    /\ UNCHANGED <<kind, at, starting, store, locks, rows, ids, playback>>

CloseLock ==
    /\ closing = "begun" /\ StartupFree
    /\ closing' = "waiting"
    /\ UNCHANGED <<kind, at, closed, cancelled, starting, store, locks, rows, ids, playback>>

\* Fault: Close does not wait for the operations.
UnsafeWait ==
    /\ closing = "waiting"
    /\ taken' = [taken EXCEPT ![Closer] = session]
    /\ session' = None
    /\ closing' = "session"
    /\ UNCHANGED <<kind, at, closed, cancelled, starting, store, locks, rows, ids, player, live, failed>>

\* operationsWG.Wait, then the session is taken.
CloseWait ==
    /\ closing = "waiting" /\ Admitted = {}
    /\ taken' = [taken EXCEPT ![Closer] = session]
    /\ session' = None
    /\ closing' = "session"
    /\ UNCHANGED <<kind, at, closed, cancelled, starting, store, locks, rows, ids, player, live, failed>>

CloseSession ==
    /\ closing = "session"
    /\ live' = live \ {taken[Closer]} /\ failed' = failed \ {taken[Closer]}
    /\ taken' = [taken EXCEPT ![Closer] = None]
    /\ closing' = "store"
    /\ UNCHANGED <<kind, at, closed, cancelled, starting, store, locks, rows, ids, player, session>>

CloseStore ==
    /\ closing = "store"
    /\ store' = IF store = "open" THEN "closed" ELSE store
    /\ closing' = "done"
    /\ UNCHANGED <<kind, at, closed, cancelled, starting, locks, rows, ids, playback>>

Stage(c) == \/ Snapshot(c) \/ Access(c) \/ Try(c) \/ TryIngest(c)
            \/ LockIdentity(c) \/ ReleaseIdentity(c) \/ LockSettings(c) \/ LockPlay(c)
            \/ ReadMappings(c) \/ MapEpisode(c)
            \/ ReadRow(c) \/ SavePage(c) \/ SetProxy(c) \/ SaveSpeed(c)
            \/ EnsurePlayer(c) \/ Switch(c) \/ CloseOld(c) \/ StartSession(c)
            \/ Publish(c) \/ TakeSession(c) \/ CloseTaken(c)

Closing == CloseLock \/ CloseWait \/ CloseSession \/ CloseStore

Next == \/ \E c \in Calls : Begin(c) \/ Stage(c) \/ PlayerFails(c)
        \/ StartBegin \/ StartOpen \/ StartAdopt \/ ContextEnds
        \/ CloseBegin \/ Closing

Spec == Init /\ [][Next]_vars

\* Every access of the network and of the store ends: by its answer, its
\* timeout or the cancelled context.  A goroutine that can go on is scheduled;
\* a call has few stages, so fairness of all of them together is enough.
Fairness == /\ WF_vars(\E c \in Calls : Stage(c))
            /\ WF_vars(StartOpen \/ StartAdopt)
            /\ WF_vars(Closing)

FairSpec == Spec /\ Fairness

(***************************************************************************)
(* Properties.                                                             *)
(***************************************************************************)
Owners == Calls \cup {None}
Savers == Owners \cup {Earlier}
TypeOK ==
    /\ kind \in [Calls -> Kinds \cup {"none"}]
    /\ \A c \in Calls : at[c] \in 0..(IF kind[c] = "none" THEN 1 ELSE Len(Code(c)))
    /\ closed \in BOOLEAN /\ cancelled \in BOOLEAN
    /\ starting \in {"no", "opening", "opened"}
    /\ closing \in {"no", "begun", "waiting", "session", "store", "done"}
    /\ store \in {"none", "open", "closed"}
    /\ identity \in Owners /\ settings \in Owners /\ playing \in Owners
    /\ row \in [page : Savers, speed : Savers] /\ saved \in [page : Savers, speed : Savers]
    /\ seen \in [Calls -> [page : Savers, speed : Savers]] /\ proxy \in Savers
    /\ mapping \in Owners /\ known \in [Calls -> Owners] /\ conflict \in BOOLEAN
    /\ player \in BOOLEAN /\ session \in Owners
    /\ live \subseteq Calls /\ failed \subseteq live
    /\ taken \in [Calls \cup {Closer} -> Owners]

\* Nothing uses a store that is not open: no operation is under way and no
\* session, whose loop saves checkpoints on its own, is alive before the store
\* is adopted or after Close has closed it.  (begin, Close: the operations are
\* waited for, then the session is closed, then the store.)
StoreOutlivesUse == TypeOK /\ (store # "open" => Admitted = {} /\ live = {})

\* One playback at a time, and never one nobody can stop: a live session is
\* registered, or the call that starts it or the one that took it is about to
\* register or to close it.  (play, StopPlayback and Close hand it over.)
OneOwnedSession ==
    /\ Cardinality(live) <= 1
    /\ \A s \in live : \/ session = s \/ IsAt(s, "publish")
                       \/ \E c \in Calls \cup {Closer} : taken[c] = s

\* The proxy in force is the stored one, but for one that Start could not read: until
\* the settings page saves, that one is off.
ProxyAgrees == proxy = row.page \/ (row.page = Earlier /\ proxy = Off)

\* No save of one part of the settings row undoes another's save of the other
\* part, and whenever no save is under way the proxy in force agrees with the row.
NoSaveIsUndone ==
    /\ row = saved
    /\ store = "open" /\ settings = None => ProxyAgrees

\* Two loads of one episode list agree on each episode's id: neither is
\* refused by the store because the other had named the episode first.
LoadsAgreeOnIds == ~conflict

\* What one operation saved or named, another does not undo or refuse.
SavesAreKept == NoSaveIsUndone /\ LoadsAgreeOnIds

\* Close returns, whatever the operations and the start were doing: every
\* admitted call ends, also one that waits for a lock another call held.
CloseReturns == closing = "begun" ~> closing = "done"
=============================================================================
