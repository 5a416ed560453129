---------------------------- MODULE BackendProofs ----------------------------
(***************************************************************************)
(* The service, for any number of calls and slots and any of the           *)
(* operations; and its listing of seasons, for any number of lookups and   *)
(* any sizes of pages and cache.                                           *)
(***************************************************************************)
EXTENDS Backend, Seasons, SequenceTheorems, FiniteSetTheorems, TLAPS

-----------------------------------------------------------------------------
(* The programs. What the proof needs of them is where their locks are     *)
(* held, and which stage comes before those that rely on what it read.     *)

Stages == {"snapshot", "read", "fetch", "write", "tryRead", "tryFetch", "tryIngest",
           "identity", "ingest", "mappings", "map", "release",
           "settings", "readRow", "savePage", "saveSpeed", "proxy",
           "play", "player", "switch", "closeOld", "start", "publish", "take", "closeTaken"}

\* The identity lock is held at stage i; stage s was passed before it.
Held(p, i) == \E j \in 1..(i - 1) : p[j] = "identity" /\ \A l \in j..(i - 1) : p[l] # "release"
Passed(p, i, s) == \E j \in 1..(i - 1) : p[j] = s
Never(p, S) == \A l \in 1..Len(p) : p[l] \notin S

IdentityStages == {"ingest", "mappings", "map", "tryIngest", "release"}
SettingsStages == {"readRow", "savePage", "saveSpeed", "proxy"}
PlayStages     == {"player", "switch", "closeOld", "start", "publish", "take", "closeTaken"}

WellFormed(p) ==
  /\ Len(p) \in Nat \ {0}
  /\ \A i \in 1..Len(p) :
       /\ p[i] \in IdentityStages => Held(p, i)
       /\ p[i] \in SettingsStages => Passed(p, i, "settings")
       /\ p[i] \in PlayStages => Passed(p, i, "play")
       /\ p[i] \in {"savePage", "saveSpeed"} => p[i - 1] = "readRow"
       /\ p[i] = "proxy" => p[i - 1] = "savePage"
       /\ p[i] = "map" => p[i - 1] = "mappings"
       /\ p[i] = "closeTaken" => p[i - 1] = "take"
       /\ p[i] = "publish" => p[i - 1] = "start"
       /\ p[i] = "savePage" => i < Len(p) /\ p[i + 1] = "proxy"
       /\ p[i] = "start" => i < Len(p) /\ p[i + 1] = "publish"
       /\ p[i] = "take" => i < Len(p) /\ p[i + 1] = "closeTaken"
       /\ p[i] \in {"publish", "closeTaken"} => i = Len(p)
       /\ p[i] \in {"identity", "settings", "play"} => i < Len(p)
       /\ p[i] \in {"start", "publish"} => Passed(p, i, "closeOld")
       /\ p[i] \in {"tryRead", "tryFetch"} =>
            /\ ~Held(p, i) /\ Never(p, {"settings", "play", "closeOld"})
            /\ \E j \in (i + 1)..(Len(p) - 1) :
                 p[j] = "release" /\ \A l \in i..(j - 1) : p[l] # "release"
       /\ p[i] = "switch" =>
            /\ i <= Len(PlayKept) /\ Len(PlayKept) < Len(p) /\ p[Len(PlayKept) + 1] = "read"
            /\ Never(p, {"identity", "settings"})

LEMMA Joined ==
  ASSUME NEW s \in Seq(Stages), NEW t \in Seq(Stages), NEW u \in Seq(Stages),
         Len(u) = Len(s) + Len(t),
         \A i \in 1..Len(s) : u[i] = s[i],
         \A i \in 1..Len(t) : u[Len(s) + i] = t[i]
  PROVE  s \o t = u
<1>1. /\ s \o t \in Seq(Stages) /\ Len(s \o t) = Len(s) + Len(t)
      /\ \A i \in 1..(Len(s) + Len(t)) :
           (s \o t)[i] = IF i <= Len(s) THEN s[i] ELSE t[i - Len(s)]
  BY ConcatProperties
<1>2. ASSUME NEW i \in 1..Len(u) PROVE u[i] = (s \o t)[i]
  <2>1. CASE i <= Len(s)
    BY <1>1, <2>1
  <2>2. CASE i > Len(s)
    <3>1. i - Len(s) \in 1..Len(t) /\ Len(s) + (i - Len(s)) = i
      BY <2>2
    <3>2. u[Len(s) + (i - Len(s))] = t[i - Len(s)]
      BY <3>1
    <3> QED
      BY <1>1, <2>2, <3>1, <3>2
  <2> QED
    BY <2>1, <2>2
<1> QED
  BY <1>1, <1>2, SeqEqual

LEMMA CatalogStages == Catalog =
  <<"snapshot", "fetch", "identity", "ingest", "release">>
<1> DEFINE s == <<"snapshot", "fetch">>
           t == <<"identity", "ingest", "release">>
           u == <<"snapshot", "fetch", "identity", "ingest", "release">>
<1>1. s \in Seq(Stages) /\ t \in Seq(Stages) /\ u \in Seq(Stages) /\ Len(u) = Len(s) + Len(t)
  BY DEF Stages
<1>2. (\A i \in 1..Len(s) : u[i] = s[i]) /\ \A i \in 1..Len(t) : u[Len(s) + i] = t[i]
  OBVIOUS
<1>3. Catalog = s \o t
  BY DEF Catalog, IngestAnime
<1> HIDE DEF s, t, u
<1>4. s \o t = u
  BY <1>1, <1>2, Joined
<1> QED
  BY <1>3, <1>4 DEF u

LEMMA EpisodesStages == Episodes =
  <<"snapshot", "read", "fetch", "identity", "mappings", "map", "release">>
<1> DEFINE s == <<"snapshot", "read", "fetch">>
           t == <<"identity", "mappings", "map", "release">>
           u == <<"snapshot", "read", "fetch", "identity", "mappings", "map", "release">>
<1>1. s \in Seq(Stages) /\ t \in Seq(Stages) /\ u \in Seq(Stages) /\ Len(u) = Len(s) + Len(t)
  BY DEF Stages
<1>2. (\A i \in 1..Len(s) : u[i] = s[i]) /\ \A i \in 1..Len(t) : u[Len(s) + i] = t[i]
  OBVIOUS
<1>3. Episodes = s \o t
  BY DEF Episodes, IngestEpisodes
<1> HIDE DEF s, t, u
<1>4. s \o t = u
  BY <1>1, <1>2, Joined
<1> QED
  BY <1>3, <1>4 DEF u

LEMMA FillStages == <<"snapshot">> \o FillCatalogInfo =
  <<"snapshot", "tryRead", "tryRead", "tryFetch", "identity", "tryIngest", "release">>
<1> DEFINE s == <<"snapshot">>
           t == <<"tryRead", "tryRead", "tryFetch", "identity", "tryIngest", "release">>
           u == <<"snapshot", "tryRead", "tryRead", "tryFetch", "identity", "tryIngest", "release">>
<1>1. s \in Seq(Stages) /\ t \in Seq(Stages) /\ u \in Seq(Stages) /\ Len(u) = Len(s) + Len(t)
  BY DEF Stages
<1>2. (\A i \in 1..Len(s) : u[i] = s[i]) /\ \A i \in 1..Len(t) : u[Len(s) + i] = t[i]
  OBVIOUS
<1>3. <<"snapshot">> \o FillCatalogInfo = s \o t
  BY DEF FillCatalogInfo
<1> HIDE DEF s, t, u
<1>4. s \o t = u
  BY <1>1, <1>2, Joined
<1> QED
  BY <1>3, <1>4 DEF u

LEMMA RefreshStages == RefreshMetadata =
  <<"snapshot", "tryRead", "tryRead", "tryFetch", "identity", "tryIngest", "release", "read", "fetch", "fetch", "write">>
<1> DEFINE s == <<"snapshot", "tryRead", "tryRead", "tryFetch", "identity", "tryIngest", "release">>
           t == <<"read", "fetch", "fetch", "write">>
           u == <<"snapshot", "tryRead", "tryRead", "tryFetch", "identity", "tryIngest", "release", "read", "fetch", "fetch", "write">>
<1>1. s \in Seq(Stages) /\ t \in Seq(Stages) /\ u \in Seq(Stages) /\ Len(u) = Len(s) + Len(t)
  BY DEF Stages
<1>2. (\A i \in 1..Len(s) : u[i] = s[i]) /\ \A i \in 1..Len(t) : u[Len(s) + i] = t[i]
  OBVIOUS
<1>3. RefreshMetadata = s \o t
  BY FillStages DEF RefreshMetadata, RefreshLookup
<1> HIDE DEF s, t, u
<1>4. s \o t = u
  BY <1>1, <1>2, Joined
<1> QED
  BY <1>3, <1>4 DEF u

LEMMA AddStages == <<"snapshot", "fetch", "write">> \o AddScheduledCatalog =
  <<"snapshot", "fetch", "write", "tryFetch", "identity", "tryIngest", "release">>
<1> DEFINE s == <<"snapshot", "fetch", "write">>
           t == <<"tryFetch", "identity", "tryIngest", "release">>
           u == <<"snapshot", "fetch", "write", "tryFetch", "identity", "tryIngest", "release">>
<1>1. s \in Seq(Stages) /\ t \in Seq(Stages) /\ u \in Seq(Stages) /\ Len(u) = Len(s) + Len(t)
  BY DEF Stages
<1>2. (\A i \in 1..Len(s) : u[i] = s[i]) /\ \A i \in 1..Len(t) : u[Len(s) + i] = t[i]
  OBVIOUS
<1>3. <<"snapshot", "fetch", "write">> \o AddScheduledCatalog = s \o t
  BY DEF AddScheduledCatalog
<1> HIDE DEF s, t, u
<1>4. s \o t = u
  BY <1>1, <1>2, Joined
<1> QED
  BY <1>3, <1>4 DEF u

LEMMA ScheduleStages == Schedule =
  <<"snapshot", "fetch", "write", "tryFetch", "identity", "tryIngest", "release", "read", "read">>
<1> DEFINE s == <<"snapshot", "fetch", "write", "tryFetch", "identity", "tryIngest", "release">>
           t == <<"read", "read">>
           u == <<"snapshot", "fetch", "write", "tryFetch", "identity", "tryIngest", "release", "read", "read">>
<1>1. s \in Seq(Stages) /\ t \in Seq(Stages) /\ u \in Seq(Stages) /\ Len(u) = Len(s) + Len(t)
  BY DEF Stages
<1>2. (\A i \in 1..Len(s) : u[i] = s[i]) /\ \A i \in 1..Len(t) : u[Len(s) + i] = t[i]
  OBVIOUS
<1>3. Schedule = s \o t
  BY AddStages DEF Schedule, StoredSchedule
<1> HIDE DEF s, t, u
<1>4. s \o t = u
  BY <1>1, <1>2, Joined
<1> QED
  BY <1>3, <1>4 DEF u

LEMMA PrepareStages == PlayKept \o PreparePlay =
  <<"play", "snapshot", "read", "player", "switch", "closeOld", "player", "read", "fetch", "write">>
<1> DEFINE s == <<"play", "snapshot", "read", "player", "switch", "closeOld", "player">>
           t == <<"read", "fetch", "write">>
           u == <<"play", "snapshot", "read", "player", "switch", "closeOld", "player", "read", "fetch", "write">>
<1>1. s \in Seq(Stages) /\ t \in Seq(Stages) /\ u \in Seq(Stages) /\ Len(u) = Len(s) + Len(t)
  BY DEF Stages
<1>2. (\A i \in 1..Len(s) : u[i] = s[i]) /\ \A i \in 1..Len(t) : u[Len(s) + i] = t[i]
  OBVIOUS
<1>3. PlayKept \o PreparePlay = s \o t
  BY DEF PlayKept, PreparePlay
<1> HIDE DEF s, t, u
<1>4. s \o t = u
  BY <1>1, <1>2, Joined
<1> QED
  BY <1>3, <1>4 DEF u

LEMMA PlayStagesAre == Play =
  <<"play", "snapshot", "read", "player", "switch", "closeOld", "player", "read", "fetch", "write", "start", "publish">>
<1> DEFINE s == <<"play", "snapshot", "read", "player", "switch", "closeOld", "player", "read", "fetch", "write">>
           t == <<"start", "publish">>
           u == <<"play", "snapshot", "read", "player", "switch", "closeOld", "player", "read", "fetch", "write", "start", "publish">>
<1>1. s \in Seq(Stages) /\ t \in Seq(Stages) /\ u \in Seq(Stages) /\ Len(u) = Len(s) + Len(t)
  BY DEF Stages
<1>2. (\A i \in 1..Len(s) : u[i] = s[i]) /\ \A i \in 1..Len(t) : u[Len(s) + i] = t[i]
  OBVIOUS
<1>3. Play = s \o t
  BY PrepareStages DEF Play
<1> HIDE DEF s, t, u
<1>4. s \o t = u
  BY <1>1, <1>2, Joined
<1> QED
  BY <1>3, <1>4 DEF u

\* A program of these stages alone takes no lock and relies on nothing.
Plain == {"snapshot", "read", "fetch", "write"}

LEMMA PlainIsWellFormed ==
  ASSUME NEW p \in Seq(Plain), Len(p) # 0
  PROVE  WellFormed(p)
<1>1. Len(p) \in Nat \ {0} /\ \A i \in 1..Len(p) : p[i] \in Plain
  OBVIOUS
<1> QED
  BY <1>1 DEF WellFormed, Plain, IdentityStages, SettingsStages, PlayStages

LEMMA PlainJoined ==
  ASSUME NEW s \in Seq(Plain), NEW t \in Seq(Plain), Len(s) # 0
  PROVE  s \o t \in Seq(Plain) /\ Len(s \o t) # 0
  BY ConcatProperties

LEMMA ProgramsAreWellFormed == \A k \in DOMAIN Program : WellFormed(Program[k])
<1> USE DEF IdentityStages, SettingsStages, PlayStages
<1>0. Len(PlayKept) = 7
  BY DEF PlayKept
<1>1. WellFormed(Catalog)
  BY CatalogStages DEF WellFormed, Held, Passed
<1>2. WellFormed(RefreshMetadata)
  BY RefreshStages DEF WellFormed, Held, Passed, Never
<1>3. WellFormed(Episodes)
  BY EpisodesStages DEF WellFormed, Held, Passed
<1>4. WellFormed(Schedule)
  BY ScheduleStages DEF WellFormed, Held, Passed, Never
<1>5. WellFormed(SaveSettings) /\ WellFormed(SavePlaybackSpeed)
  BY DEF SaveSettings, SavePlaybackSpeed, WellFormed, Passed
<1>6. WellFormed(Play)
  BY <1>0, PlayStagesAre DEF WellFormed, Passed, Never
<1>7. WellFormed(StopPlayback)
  BY DEF StopPlayback, WellFormed, Passed
<1>8. /\ WellFormed(Library) /\ WellFormed(Detail) /\ WellFormed(StoredEpisodes)
      /\ WellFormed(SetFollowing) /\ WellFormed(RemoveHistory) /\ WellFormed(Settings)
      /\ WellFormed(GetCover) /\ WellFormed(TestProxy) /\ WellFormed(CheckForUpdate)
  <2>1. /\ Library \in Seq(Plain) /\ Detail \in Seq(Plain) /\ StoredEpisodes \in Seq(Plain)
        /\ SetFollowing \in Seq(Plain) /\ RemoveHistory \in Seq(Plain) /\ Settings \in Seq(Plain)
        /\ GetCover \in Seq(Plain) /\ TestProxy \in Seq(Plain) /\ CheckForUpdate \in Seq(Plain)
    BY DEF Library, Detail, StoredEpisodes, SetFollowing, RemoveHistory, Settings,
           GetCover, TestProxy, CheckForUpdate, Plain
  <2>2. /\ Len(Library) # 0 /\ Len(Detail) # 0 /\ Len(StoredEpisodes) # 0
        /\ Len(SetFollowing) # 0 /\ Len(RemoveHistory) # 0 /\ Len(Settings) # 0
        /\ Len(GetCover) # 0 /\ Len(TestProxy) # 0 /\ Len(CheckForUpdate) # 0
    BY DEF Library, Detail, StoredEpisodes, SetFollowing, RemoveHistory, Settings,
           GetCover, TestProxy, CheckForUpdate
  <2> QED
    BY <2>1, <2>2, PlainIsWellFormed
<1>9. WellFormed(Following) /\ WellFormed(CachedSchedule) /\ WellFormed(History)
  <2>1. <<"snapshot">> \in Seq(Plain) /\ Len(<<"snapshot">>) # 0 /\ <<"read", "read">> \in Seq(Plain)
    BY DEF Plain
  <2>2. <<"snapshot">> \o <<"read", "read">> \in Seq(Plain) /\ Len(<<"snapshot">> \o <<"read", "read">>) # 0
    BY <2>1, PlainJoined
  <2>3. WellFormed(<<"snapshot">> \o <<"read", "read">>)
    BY <2>2, PlainIsWellFormed
  <2> QED
    BY <2>3 DEF Following, ListFollowing, CachedSchedule, StoredSchedule, History, ListHistory
<1>10. WellFormed(OpeningTimes)
  <2>1. <<"snapshot">> \in Seq(Plain) /\ Len(<<"snapshot">>) # 0 /\ MyAnimeListID \in Seq(Plain) /\ FindOpening \in Seq(Plain)
    BY DEF Plain, MyAnimeListID, FindOpening
  <2>2. <<"snapshot">> \o MyAnimeListID \in Seq(Plain) /\ Len(<<"snapshot">> \o MyAnimeListID) # 0
    BY <2>1, PlainJoined
  <2>3. <<"snapshot">> \o MyAnimeListID \o FindOpening \in Seq(Plain) /\ Len(<<"snapshot">> \o MyAnimeListID \o FindOpening) # 0
    BY <2>1, <2>2, PlainJoined
  <2> QED
    BY <2>3, PlainIsWellFormed DEF OpeningTimes
<1> QED
  BY <1>1, <1>2, <1>3, <1>4, <1>5, <1>6, <1>7, <1>8, <1>9, <1>10 DEF Program

\* How a lock's holder changes with the stage.
LEMMA HeldOn ==
  ASSUME NEW p, NEW i \in Nat \ {0}
  PROVE  Held(p, i + 1) <=> p[i] = "identity" \/ (Held(p, i) /\ p[i] # "release")
<1>1. (i + 1) - 1 = i
  OBVIOUS
<1>2. ASSUME Held(p, i + 1) PROVE p[i] = "identity" \/ (Held(p, i) /\ p[i] # "release")
  <2>1. PICK j \in 1..i : p[j] = "identity" /\ \A l \in j..i : p[l] # "release"
    BY <1>1, <1>2 DEF Held
  <2>2. p[i] # "release"
    BY <2>1
  <2>3. j # i => Held(p, i)
    BY <2>1 DEF Held
  <2> QED
    BY <2>1, <2>2, <2>3
<1>3. ASSUME p[i] = "identity" PROVE Held(p, i + 1)
  <2>1. i \in 1..i /\ \A l \in i..i : p[l] # "release"
    BY <1>3
  <2> QED
    BY <1>1, <1>3, <2>1 DEF Held
<1>4. ASSUME Held(p, i), p[i] # "release" PROVE Held(p, i + 1)
  <2>1. PICK j \in 1..(i - 1) : p[j] = "identity" /\ \A l \in j..(i - 1) : p[l] # "release"
    BY <1>4 DEF Held
  <2>2. j \in 1..i /\ \A l \in j..i : p[l] # "release"
    BY <1>4, <2>1
  <2> QED
    BY <1>1, <2>1, <2>2 DEF Held
<1> QED
  BY <1>2, <1>3, <1>4

LEMMA PassedOn ==
  ASSUME NEW p, NEW i \in Nat \ {0}, NEW s
  PROVE  Passed(p, i + 1, s) <=> Passed(p, i, s) \/ p[i] = s
  BY DEF Passed

LEMMA FirstStage ==
  ASSUME NEW p
  PROVE  ~Held(p, 1) /\ \A s : ~Passed(p, 1, s)
  BY DEF Held, Passed

\* The stage a best-effort part is left for comes after its release.
LEMMA AfterTryIs ==
  ASSUME NEW c, NEW n \in Nat, n = Len(Code(c)), at[c] \in 1..n,
         \E j \in (at[c] + 1)..(n - 1) :
            Code(c)[j] = "release" /\ \A l \in at[c]..(j - 1) : Code(c)[l] # "release"
  PROVE  /\ AfterTry(c) \in (at[c] + 2)..n
         /\ Code(c)[AfterTry(c) - 1] = "release"
<1> DEFINE First(i) == Code(c)[i] = "release" /\ \A l \in at[c]..(i - 1) : Code(c)[l] # "release"
           r == CHOOSE i \in at[c]..n : First(i)
<1>1. PICK j \in (at[c] + 1)..(n - 1) : First(j)
  OBVIOUS
<1>2. r \in at[c]..n /\ First(r)
  <2>1. j \in at[c]..n
    BY <1>1
  <2> HIDE DEF First
  <2> QED
    BY <1>1, <2>1
<1>3. AfterTry(c) = 1 + r
  BY DEF AfterTry
<1> HIDE DEF r
<1>4. r <= j
  BY <1>1, <1>2
<1>5. r # at[c]
  BY <1>1, <1>2
<1> QED
  BY <1>1, <1>2, <1>3, <1>4, <1>5

-----------------------------------------------------------------------------
(* The inductive invariant. A lock is held by the call whose program says  *)
(* so; what a call has read under a lock is still true at the stage that   *)
(* relies on it; and what lives has an owner.                              *)

CallsTyped ==
  /\ kind \in [Calls -> Kinds \cup {"none"}] /\ at \in [Calls -> Nat]
  /\ identity \in Owners /\ settings \in Owners /\ playing \in Owners
  /\ \A c \in Calls :
       /\ kind[c] = "none" => at[c] <= 1
       /\ kind[c] # "none" => at[c] \in 1..Len(Program[kind[c]])

Rows == [page : Savers, speed : Savers]
DataTyped ==
  /\ closed \in BOOLEAN /\ cancelled \in BOOLEAN
  /\ starting \in {"no", "opening", "opened"}
  /\ closing \in {"no", "begun", "waiting", "session", "store", "done"}
  /\ store \in {"none", "open", "closed"}
  /\ row \in Rows /\ saved \in Rows /\ seen \in [Calls -> Rows] /\ proxy \in Savers
  /\ mapping \in Owners /\ known \in [Calls -> Owners] /\ conflict \in BOOLEAN
  /\ player \in BOOLEAN /\ session \in Owners
  /\ live \subseteq Calls /\ failed \subseteq live
  /\ taken \in [Calls \cup {Closer} -> Owners]

LocksAreHeld ==
  \A c \in Calls :
    /\ identity = c <=> c \in Admitted /\ Held(Code(c), at[c])
    /\ settings = c <=> c \in Admitted /\ Passed(Code(c), at[c], "settings")
    /\ playing = c <=> c \in Admitted /\ Passed(Code(c), at[c], "play")

\* An operation that plays goes on only without an old session.
Past(c) == c \in Admitted /\ Passed(Code(c), at[c], "closeOld")

CallsAreSound ==
  \A c \in Calls :
    /\ IsAt(c, "savePage") \/ IsAt(c, "saveSpeed") => seen[c] = row
    /\ IsAt(c, "proxy") => row.page = c
    /\ IsAt(c, "map") => known[c] = mapping
    /\ IsAt(c, "closeTaken") \/ Past(c) => session = None
    /\ taken[c] # None => IsAt(c, "closeTaken")

SettingsAgree ==
  /\ row = saved
  /\ store = "none" => row.page = Earlier
  /\ store = "open" => ProxyAgrees \/ \E c \in Calls : IsAt(c, "proxy")
  /\ starting = "opened" => ProxyAgrees

LifeIsSound ==
  /\ starting # "no" => store = "none" /\ closing \in {"no", "begun"}
  /\ closing # "no" => closed
  /\ closing \in {"session", "store", "done"} => Admitted = {} /\ session = None
  /\ taken[Closer] # None => closing = "session"
  /\ store # "open" => Admitted = {} /\ session = None /\ live = {}

LiveIsOwned ==
  \A s \in live : \/ session = s \/ IsAt(s, "publish")
                  \/ \E c \in Calls \cup {Closer} : taken[c] = s

BackendInv ==
  /\ CallsTyped /\ DataTyped /\ LocksAreHeld /\ CallsAreSound
  /\ SettingsAgree /\ ~conflict /\ LifeIsSound /\ LiveIsOwned

-----------------------------------------------------------------------------
(* How a call moves, and what that leaves of the locks.                    *)

LEMMA Numbers == Calls \subseteq Nat \ {0} /\ None \notin Calls /\ Closer \notin Calls /\ Closer \in Nat
  BY BackendAssumption DEF Calls, None, Closer

LEMMA Running ==
  ASSUME CallsTyped, NEW c \in Admitted
  PROVE  /\ c \in Calls /\ kind[c] \in Kinds /\ kind[c] # "none"
         /\ WellFormed(Code(c)) /\ Len(Code(c)) \in Nat \ {0} /\ at[c] \in 1..Len(Code(c))
<1>1. c \in Calls /\ kind[c] \in Kinds /\ kind[c] # "none" /\ at[c] \in 1..Len(Code(c))
  BY DEF CallsTyped, Admitted, Code
<1>2. WellFormed(Code(c))
  BY <1>1, ProgramsAreWellFormed, BackendAssumption DEF Code
<1> QED
  BY <1>1, <1>2 DEF WellFormed

Ended(c)   == kind' = [kind EXCEPT ![c] = "none"] /\ at' = [at EXCEPT ![c] = 1]
WentTo(c, j) == kind' = kind /\ at' = [at EXCEPT ![c] = j]
Others(c)  == \A d \in Calls \ {c} : kind'[d] = kind[d] /\ at'[d] = at[d]

LEMMA LeaveStep ==
  ASSUME CallsTyped, LocksAreHeld, NEW c \in Calls, Leave(c)
  PROVE  CallsTyped' /\ LocksAreHeld' /\ Ended(c)
<1>1. Ended(c) /\ kind'[c] = "none" /\ at'[c] = 1 /\ Others(c)
  BY DEF CallsTyped, Leave, Ended, Others
<1>2. CallsTyped'
  <2>1. kind' \in [Calls -> Kinds \cup {"none"}] /\ at' \in [Calls -> Nat]
    BY <1>1 DEF CallsTyped, Ended
  <2>2. identity' \in Owners /\ settings' \in Owners /\ playing' \in Owners
    BY DEF CallsTyped, Leave, Owners
  <2> QED
    BY <1>1, <2>1, <2>2 DEF CallsTyped, Others
<1>3. ASSUME NEW d \in Calls
      PROVE  /\ identity' = d <=> d # c /\ identity = d
             /\ settings' = d <=> d # c /\ settings = d
             /\ playing' = d <=> d # c /\ playing = d
  BY Numbers DEF Leave
<1>4. LocksAreHeld'
  BY <1>1, <1>3 DEF LocksAreHeld, Others, Admitted, Code
<1> QED
  BY <1>1, <1>2, <1>4

LEMMA MoveStep ==
  ASSUME CallsTyped, LocksAreHeld, NEW c \in Admitted, NEW j \in 1..Len(Code(c)), WentTo(c, j),
         identity' \in Owners, settings' \in Owners, playing' \in Owners,
         \A d \in Calls \ {c} : /\ identity' = d <=> identity = d
                                /\ settings' = d <=> settings = d
                                /\ playing' = d <=> playing = d,
         identity' = c <=> Held(Code(c), j),
         settings' = c <=> Passed(Code(c), j, "settings"),
         playing' = c <=> Passed(Code(c), j, "play")
  PROVE  CallsTyped' /\ LocksAreHeld'
<1>1. c \in Calls /\ kind[c] # "none" /\ Len(Code(c)) \in Nat \ {0}
  BY Running
<1>2. kind' = kind /\ at'[c] = j /\ at' \in [Calls -> Nat] /\ Others(c)
  BY <1>1 DEF CallsTyped, WentTo, Others
<1>3. CallsTyped'
  BY <1>1, <1>2 DEF CallsTyped, Others, Code
<1>4. LocksAreHeld'
  BY <1>1, <1>2 DEF LocksAreHeld, Others, Admitted, Code
<1> QED
  BY <1>3, <1>4

LockStages == {"identity", "release", "settings", "play"}

LEMMA AdvanceStep ==
  ASSUME CallsTyped, LocksAreHeld, NEW c \in Admitted,
         Code(c)[at[c]] \notin LockStages, Advance(c)
  PROVE  /\ CallsTyped' /\ LocksAreHeld'
         /\ Ended(c) \/ (WentTo(c, at[c] + 1) /\ at[c] < Len(Code(c)))
<1>1. c \in Calls /\ Len(Code(c)) \in Nat \ {0} /\ at[c] \in 1..Len(Code(c)) /\ at[c] \in Nat \ {0}
  BY Running
<1>2. CASE at[c] = Len(Code(c))
  BY <1>1, <1>2, LeaveStep DEF Advance
<1>3. CASE at[c] # Len(Code(c))
  <2>1. GoTo(c, at[c] + 1) /\ at[c] < Len(Code(c)) /\ at[c] + 1 \in 1..Len(Code(c))
    BY <1>1, <1>3 DEF Advance
  <2>2. WentTo(c, at[c] + 1) /\ UNCHANGED <<identity, settings, playing>>
    BY <2>1 DEF GoTo, WentTo, locks
  <2>3. /\ Held(Code(c), at[c] + 1) <=> Held(Code(c), at[c])
        /\ Passed(Code(c), at[c] + 1, "settings") <=> Passed(Code(c), at[c], "settings")
        /\ Passed(Code(c), at[c] + 1, "play") <=> Passed(Code(c), at[c], "play")
    BY <1>1, HeldOn, PassedOn DEF LockStages
  <2>4. /\ identity = c <=> Held(Code(c), at[c])
        /\ settings = c <=> Passed(Code(c), at[c], "settings")
        /\ playing = c <=> Passed(Code(c), at[c], "play")
    BY <1>1 DEF LocksAreHeld
  <2>5. CallsTyped' /\ LocksAreHeld'
    <3>1. identity' \in Owners /\ settings' \in Owners /\ playing' \in Owners
      BY <2>2 DEF CallsTyped
    <3> QED
      BY <2>1, <2>2, <2>3, <2>4, <3>1, MoveStep
  <2> QED
    BY <2>1, <2>2, <2>5
<1> QED
  BY <1>2, <1>3

LEMMA LockStep ==
  ASSUME CallsTyped, LocksAreHeld, NEW c \in Admitted, WentTo(c, at[c] + 1),
         \/ /\ Code(c)[at[c]] = "identity" /\ identity = None
            /\ identity' = c /\ UNCHANGED <<settings, playing>>
         \/ /\ Code(c)[at[c]] = "settings" /\ settings = None
            /\ settings' = c /\ UNCHANGED <<identity, playing>>
         \/ /\ Code(c)[at[c]] = "play" /\ playing = None
            /\ playing' = c /\ UNCHANGED <<identity, settings>>
         \/ /\ Code(c)[at[c]] = "release" /\ at[c] # Len(Code(c))
            /\ identity' = None /\ UNCHANGED <<settings, playing>>
  PROVE  CallsTyped' /\ LocksAreHeld' /\ at[c] < Len(Code(c))
<1>1. c \in Calls /\ Len(Code(c)) \in Nat \ {0} /\ at[c] \in 1..Len(Code(c)) /\ at[c] \in Nat \ {0}
  BY Running
<1>2. WellFormed(Code(c))
  BY Running
<1>3. at[c] < Len(Code(c))
  BY <1>1, <1>2 DEF WellFormed
<1>4. /\ identity = c <=> Held(Code(c), at[c])
      /\ settings = c <=> Passed(Code(c), at[c], "settings")
      /\ playing = c <=> Passed(Code(c), at[c], "play")
  BY <1>1 DEF LocksAreHeld
<1>5. Code(c)[at[c]] = "release" => Held(Code(c), at[c])
  BY <1>1, <1>2 DEF WellFormed, IdentityStages
<1>6. /\ Held(Code(c), at[c] + 1) <=>
           Code(c)[at[c]] = "identity" \/ (Held(Code(c), at[c]) /\ Code(c)[at[c]] # "release")
      /\ Passed(Code(c), at[c] + 1, "settings") <=>
           Passed(Code(c), at[c], "settings") \/ Code(c)[at[c]] = "settings"
      /\ Passed(Code(c), at[c] + 1, "play") <=>
           Passed(Code(c), at[c], "play") \/ Code(c)[at[c]] = "play"
  BY <1>1, HeldOn, PassedOn
<1>7. identity' \in Owners /\ settings' \in Owners /\ playing' \in Owners
  BY <1>1 DEF CallsTyped, Owners
<1>8. \A d \in Calls \ {c} : /\ identity' = d <=> identity = d
                             /\ settings' = d <=> settings = d
                             /\ playing' = d <=> playing = d
  BY <1>1, <1>4, <1>5, Numbers
<1>9. /\ identity' = c <=> Held(Code(c), at[c] + 1)
      /\ settings' = c <=> Passed(Code(c), at[c] + 1, "settings")
      /\ playing' = c <=> Passed(Code(c), at[c] + 1, "play")
  BY <1>1, <1>4, <1>6, Numbers
<1>10. at[c] + 1 \in 1..Len(Code(c))
  BY <1>1, <1>3
<1> QED
  BY <1>3, <1>7, <1>8, <1>9, <1>10, MoveStep

\* A best-effort part that fails is left for the stage after it, and a play
\* without an old session goes on behind the stages that would close it.
LEMMA TryJump ==
  ASSUME CallsTyped, LocksAreHeld, NEW c \in Admitted,
         Code(c)[at[c]] \in {"tryRead", "tryFetch"}, GoTo(c, AfterTry(c))
  PROVE  /\ CallsTyped' /\ LocksAreHeld' /\ WentTo(c, AfterTry(c))
         /\ AfterTry(c) \in 2..Len(Code(c)) /\ Code(c)[AfterTry(c) - 1] = "release"
         /\ ~Passed(Code(c), AfterTry(c), "closeOld")
<1>1. c \in Calls /\ Len(Code(c)) \in Nat \ {0} /\ at[c] \in 1..Len(Code(c)) /\ at[c] \in Nat \ {0}
  BY Running
<1>2. WellFormed(Code(c))
  BY Running
<1>3. /\ ~Held(Code(c), at[c]) /\ Never(Code(c), {"settings", "play", "closeOld"})
      /\ \E j \in (at[c] + 1)..(Len(Code(c)) - 1) :
           Code(c)[j] = "release" /\ \A l \in at[c]..(j - 1) : Code(c)[l] # "release"
  BY <1>1, <1>2 DEF WellFormed
<1>4. AfterTry(c) \in (at[c] + 2)..Len(Code(c)) /\ Code(c)[AfterTry(c) - 1] = "release"
  BY <1>1, <1>3, AfterTryIs
<1> DEFINE j == AfterTry(c)
<1>5. j \in 2..Len(Code(c)) /\ j \in 1..Len(Code(c)) /\ Code(c)[j - 1] = "release"
  BY <1>1, <1>4
<1>6. /\ ~Passed(Code(c), at[c], "settings") /\ ~Passed(Code(c), at[c], "play")
      /\ ~Passed(Code(c), j, "settings") /\ ~Passed(Code(c), j, "play") /\ ~Passed(Code(c), j, "closeOld")
  <2>1. \A i \in 1..(j - 1) : i \in 1..Len(Code(c))
    BY <1>1, <1>5
  <2>2. \A i \in 1..(at[c] - 1) : i \in 1..Len(Code(c))
    BY <1>1
  <2>3. \A i \in 1..Len(Code(c)) : Code(c)[i] # "settings" /\ Code(c)[i] # "play" /\ Code(c)[i] # "closeOld"
    BY <1>3 DEF Never
  <2> HIDE DEF j
  <2> QED
    BY <2>1, <2>2, <2>3 DEF Passed
<1>7. ~Held(Code(c), j)
  <2>1. \A i \in 1..(j - 1) : j - 1 \in i..(j - 1)
    BY <1>1, <1>5
  <2> QED
    BY <1>5, <2>1 DEF Held
<1>8. WentTo(c, j) /\ UNCHANGED <<identity, settings, playing>>
  BY DEF GoTo, WentTo, locks
<1>9. identity # c /\ settings # c /\ playing # c
  BY <1>1, <1>3, <1>6 DEF LocksAreHeld
<1>10. identity' \in Owners /\ settings' \in Owners /\ playing' \in Owners
  BY <1>8 DEF CallsTyped
<1> HIDE DEF j
<1>11. CallsTyped' /\ LocksAreHeld'
  BY <1>5, <1>6, <1>7, <1>8, <1>9, <1>10, MoveStep
<1> QED
  BY <1>5, <1>6, <1>8, <1>11 DEF j

LEMMA SwitchJump ==
  ASSUME CallsTyped, LocksAreHeld, NEW c \in Admitted,
         Code(c)[at[c]] = "switch", GoTo(c, Len(PlayKept) + 1)
  PROVE  /\ CallsTyped' /\ LocksAreHeld' /\ WentTo(c, Len(PlayKept) + 1)
         /\ Len(PlayKept) + 1 \in 1..Len(Code(c)) /\ Code(c)[Len(PlayKept) + 1] = "read"
<1>1. c \in Calls /\ Len(Code(c)) \in Nat \ {0} /\ at[c] \in 1..Len(Code(c)) /\ at[c] \in Nat \ {0}
  BY Running
<1>2. WellFormed(Code(c)) /\ Len(PlayKept) = 7
  BY Running DEF PlayKept
<1>3. /\ at[c] <= Len(PlayKept) /\ Len(PlayKept) < Len(Code(c)) /\ Code(c)[Len(PlayKept) + 1] = "read"
      /\ Never(Code(c), {"identity", "settings"}) /\ Passed(Code(c), at[c], "play")
  BY <1>1, <1>2 DEF WellFormed, PlayStages
<1> DEFINE j == Len(PlayKept) + 1
<1>4. j \in 1..Len(Code(c)) /\ Code(c)[j] = "read" /\ at[c] < j /\ j \in Nat
  BY <1>1, <1>2, <1>3
<1>5. /\ ~Passed(Code(c), at[c], "settings") /\ ~Passed(Code(c), j, "settings")
      /\ ~Held(Code(c), at[c]) /\ ~Held(Code(c), j)
  BY <1>1, <1>3, <1>4 DEF Never, Passed, Held
<1>6. Passed(Code(c), j, "play")
  BY <1>1, <1>3, <1>4 DEF Passed
<1>7. WentTo(c, j) /\ UNCHANGED <<identity, settings, playing>>
  BY DEF GoTo, WentTo, locks
<1>8. identity # c /\ settings # c /\ playing = c
  BY <1>1, <1>3, <1>5 DEF LocksAreHeld
<1>9. identity' \in Owners /\ settings' \in Owners /\ playing' \in Owners
  BY <1>7 DEF CallsTyped
<1> HIDE DEF j
<1>10. CallsTyped' /\ LocksAreHeld'
  BY <1>4, <1>5, <1>6, <1>7, <1>8, <1>9, MoveStep
<1> QED
  BY <1>4, <1>7, <1>10 DEF j

\* Who holds a lock at the stages that rely on it.
LEMMA Holders ==
  ASSUME CallsTyped, LocksAreHeld, NEW c \in Admitted
  PROVE  /\ Code(c)[at[c]] \in IdentityStages => identity = c
         /\ Code(c)[at[c]] \in SettingsStages => settings = c
         /\ Code(c)[at[c]] \in PlayStages => playing = c
         /\ Past(c) => playing = c
<1>1. c \in Calls /\ Len(Code(c)) \in Nat \ {0} /\ at[c] \in 1..Len(Code(c)) /\ WellFormed(Code(c))
  BY Running
<1>2. Past(c) => Passed(Code(c), at[c], "play")
  <2> SUFFICES ASSUME Past(c) PROVE Passed(Code(c), at[c], "play")
    OBVIOUS
  <2>1. PICK j \in 1..(at[c] - 1) : Code(c)[j] = "closeOld"
    BY DEF Past, Passed
  <2>2. Passed(Code(c), j, "play")
    BY <1>1, <2>1 DEF WellFormed, PlayStages
  <2> QED
    BY <1>1, <2>1, <2>2 DEF Passed
<1>3. /\ Code(c)[at[c]] \in IdentityStages => Held(Code(c), at[c])
      /\ Code(c)[at[c]] \in SettingsStages => Passed(Code(c), at[c], "settings")
      /\ Code(c)[at[c]] \in PlayStages => Passed(Code(c), at[c], "play")
  BY <1>1 DEF WellFormed
<1> QED
  BY <1>1, <1>2, <1>3 DEF LocksAreHeld

-----------------------------------------------------------------------------
(* Steps that change nothing but the stage of one call.                    *)

LEMMA NextStage ==
  ASSUME CallsTyped, NEW c \in Admitted, at[c] < Len(Code(c))
  PROVE  /\ Code(c)[at[c] + 1] \in {"savePage", "saveSpeed"} => Code(c)[at[c]] = "readRow"
         /\ Code(c)[at[c] + 1] = "proxy" => Code(c)[at[c]] = "savePage"
         /\ Code(c)[at[c] + 1] = "map" => Code(c)[at[c]] = "mappings"
         /\ Code(c)[at[c] + 1] = "closeTaken" => Code(c)[at[c]] = "take"
         /\ Code(c)[at[c] + 1] = "publish" => Code(c)[at[c]] = "start"
         /\ Passed(Code(c), at[c] + 1, "closeOld") =>
              Passed(Code(c), at[c], "closeOld") \/ Code(c)[at[c]] = "closeOld"
<1>1. WellFormed(Code(c)) /\ Len(Code(c)) \in Nat /\ at[c] \in 1..Len(Code(c))
  BY Running
<1>2. at[c] + 1 \in 1..Len(Code(c)) /\ (at[c] + 1) - 1 = at[c] /\ at[c] \in Nat \ {0}
  BY <1>1
<1>3. Passed(Code(c), at[c] + 1, "closeOld") =>
        Passed(Code(c), at[c], "closeOld") \/ Code(c)[at[c]] = "closeOld"
  BY <1>2, PassedOn
<1> DEFINE j == at[c] + 1
<1>4. j \in 1..Len(Code(c)) /\ j - 1 = at[c]
  BY <1>2
<1> HIDE DEF j
<1>5. /\ Code(c)[j] \in {"savePage", "saveSpeed"} => Code(c)[j - 1] = "readRow"
      /\ Code(c)[j] = "proxy" => Code(c)[j - 1] = "savePage"
      /\ Code(c)[j] = "map" => Code(c)[j - 1] = "mappings"
      /\ Code(c)[j] = "closeTaken" => Code(c)[j - 1] = "take"
      /\ Code(c)[j] = "publish" => Code(c)[j - 1] = "start"
  BY <1>1, <1>4 DEF WellFormed
<1> QED
  BY <1>3, <1>4, <1>5 DEF j

LEMMA WhileAdmitted ==
  ASSUME LifeIsSound, NEW c \in Admitted
  PROVE  store = "open" /\ starting = "no" /\ closing \notin {"session", "store", "done"} /\ taken[Closer] = None
  BY DEF LifeIsSound

Relying == {"savePage", "saveSpeed", "proxy", "map", "closeTaken", "publish"}

\* What such a step keeps of each part of the invariant.
LEMMA LifeStays ==
  ASSUME LifeIsSound, NEW c \in Admitted, UNCHANGED service, taken'[Closer] = taken[Closer]
  PROVE  LifeIsSound'
<1>1. store = "open" /\ starting = "no" /\ closing \notin {"session", "store", "done"} /\ taken[Closer] = None
  BY WhileAdmitted
<1> QED
  BY <1>1 DEF LifeIsSound, service

LEMMA OtherCall ==
  ASSUME NEW c, NEW d \in Calls \ {c}, Others(c)
  PROVE  (\A s : IsAt(d, s)' <=> IsAt(d, s)) /\ (Past(d)' <=> Past(d))
<1>1. kind'[d] = kind[d] /\ at'[d] = at[d]
  BY DEF Others
<1> QED
  BY <1>1 DEF IsAt, Past, Admitted, Code

LEMMA SettingsStay ==
  ASSUME SettingsAgree, NEW c \in Admitted, Others(c), Code(c)[at[c]] # "proxy",
         UNCHANGED <<service, row, saved, proxy>>
  PROVE  SettingsAgree'
<1>1. ASSUME NEW d \in Calls, IsAt(d, "proxy") PROVE IsAt(d, "proxy")'
  <2>1. d # c
    BY <1>1 DEF IsAt
  <2>2. kind'[d] = kind[d] /\ at'[d] = at[d]
    BY <2>1 DEF Others
  <2> QED
    BY <1>1, <2>2 DEF IsAt, Admitted, Code
<1> QED
  BY <1>1 DEF SettingsAgree, ProxyAgrees, service

LEMMA OwnedStays ==
  ASSUME LiveIsOwned, live \subseteq Calls, NEW c \in Admitted, Others(c),
         Code(c)[at[c]] # "publish", UNCHANGED <<session, live, taken>>
  PROVE  LiveIsOwned'
<1>1. ASSUME NEW d \in Calls, IsAt(d, "publish") PROVE IsAt(d, "publish")'
  <2>1. d # c
    BY <1>1 DEF IsAt
  <2>2. kind'[d] = kind[d] /\ at'[d] = at[d]
    BY <2>1 DEF Others
  <2> QED
    BY <1>1, <2>2 DEF IsAt, Admitted, Code
<1> QED
  BY <1>1 DEF LiveIsOwned

LEMMA QuietStep ==
  ASSUME BackendInv, NEW c \in Admitted, CallsTyped', LocksAreHeld', Others(c),
         Code(c)[at[c]] \notin {"proxy", "publish", "closeTaken"},
         \/ kind'[c] = "none"
         \/ /\ kind'[c] = kind[c] /\ Code(c)[at'[c]] \notin Relying
            /\ Passed(Code(c), at'[c], "closeOld") => Past(c) \/ session = None,
         UNCHANGED <<service, rows, ids, session, live, failed, taken>>, player' \in BOOLEAN
  PROVE  BackendInv'
<1>1. c \in Calls /\ kind[c] # "none" /\ CallsTyped
  BY Running DEF BackendInv
<1>2. /\ UNCHANGED <<closed, cancelled, starting, closing, store>>
      /\ UNCHANGED <<row, seen, proxy, saved, mapping, known, conflict>>
      /\ UNCHANGED <<session, live, failed, taken>>
  BY DEF service, rows, ids
<1>3. DataTyped'
  BY <1>2 DEF BackendInv, DataTyped
<1>4. CallsAreSound'
  <2> SUFFICES ASSUME NEW d \in Calls
               PROVE  /\ IsAt(d, "savePage")' \/ IsAt(d, "saveSpeed")' => seen[d] = row
                      /\ IsAt(d, "proxy")' => row.page = d
                      /\ IsAt(d, "map")' => known[d] = mapping
                      /\ IsAt(d, "closeTaken")' \/ Past(d)' => session = None
                      /\ taken[d] # None => IsAt(d, "closeTaken")'
    BY <1>2 DEF CallsAreSound, IsAt, Past
  <2>1. CallsAreSound
    BY DEF BackendInv
  <2>2. CASE d # c
    <3>1. kind'[d] = kind[d] /\ at'[d] = at[d]
      BY <2>2 DEF Others
    <3> QED
      BY <2>1, <3>1 DEF CallsAreSound, IsAt, Past, Admitted, Code
  <2>3. CASE d = c
    <3>1. taken[c] = None /\ (Past(c) => session = None)
      BY <1>1, <2>1 DEF CallsAreSound, IsAt
    <3> QED
      BY <2>3, <3>1 DEF IsAt, Past, Admitted, Code, Relying
  <2> QED
    BY <2>2, <2>3
<1>5. SettingsAgree' /\ LifeIsSound' /\ LiveIsOwned'
  BY <1>2, SettingsStay, LifeStays, OwnedStays DEF BackendInv, DataTyped
<1> QED
  BY <1>2, <1>3, <1>4, <1>5 DEF BackendInv

LEMMA Moves ==
  ASSUME CallsTyped, NEW c \in Calls
  PROVE  /\ Ended(c) => Others(c) /\ kind'[c] = "none" /\ Admitted' = Admitted \ {c}
         /\ \A j : WentTo(c, j) => Others(c) /\ kind'[c] = kind[c] /\ at'[c] = j /\ Admitted' = Admitted
<1>1. Ended(c) => Others(c) /\ kind'[c] = "none"
  BY DEF CallsTyped, Ended, Others
<1>2. ASSUME NEW j, WentTo(c, j) PROVE Others(c) /\ kind'[c] = kind[c] /\ at'[c] = j /\ Admitted' = Admitted
  BY <1>2 DEF CallsTyped, WentTo, Others, Admitted
<1> QED
  BY <1>1, <1>2 DEF Others, Admitted

\* The stages that change nothing the invariant relates.
Quiet == {"snapshot", "read", "fetch", "write", "ingest", "tryRead", "tryFetch", "tryIngest",
          "player", "switch", "identity", "release", "settings", "play"}

LEMMA QuietGoes ==
  ASSUME BackendInv, NEW c \in Admitted, Code(c)[at[c]] \in Quiet,
         CallsTyped', LocksAreHeld', Ended(c) \/ (WentTo(c, at[c] + 1) /\ at[c] < Len(Code(c))),
         UNCHANGED <<service, rows, ids, session, live, failed, taken>>, player' \in BOOLEAN
  PROVE  BackendInv'
<1>0. CallsTyped /\ c \in Calls
  BY Running DEF BackendInv
<1>1. Code(c)[at[c]] \notin {"proxy", "publish", "closeTaken"}
  BY DEF Quiet
<1>2. CASE Ended(c)
  BY <1>0, <1>1, <1>2, Moves, QuietStep
<1>3. CASE WentTo(c, at[c] + 1) /\ at[c] < Len(Code(c)) /\ ~Ended(c)
  <2>1. Others(c) /\ kind'[c] = kind[c] /\ at'[c] = at[c] + 1
    BY <1>0, <1>3, Moves
  <2>2. /\ Code(c)[at[c] + 1] \notin Relying
        /\ Passed(Code(c), at[c] + 1, "closeOld") => Passed(Code(c), at[c], "closeOld")
    BY <1>0, <1>3, NextStage DEF Quiet, Relying
  <2> QED
    BY <1>1, <2>1, <2>2, QuietStep DEF Past
<1> QED
  BY <1>2, <1>3

LEMMA QuietAdvance ==
  ASSUME BackendInv, NEW c \in Admitted, Code(c)[at[c]] \in Quiet \ LockStages,
         Advance(c) \/ Leave(c),
         UNCHANGED <<service, rows, ids, session, live, failed, taken>>, player' \in BOOLEAN
  PROVE  BackendInv'
<1>0. CallsTyped /\ LocksAreHeld /\ c \in Calls
  BY Running DEF BackendInv
<1>1. CASE Advance(c)
  <2>1. CallsTyped' /\ LocksAreHeld' /\ (Ended(c) \/ (WentTo(c, at[c] + 1) /\ at[c] < Len(Code(c))))
    BY <1>0, <1>1, AdvanceStep
  <2> QED
    BY <2>1, QuietGoes DEF Quiet
<1>2. CASE Leave(c)
  <2>1. CallsTyped' /\ LocksAreHeld' /\ Ended(c)
    BY <1>0, <1>2, LeaveStep
  <2> QED
    BY <2>1, QuietGoes DEF Quiet
<1> QED
  BY <1>1, <1>2

\* An operation that ends for another reason than its work.
LEMMA QuietEnd ==
  ASSUME BackendInv, NEW c \in Admitted, Code(c)[at[c]] \notin {"proxy", "publish", "closeTaken"},
         Leave(c), UNCHANGED <<service, rows, ids, playback>>
  PROVE  BackendInv'
<1>0. CallsTyped /\ LocksAreHeld /\ c \in Calls /\ player \in BOOLEAN
  BY Running DEF BackendInv, DataTyped
<1>1. CallsTyped' /\ LocksAreHeld' /\ Others(c) /\ kind'[c] = "none"
  BY <1>0, LeaveStep, Moves
<1> QED
  BY <1>0, <1>1, QuietStep DEF playback

LEMMA QuietStages ==
  ASSUME BackendInv, NEW c \in Calls,
         \/ Snapshot(c) \/ Access(c) \/ Try(c) \/ TryIngest(c) \/ EnsurePlayer(c)
  PROVE  BackendInv'
<1>0. CallsTyped /\ LocksAreHeld /\ DataTyped /\ player \in BOOLEAN
  BY DEF BackendInv, DataTyped
<1> USE DEF IsAt, playback
<1>1. CASE Snapshot(c)
  BY <1>0, <1>1, QuietAdvance DEF Snapshot, Quiet, LockStages
<1>2. CASE Access(c)
  BY <1>0, <1>2, QuietAdvance DEF Access, Quiet, LockStages
<1>3. CASE Try(c)
  <2>1. CASE Advance(c)
    BY <1>0, <1>3, <2>1, QuietAdvance DEF Try, Quiet, LockStages
  <2>2. CASE GoTo(c, AfterTry(c))
    <3>1. c \in Admitted /\ Code(c)[at[c]] \in {"tryRead", "tryFetch"}
      BY <1>3 DEF Try
    <3>2. /\ CallsTyped' /\ LocksAreHeld' /\ WentTo(c, AfterTry(c))
          /\ AfterTry(c) \in 2..Len(Code(c)) /\ Code(c)[AfterTry(c) - 1] = "release"
          /\ ~Passed(Code(c), AfterTry(c), "closeOld")
      BY <1>0, <2>2, <3>1, TryJump
    <3>3. Others(c) /\ kind'[c] = kind[c] /\ at'[c] = AfterTry(c)
      BY <1>0, <3>2, Moves
    <3>4. Code(c)[AfterTry(c)] \notin Relying
      <4>1. WellFormed(Code(c)) /\ AfterTry(c) \in 1..Len(Code(c))
        BY <1>0, <3>1, <3>2, Running
      <4> QED
        BY <3>2, <4>1 DEF WellFormed, Relying
    <3> QED
      BY <1>0, <1>3, <3>1, <3>2, <3>3, <3>4, QuietStep DEF Try
  <2> QED
    BY <1>3, <2>1, <2>2 DEF Try
<1>4. CASE TryIngest(c)
  BY <1>0, <1>4, QuietAdvance DEF TryIngest, Quiet, LockStages
<1>5. CASE EnsurePlayer(c)
  <2>1. c \in Admitted /\ Code(c)[at[c]] = "player" /\ (Advance(c) \/ Leave(c)) /\ player' \in BOOLEAN
    BY <1>0, <1>5 DEF EnsurePlayer
  <2> QED
    BY <1>5, <2>1, QuietAdvance DEF EnsurePlayer, Quiet, LockStages
<1> QED
  BY <1>1, <1>2, <1>3, <1>4, <1>5

LEMMA SwitchStage ==
  ASSUME BackendInv, NEW c \in Calls, Switch(c)
  PROVE  BackendInv'
<1>0. CallsTyped /\ LocksAreHeld /\ player \in BOOLEAN
  BY DEF BackendInv, DataTyped
<1>1. c \in Admitted /\ Code(c)[at[c]] = "switch"
  BY DEF Switch, IsAt
<1>2. UNCHANGED <<service, rows, ids, session, live, failed, taken>> /\ player' \in BOOLEAN
  BY <1>0 DEF Switch, playback
<1>3. CASE Advance(c) \/ Leave(c)
  BY <1>1, <1>2, <1>3, QuietAdvance DEF Quiet, LockStages
<1>4. CASE session = None /\ GoTo(c, Len(PlayKept) + 1)
  <2>1. /\ CallsTyped' /\ LocksAreHeld' /\ WentTo(c, Len(PlayKept) + 1)
        /\ Len(PlayKept) + 1 \in 1..Len(Code(c)) /\ Code(c)[Len(PlayKept) + 1] = "read"
    BY <1>0, <1>1, <1>4, SwitchJump
  <2>2. Others(c) /\ kind'[c] = kind[c] /\ at'[c] = Len(PlayKept) + 1
    BY <1>0, <2>1, Moves
  <2> QED
    BY <1>1, <1>2, <1>4, <2>1, <2>2, QuietStep DEF Relying
<1> QED
  BY <1>3, <1>4 DEF Switch

LEMMA LockActions ==
  ASSUME BackendInv, NEW c \in Calls,
         \/ LockIdentity(c) \/ ReleaseIdentity(c) \/ LockSettings(c) \/ LockPlay(c)
  PROVE  BackendInv'
<1>0. CallsTyped /\ LocksAreHeld /\ player \in BOOLEAN
  BY DEF BackendInv, DataTyped
<1>1. CASE at' = [at EXCEPT ![c] = @ + 1] /\ kind' = kind
  <2>1. c \in Admitted /\ Code(c)[at[c]] \in Quiet
    BY DEF LockIdentity, ReleaseIdentity, LockSettings, LockPlay, IsAt, Quiet
  <2>2. WentTo(c, at[c] + 1)
    BY <1>1 DEF WentTo
  <2>3. CallsTyped' /\ LocksAreHeld' /\ at[c] < Len(Code(c))
    <3>1. ~Leave(c)
      BY <1>0, <1>1, <2>1 DEF Leave, CallsTyped, Admitted
    <3> QED
      BY <1>0, <2>1, <2>2, <3>1, LockStep DEF LockIdentity, ReleaseIdentity, LockSettings, LockPlay, IsAt
  <2>4. UNCHANGED <<service, rows, ids, session, live, failed, taken>> /\ player' \in BOOLEAN
    BY <1>0 DEF LockIdentity, ReleaseIdentity, LockSettings, LockPlay, playback
  <2> QED
    BY <2>1, <2>2, <2>3, <2>4, QuietGoes
<1>2. CASE ReleaseIdentity(c) /\ Leave(c)
  <2>1. CallsTyped' /\ LocksAreHeld' /\ Ended(c)
    BY <1>0, <1>2, LeaveStep
  <2>2. c \in Admitted /\ Code(c)[at[c]] = "release"
    BY <1>2 DEF ReleaseIdentity, IsAt
  <2>3. UNCHANGED <<service, rows, ids, session, live, failed, taken>> /\ player' \in BOOLEAN
    BY <1>0, <1>2 DEF ReleaseIdentity, playback
  <2> QED
    BY <2>1, <2>2, <2>3, QuietGoes DEF Quiet
<1> QED
  BY <1>1, <1>2 DEF LockIdentity, ReleaseIdentity, LockSettings, LockPlay

-----------------------------------------------------------------------------
(* Episode ids, and the settings row.                                      *)

\* How a call is left by a stage that is not a lock, and what comes next.
LEMMA Goes ==
  ASSUME BackendInv, NEW c \in Admitted, Code(c)[at[c]] \notin LockStages, Advance(c) \/ Leave(c)
  PROVE  /\ CallsTyped' /\ LocksAreHeld' /\ Others(c)
         /\ \A s \in {"savePage", "saveSpeed"} : IsAt(c, s)' => Code(c)[at[c]] = "readRow"
         /\ IsAt(c, "proxy")' => Code(c)[at[c]] = "savePage"
         /\ IsAt(c, "map")' => Code(c)[at[c]] = "mappings"
         /\ IsAt(c, "closeTaken")' => Code(c)[at[c]] = "take"
         /\ IsAt(c, "publish")' => Code(c)[at[c]] = "start"
         /\ Past(c)' => Past(c) \/ Code(c)[at[c]] = "closeOld"
<1>0. CallsTyped /\ LocksAreHeld /\ c \in Calls
  BY Running DEF BackendInv
<1>1. CallsTyped' /\ LocksAreHeld' /\ (Ended(c) \/ (WentTo(c, at[c] + 1) /\ at[c] < Len(Code(c))))
  BY <1>0, AdvanceStep, LeaveStep
<1>2. CASE Ended(c)
  <2>1. Others(c) /\ kind'[c] = "none"
    BY <1>0, <1>2, Moves
  <2> QED
    BY <1>1, <2>1 DEF IsAt, Past, Admitted
<1>3. CASE WentTo(c, at[c] + 1) /\ at[c] < Len(Code(c))
  <2>1. Others(c) /\ kind'[c] = kind[c] /\ at'[c] = at[c] + 1
    BY <1>0, <1>3, Moves
  <2>2. /\ \A s : IsAt(c, s)' => Code(c)[at[c] + 1] = s
        /\ Past(c)' => Passed(Code(c), at[c] + 1, "closeOld")
    BY <2>1 DEF IsAt, Past, Code
  <2> QED
    BY <1>0, <1>1, <1>3, <2>1, <2>2, NextStage DEF Past
<1> QED
  BY <1>1, <1>2, <1>3

LEMMA MappingStages ==
  ASSUME BackendInv, NEW c \in Calls, ReadMappings(c) \/ MapEpisode(c)
  PROVE  BackendInv'
<1>0. /\ CallsTyped /\ LocksAreHeld /\ DataTyped /\ CallsAreSound /\ ~conflict
      /\ SettingsAgree /\ LifeIsSound /\ LiveIsOwned /\ live \subseteq Calls
  BY DEF BackendInv, DataTyped
<1>1. c \in Admitted /\ Code(c)[at[c]] \in {"mappings", "map"} /\ (Advance(c) \/ Leave(c))
  BY DEF ReadMappings, MapEpisode, IsAt
<1>2. Code(c)[at[c]] \notin LockStages \cup {"proxy", "publish", "closeTaken"}
  BY <1>1 DEF LockStages
<1>3. UNCHANGED <<service, rows, playback>>
  BY DEF ReadMappings, MapEpisode
<1>4. /\ CallsTyped' /\ LocksAreHeld' /\ Others(c)
      /\ \A s \in {"savePage", "saveSpeed", "proxy", "closeTaken"} : ~IsAt(c, s)'
      /\ IsAt(c, "map")' => Code(c)[at[c]] = "mappings"
      /\ Past(c)' => Past(c)
  BY <1>1, <1>2, Goes
<1>5. SettingsAgree' /\ LifeIsSound' /\ LiveIsOwned'
  BY <1>0, <1>1, <1>2, <1>3, <1>4, SettingsStay, LifeStays, OwnedStays DEF rows, playback
<1>6. ASSUME NEW d \in Calls \ {c}, IsAt(d, "map") PROVE Code(c)[at[c]] # "map"
  <2>1. d \in Admitted /\ Code(d)[at[d]] \in IdentityStages
    BY <1>6 DEF IsAt, IdentityStages
  <2>2. identity = d
    BY <1>0, <2>1, Holders
  <2> QED
    BY <1>0, <1>1, <2>2, Holders DEF IdentityStages
<1>7. /\ DataTyped' /\ ~conflict'
      /\ Code(c)[at[c]] = "map" => known' = known
      /\ Code(c)[at[c]] = "mappings" => mapping' = mapping /\ (IsAt(c, "map")' => known'[c] = mapping)
      /\ \A d \in Calls \ {c} : known'[d] = known[d]
  <2>1. CASE ReadMappings(c)
    <3>1. known' \in [Calls -> Owners] /\ \A d \in Calls \ {c} : known'[d] = known[d]
      BY <1>0, <2>1 DEF ReadMappings, DataTyped
    <3>2. IsAt(c, "map")' => known'[c] = mapping
      <4>1. Leave(c) => ~IsAt(c, "map")'
        BY <1>0, LeaveStep, Moves DEF IsAt, Admitted
      <4> QED
        BY <1>0, <2>1, <4>1 DEF ReadMappings, DataTyped
    <3>3. Code(c)[at[c]] = "mappings" /\ UNCHANGED <<mapping, conflict>>
      BY <2>1 DEF ReadMappings, IsAt
    <3>4. DataTyped'
      BY <1>0, <1>3, <3>1, <3>3 DEF DataTyped, service, rows, playback
    <3>5. Code(c)[at[c]] # "map" /\ ~conflict' /\ mapping' = mapping
      BY <1>0, <3>3
    <3> QED
      BY <3>1, <3>2, <3>4, <3>5
  <2>2. CASE MapEpisode(c)
    <3>1. known[c] = mapping /\ Code(c)[at[c]] = "map"
      BY <1>0, <2>2 DEF MapEpisode, CallsAreSound, IsAt
    <3>2. conflict' = conflict /\ mapping' \in Owners /\ known' = known
      BY <1>0, <2>2, <3>1 DEF MapEpisode, Owners, DataTyped
    <3>3. DataTyped'
      BY <1>0, <1>3, <3>2 DEF DataTyped, service, rows, playback
    <3> QED
      BY <1>0, <3>1, <3>2, <3>3
  <2> QED
    BY <2>1, <2>2
<1>8. CallsAreSound'
  <2>1. ASSUME NEW d \in Calls \ {c} PROVE (\A s : IsAt(d, s)' <=> IsAt(d, s)) /\ (Past(d)' <=> Past(d))
    BY <1>4, OtherCall
  <2>2. UNCHANGED <<row, seen, session, taken>>
    BY <1>3 DEF rows, playback
  <2>3. taken[c] = None /\ (Past(c) => session = None)
    BY <1>0, <1>1, <1>2 DEF CallsAreSound, IsAt
  <2> SUFFICES ASSUME NEW d \in Calls
               PROVE  /\ IsAt(d, "savePage")' \/ IsAt(d, "saveSpeed")' => seen[d] = row
                      /\ IsAt(d, "proxy")' => row.page = d
                      /\ IsAt(d, "map")' => known'[d] = mapping'
                      /\ IsAt(d, "closeTaken")' \/ Past(d)' => session = None
                      /\ taken[d] # None => IsAt(d, "closeTaken")'
    BY <2>2 DEF CallsAreSound, IsAt, Past
  <2>4. CASE d = c
    BY <1>1, <1>4, <1>7, <2>3, <2>4
  <2>5. CASE d # c
    BY <1>0, <1>1, <1>6, <1>7, <2>1, <2>5 DEF CallsAreSound
  <2> QED
    BY <2>4, <2>5
<1> QED
  BY <1>4, <1>5, <1>7, <1>8 DEF BackendInv

LEMMA RowStages ==
  ASSUME BackendInv, NEW c \in Calls, ReadRow(c) \/ SavePage(c) \/ SetProxy(c) \/ SaveSpeed(c)
  PROVE  BackendInv'
<1>0. /\ CallsTyped /\ LocksAreHeld /\ DataTyped /\ CallsAreSound /\ ~conflict
      /\ SettingsAgree /\ LifeIsSound /\ LiveIsOwned /\ live \subseteq Calls
  BY DEF BackendInv, DataTyped
<1>1. c \in Admitted /\ Code(c)[at[c]] \in SettingsStages /\ (Advance(c) \/ Leave(c))
  BY DEF ReadRow, SavePage, SetProxy, SaveSpeed, IsAt, SettingsStages
<1>2. Code(c)[at[c]] \notin LockStages \cup {"publish", "closeTaken", "mappings", "take", "start", "closeOld"}
  BY <1>1 DEF LockStages, SettingsStages
<1>3. UNCHANGED <<service, mapping, known, conflict, session, live, failed, taken, player>>
  BY DEF ReadRow, SavePage, SetProxy, SaveSpeed, ids, playback
<1>4. /\ CallsTyped' /\ LocksAreHeld' /\ Others(c)
      /\ \A s \in {"savePage", "saveSpeed"} : IsAt(c, s)' => Code(c)[at[c]] = "readRow"
      /\ IsAt(c, "proxy")' => Code(c)[at[c]] = "savePage"
      /\ ~IsAt(c, "map")' /\ ~IsAt(c, "closeTaken")'
      /\ Past(c)' => Past(c)
  BY <1>1, <1>2, Goes
<1>5. LifeIsSound' /\ LiveIsOwned'
  BY <1>0, <1>1, <1>2, <1>3, <1>4, LifeStays, OwnedStays
<1>6. ASSUME NEW d \in Calls \ {c} PROVE Code(d)[at[d]] \notin SettingsStages \/ d \notin Admitted
  <2>1. settings = c
    BY <1>0, <1>1, Holders
  <2> QED
    BY <1>0, <2>1, Holders
<1>7. store = "open" /\ starting = "no"
  BY <1>0, <1>1, WhileAdmitted
<1>8. ASSUME NEW d \in Calls \ {c}
      PROVE  /\ (\A s : IsAt(d, s)' <=> IsAt(d, s)) /\ (Past(d)' <=> Past(d))
             /\ \A s \in SettingsStages : ~IsAt(d, s)
  BY <1>4, <1>6, OtherCall DEF IsAt
\* What the step does to the row and to what the calls have read of it.
<1>9. /\ row' \in Rows /\ saved' \in Rows /\ seen' \in [Calls -> Rows] /\ proxy' \in Savers /\ row' = saved'
      /\ \A s \in {"savePage", "saveSpeed"} : IsAt(c, s)' => seen'[c] = row'
      /\ IsAt(c, "proxy")' => row'.page = c
      /\ ProxyAgrees' \/ IsAt(c, "proxy")'
  <2>0. /\ row \in Rows /\ saved = row /\ seen \in [Calls -> Rows] /\ seen[c] \in Rows /\ proxy \in Savers
        /\ c \in Savers
    BY <1>0 DEF DataTyped, SettingsAgree, ProxyAgrees, Owners, Savers
  <2>1. ~IsAt(c, "proxy") => ProxyAgrees
    BY <1>0, <1>7, <1>8 DEF SettingsAgree, SettingsStages
  <2>2. CASE ReadRow(c)
    <3>1. Code(c)[at[c]] = "readRow" /\ ProxyAgrees /\ ~IsAt(c, "proxy")'
      BY <1>4, <2>1, <2>2 DEF ReadRow, IsAt
    <3>2. row' = row /\ saved' = saved /\ proxy' = proxy /\ seen' \in [Calls -> Rows]
      BY <2>0, <2>2 DEF ReadRow
    <3>3. Leave(c) => ~IsAt(c, "savePage")' /\ ~IsAt(c, "saveSpeed")'
      BY <1>0, LeaveStep, Moves DEF IsAt, Admitted
    <3>4. Leave(c) \/ seen'[c] = row
      BY <2>0, <2>2 DEF ReadRow
    <3> QED
      BY <2>0, <3>1, <3>2, <3>3, <3>4 DEF ProxyAgrees
  <2>3. CASE SavePage(c)
    <3>1. /\ Code(c)[at[c]] = "savePage" /\ IsAt(c, "savePage") /\ ProxyAgrees
          /\ ~IsAt(c, "savePage")' /\ ~IsAt(c, "saveSpeed")' /\ seen[c] = row
      BY <1>0, <1>1, <1>4, <2>1, <2>3 DEF SavePage, IsAt, CallsAreSound
    <3>2. CASE row' = [page |-> c, speed |-> seen[c].speed] /\ saved' = [saved EXCEPT !.page = c] /\ Advance(c)
      <4>1. row' = saved' /\ row' \in Rows /\ row'.page = c
        BY <2>0, <3>1, <3>2 DEF Rows
      <4>2. IsAt(c, "proxy")'
        <5>1. /\ c \in Calls /\ kind[c] # "none" /\ at[c] \in 1..Len(Code(c)) /\ Len(Code(c)) \in Nat
              /\ at[c] < Len(Code(c)) /\ Code(c)[at[c] + 1] = "proxy"
          BY <1>0, <1>1, <3>1, Running DEF WellFormed
        <5>2. kind' = kind /\ at'[c] = at[c] + 1
          BY <1>0, <3>2, <5>1 DEF Advance, GoTo, CallsTyped
        <5> QED
          BY <5>1, <5>2 DEF IsAt, Admitted, Code
      <4> QED
        BY <2>0, <2>3, <3>1, <4>1, <4>2 DEF SavePage
    <3>3. CASE UNCHANGED <<row, saved>> /\ Leave(c)
      <4>1. ~IsAt(c, "proxy")'
        BY <1>0, <3>3, LeaveStep, Moves DEF IsAt, Admitted
      <4> QED
        BY <2>0, <2>3, <3>1, <3>3, <4>1 DEF SavePage, ProxyAgrees
    <3> QED
      BY <2>3, <3>2, <3>3 DEF SavePage
  <2>4. CASE SetProxy(c)
    <3>1. row.page = c /\ proxy' = c /\ row' = row /\ saved' = saved /\ seen' = seen /\ Code(c)[at[c]] = "proxy"
      BY <1>0, <2>4 DEF SetProxy, IsAt, CallsAreSound
    <3> QED
      BY <1>4, <2>0, <3>1 DEF ProxyAgrees
  <2>5. CASE SaveSpeed(c)
    <3>1. /\ Code(c)[at[c]] = "saveSpeed" /\ ProxyAgrees /\ ~IsAt(c, "proxy")'
          /\ ~IsAt(c, "savePage")' /\ ~IsAt(c, "saveSpeed")' /\ seen[c] = row
      BY <1>0, <1>1, <1>4, <2>1, <2>5 DEF SaveSpeed, IsAt, CallsAreSound
    <3>2. proxy' = proxy /\ seen' = seen
      BY <2>5 DEF SaveSpeed
    <3>3. row' \in Rows /\ row' = saved' /\ row'.page = row.page
      <4>1. [row EXCEPT !.speed = c] \in Rows /\ [row EXCEPT !.speed = c].page = row.page
        BY <2>0 DEF Rows
      <4> QED
        BY <2>0, <2>5, <3>1, <4>1 DEF SaveSpeed
    <3> QED
      BY <2>0, <3>1, <3>2, <3>3 DEF ProxyAgrees
  <2> QED
    BY <2>2, <2>3, <2>4, <2>5
<1>10. DataTyped'
  BY <1>0, <1>3, <1>9 DEF DataTyped, service
<1>11. SettingsAgree'
  BY <1>3, <1>7, <1>9 DEF SettingsAgree, ProxyAgrees, service
<1>12. CallsAreSound'
  <2>1. taken[c] = None /\ (Past(c) => session = None)
    BY <1>0, <1>1, <1>2 DEF CallsAreSound, IsAt
  <2> SUFFICES ASSUME NEW d \in Calls
               PROVE  /\ IsAt(d, "savePage")' \/ IsAt(d, "saveSpeed")' => seen'[d] = row'
                      /\ IsAt(d, "proxy")' => row'.page = d
                      /\ IsAt(d, "map")' => known[d] = mapping
                      /\ IsAt(d, "closeTaken")' \/ Past(d)' => session = None
                      /\ taken[d] # None => IsAt(d, "closeTaken")'
    BY <1>3 DEF CallsAreSound, IsAt, Past
  <2>2. CASE d = c
    BY <1>4, <1>9, <2>1, <2>2
  <2>3. CASE d # c
    BY <1>0, <1>8, <2>3 DEF CallsAreSound, SettingsStages
  <2> QED
    BY <2>2, <2>3
<1> QED
  BY <1>0, <1>3, <1>4, <1>5, <1>10, <1>11, <1>12 DEF BackendInv

-----------------------------------------------------------------------------
(* The playback session. Whoever holds the play lock is the only one who   *)
(* can have a session that is not the registered one.                      *)

LEMMA OnePlays ==
  ASSUME BackendInv, NEW c \in Admitted, Code(c)[at[c]] \in PlayStages
  PROVE  /\ \A d \in Calls \ {c} :
              ~Past(d) /\ taken[d] = None /\ \A s \in PlayStages : ~IsAt(d, s)
         /\ \A s \in live : \/ session = s
                            \/ s = c /\ IsAt(c, "publish")
                            \/ s = taken[c] /\ IsAt(c, "closeTaken")
<1>0. /\ CallsTyped /\ LocksAreHeld /\ LifeIsSound /\ CallsAreSound /\ LiveIsOwned /\ live \subseteq Calls
      /\ c \in Calls
  BY Running DEF BackendInv, DataTyped
<1>1. playing = c
  BY <1>0, Holders
<1>2. ASSUME NEW d \in Calls \ {c} PROVE ~Past(d) /\ \A s \in PlayStages : ~IsAt(d, s)
  BY <1>0, <1>1, Holders DEF Past, IsAt
<1>3. \A d \in Calls \ {c} : taken[d] = None
  BY <1>0, <1>2 DEF CallsAreSound, PlayStages
<1>4. taken[Closer] = None
  BY <1>0, WhileAdmitted
<1>5. ASSUME NEW s \in live
      PROVE  session = s \/ (s = c /\ IsAt(c, "publish")) \/ (s = taken[c] /\ IsAt(c, "closeTaken"))
  <2>1. s \in Calls /\ s # None
    BY <1>0, Numbers
  <2>2. CASE session = s
    BY <2>2
  <2>3. CASE IsAt(s, "publish")
    BY <1>2, <2>1, <2>3 DEF PlayStages
  <2>4. CASE \E d \in Calls \cup {Closer} : taken[d] = s
    BY <1>0, <1>3, <1>4, <2>1, <2>4 DEF CallsAreSound
  <2> QED
    BY <1>0, <2>2, <2>3, <2>4 DEF LiveIsOwned
<1> QED
  BY <1>2, <1>3, <1>5

\* What a stage that plays leaves to be shown.
LEMMA PlayStep ==
  ASSUME BackendInv, NEW c \in Admitted, Code(c)[at[c]] \in PlayStages,
         CallsTyped', LocksAreHeld', Others(c), UNCHANGED <<service, rows, ids>>,
         player' \in BOOLEAN, session' \in Owners, live' \subseteq Calls, failed' \subseteq live',
         taken' \in [Calls \cup {Closer} -> Owners],
         \A d \in (Calls \cup {Closer}) \ {c} : taken'[d] = taken[d],
         \A s \in {"savePage", "saveSpeed", "proxy", "map"} : ~IsAt(c, s)',
         IsAt(c, "closeTaken")' \/ Past(c)' => session' = None,
         taken'[c] # None => IsAt(c, "closeTaken")',
         LiveIsOwned'
  PROVE  BackendInv'
<1>0. /\ CallsTyped /\ LocksAreHeld /\ DataTyped /\ CallsAreSound /\ ~conflict
      /\ SettingsAgree /\ LifeIsSound /\ c \in Calls /\ Closer # c
  BY Numbers, Running DEF BackendInv
<1>1. Code(c)[at[c]] # "proxy"
  BY DEF PlayStages
<1>2. SettingsAgree' /\ LifeIsSound'
  BY <1>0, <1>1, SettingsStay, LifeStays DEF rows
<1>3. DataTyped'
  BY <1>0 DEF DataTyped, service, rows, ids
<1>4. CallsAreSound'
  <2>1. UNCHANGED <<seen, row, known, mapping>>
    BY DEF rows, ids
  <2> SUFFICES ASSUME NEW d \in Calls
               PROVE  /\ IsAt(d, "savePage")' \/ IsAt(d, "saveSpeed")' => seen[d] = row
                      /\ IsAt(d, "proxy")' => row.page = d
                      /\ IsAt(d, "map")' => known[d] = mapping
                      /\ IsAt(d, "closeTaken")' \/ Past(d)' => session' = None
                      /\ taken'[d] # None => IsAt(d, "closeTaken")'
    BY <2>1 DEF CallsAreSound, IsAt, Past
  <2>2. CASE d = c
    BY <2>2
  <2>3. CASE d # c
    <3>1. (\A s : IsAt(d, s)' <=> IsAt(d, s)) /\ (Past(d)' <=> Past(d))
      BY <2>3, OtherCall
    <3>2. ~Past(d) /\ taken'[d] = None /\ ~IsAt(d, "closeTaken")
      BY <2>3, OnePlays DEF PlayStages
    <3> QED
      BY <1>0, <3>1, <3>2 DEF CallsAreSound
  <2> QED
    BY <2>2, <2>3
<1> QED
  BY <1>0, <1>2, <1>3, <1>4 DEF BackendInv, ids

LEMMA Stays ==
  ASSUME BackendInv, NEW c \in Admitted, Code(c)[at[c]] \in PlayStages, Advance(c) \/ Leave(c)
  PROVE  /\ CallsTyped' /\ LocksAreHeld' /\ Others(c)
         /\ \A s \in {"savePage", "saveSpeed", "proxy", "map"} : ~IsAt(c, s)'
         /\ IsAt(c, "closeTaken")' => Code(c)[at[c]] = "take"
         /\ Past(c)' => Past(c) \/ Code(c)[at[c]] = "closeOld"
         /\ Leave(c) => ~Past(c)' /\ \A s : ~IsAt(c, s)'
<1>1. /\ CallsTyped' /\ LocksAreHeld' /\ Others(c)
      /\ \A s \in {"savePage", "saveSpeed", "proxy", "map"} : ~IsAt(c, s)'
      /\ IsAt(c, "closeTaken")' => Code(c)[at[c]] = "take"
      /\ Past(c)' => Past(c) \/ Code(c)[at[c]] = "closeOld"
  BY Goes DEF LockStages, PlayStages
<1>2. Leave(c) => ~Past(c)' /\ \A s : ~IsAt(c, s)'
  BY LeaveStep, Running, Moves DEF BackendInv, IsAt, Past, Admitted
<1> QED
  BY <1>1, <1>2

LEMMA CloseOldStage ==
  ASSUME BackendInv, NEW c \in Calls, CloseOld(c)
  PROVE  BackendInv'
<1>0. DataTyped /\ CallsAreSound
  BY DEF BackendInv
<1>1. c \in Admitted /\ Code(c)[at[c]] = "closeOld" /\ (Advance(c) \/ Leave(c)) /\ Code(c)[at[c]] \in PlayStages
  BY DEF CloseOld, IsAt, PlayStages
<1>2. /\ CallsTyped' /\ LocksAreHeld' /\ Others(c) /\ ~IsAt(c, "closeTaken")'
      /\ \A s \in {"savePage", "saveSpeed", "proxy", "map"} : ~IsAt(c, s)'
      /\ Leave(c) => ~Past(c)'
  BY <1>1, Stays
<1>3. taken[c] = None /\ live' = {} /\ failed' = {}
  BY <1>0, <1>1, OnePlays DEF CallsAreSound, IsAt, CloseOld, DataTyped
<1>4. /\ session' \in Owners /\ player' \in BOOLEAN /\ taken' = taken /\ UNCHANGED <<service, rows, ids>>
      /\ Past(c)' => session' = None
  BY <1>0, <1>2 DEF CloseOld, DataTyped, Owners
<1>5. LiveIsOwned'
  BY <1>3 DEF LiveIsOwned
<1> QED
  BY <1>0, <1>1, <1>2, <1>3, <1>4, <1>5, PlayStep DEF DataTyped

LEMMA StartStage ==
  ASSUME BackendInv, NEW c \in Calls, StartSession(c)
  PROVE  BackendInv'
<1>0. DataTyped /\ CallsAreSound /\ CallsTyped
  BY DEF BackendInv
<1>1. c \in Admitted /\ Code(c)[at[c]] = "start" /\ (Advance(c) \/ Leave(c)) /\ Code(c)[at[c]] \in PlayStages
  BY DEF StartSession, IsAt, PlayStages
<1>2. /\ CallsTyped' /\ LocksAreHeld' /\ Others(c) /\ ~IsAt(c, "closeTaken")'
      /\ \A s \in {"savePage", "saveSpeed", "proxy", "map"} : ~IsAt(c, s)'
  BY <1>1, Stays
<1>3. /\ kind[c] # "none" /\ at[c] \in 1..Len(Code(c)) /\ Len(Code(c)) \in Nat
      /\ at[c] < Len(Code(c)) /\ Code(c)[at[c] + 1] = "publish" /\ Past(c)
  BY <1>0, <1>1, Running DEF WellFormed, Past
<1>4. taken[c] = None /\ session = None /\ live = {} /\ failed = {}
  BY <1>0, <1>1, <1>3, OnePlays, Numbers DEF CallsAreSound, IsAt, DataTyped
<1>5. UNCHANGED <<service, rows, ids, player, session, failed, taken>>
  BY DEF StartSession
<1>6. live' \subseteq {c} /\ (c \in live' => IsAt(c, "publish")')
  <2>1. CASE Advance(c) /\ live' = live \cup {c}
    <3>1. kind' = kind /\ at'[c] = at[c] + 1
      BY <1>0, <1>3, <2>1 DEF Advance, GoTo, CallsTyped
    <3> QED
      BY <1>3, <1>4, <2>1, <3>1 DEF IsAt, Admitted, Code
  <2>2. CASE live' = live
    BY <1>4, <2>2
  <2> QED
    BY <2>1, <2>2 DEF StartSession
<1>7. LiveIsOwned'
  <2>1. \A s \in live' : IsAt(s, "publish")'
    BY <1>6
  <2> QED
    BY <2>1 DEF LiveIsOwned, IsAt
<1> QED
  BY <1>0, <1>1, <1>2, <1>4, <1>5, <1>6, <1>7, PlayStep DEF DataTyped

LEMMA PublishStage ==
  ASSUME BackendInv, NEW c \in Calls, Publish(c)
  PROVE  BackendInv'
<1>0. DataTyped /\ CallsAreSound /\ CallsTyped
  BY DEF BackendInv
<1>1. c \in Admitted /\ Code(c)[at[c]] = "publish" /\ Leave(c) /\ Code(c)[at[c]] \in PlayStages
  BY DEF Publish, IsAt, PlayStages
<1>2. /\ CallsTyped' /\ LocksAreHeld' /\ Others(c) /\ ~Past(c)' /\ \A s : ~IsAt(c, s)'
  BY <1>1, Stays
<1>3. Past(c)
  BY <1>0, <1>1, Running DEF WellFormed, Past
<1>4. taken[c] = None /\ session = None /\ live \subseteq {c} /\ failed \subseteq live
  BY <1>0, <1>1, <1>3, OnePlays, Numbers DEF CallsAreSound, IsAt, DataTyped
<1>5. /\ session' = c /\ live' = live \ {session} /\ failed' = failed \ {session}
      /\ UNCHANGED <<service, rows, ids, player, taken>>
  BY DEF Publish
<1>6. LiveIsOwned'
  BY <1>4, <1>5 DEF LiveIsOwned
<1>7. session' \in Owners /\ live' \subseteq Calls /\ failed' \subseteq live'
  BY <1>4, <1>5 DEF Owners
<1> QED
  BY <1>0, <1>1, <1>2, <1>4, <1>5, <1>6, <1>7, PlayStep DEF DataTyped

LEMMA TakeStage ==
  ASSUME BackendInv, NEW c \in Calls, TakeSession(c)
  PROVE  BackendInv'
<1>0. DataTyped /\ CallsAreSound /\ CallsTyped
  BY DEF BackendInv
<1>1. c \in Admitted /\ Code(c)[at[c]] = "take" /\ (Advance(c) \/ Leave(c)) /\ Code(c)[at[c]] \in PlayStages
  BY DEF TakeSession, IsAt, PlayStages
<1>2. /\ CallsTyped' /\ LocksAreHeld' /\ Others(c)
      /\ \A s \in {"savePage", "saveSpeed", "proxy", "map"} : ~IsAt(c, s)'
  BY <1>1, Stays
<1>3. /\ kind[c] # "none" /\ at[c] \in 1..Len(Code(c)) /\ Len(Code(c)) \in Nat
      /\ at[c] < Len(Code(c)) /\ Code(c)[at[c] + 1] = "closeTaken"
  BY <1>0, <1>1, Running DEF WellFormed
<1>4. live \subseteq {session} /\ failed \subseteq live /\ session \in Owners
  BY <1>0, <1>1, OnePlays DEF CallsAreSound, IsAt, DataTyped
<1>5. /\ taken' = [taken EXCEPT ![c] = session] /\ session' = None
      /\ UNCHANGED <<service, rows, ids, player, live, failed>>
  BY DEF TakeSession
<1>6. /\ taken' \in [Calls \cup {Closer} -> Owners] /\ taken'[c] = session
      /\ \A d \in (Calls \cup {Closer}) \ {c} : taken'[d] = taken[d]
  BY <1>0, <1>4, <1>5 DEF DataTyped
<1>7. taken'[c] # None => IsAt(c, "closeTaken")'
  <2> SUFFICES ASSUME session # None PROVE IsAt(c, "closeTaken")'
    BY <1>6
  <2>1. Advance(c)
    BY DEF TakeSession
  <2>2. kind' = kind /\ at'[c] = at[c] + 1
    BY <1>0, <1>3, <2>1 DEF Advance, GoTo, CallsTyped
  <2> QED
    BY <1>3, <2>2 DEF IsAt, Admitted, Code
<1>8. LiveIsOwned'
  BY <1>4, <1>5, <1>6 DEF LiveIsOwned
<1>9. session' \in Owners /\ live' \subseteq Calls /\ failed' \subseteq live' /\ player' \in BOOLEAN
  BY <1>0, <1>5 DEF Owners, DataTyped
<1> QED
  BY <1>1, <1>2, <1>5, <1>6, <1>7, <1>8, <1>9, PlayStep

LEMMA CloseTakenStage ==
  ASSUME BackendInv, NEW c \in Calls, CloseTaken(c)
  PROVE  BackendInv'
<1>0. DataTyped /\ CallsAreSound /\ CallsTyped
  BY DEF BackendInv
<1>1. c \in Admitted /\ Code(c)[at[c]] = "closeTaken" /\ Advance(c) /\ Code(c)[at[c]] \in PlayStages
  BY DEF CloseTaken, IsAt, PlayStages
<1>2. /\ CallsTyped' /\ LocksAreHeld' /\ Others(c) /\ ~IsAt(c, "closeTaken")'
      /\ \A s \in {"savePage", "saveSpeed", "proxy", "map"} : ~IsAt(c, s)'
  BY <1>1, Stays
<1>3. session = None /\ live \subseteq {taken[c]} /\ failed \subseteq live
  BY <1>0, <1>1, OnePlays, Numbers DEF CallsAreSound, IsAt, DataTyped
<1>4. /\ live' = {} /\ failed' = {} /\ taken' = [taken EXCEPT ![c] = None]
      /\ UNCHANGED <<service, rows, ids, player, session>>
  BY <1>3 DEF CloseTaken
<1>5. /\ taken' \in [Calls \cup {Closer} -> Owners] /\ taken'[c] = None
      /\ \A d \in (Calls \cup {Closer}) \ {c} : taken'[d] = taken[d]
  BY <1>0, <1>4 DEF DataTyped, Owners
<1>6. LiveIsOwned'
  BY <1>4 DEF LiveIsOwned
<1>7. session' \in Owners /\ player' \in BOOLEAN
  BY <1>0, <1>4 DEF DataTyped
<1> QED
  BY <1>1, <1>2, <1>3, <1>4, <1>5, <1>6, <1>7, PlayStep

-----------------------------------------------------------------------------
(* Admission, start and close.                                             *)

LEMMA BeginStep ==
  ASSUME BackendInv, NEW c \in Calls, Begin(c)
  PROVE  BackendInv'
<1>0. /\ CallsTyped /\ LocksAreHeld /\ DataTyped /\ CallsAreSound /\ ~conflict
      /\ SettingsAgree /\ LifeIsSound /\ LiveIsOwned /\ live \subseteq Calls
  BY DEF BackendInv, DataTyped
<1>1. kind[c] = "none"
  BY <1>0 DEF Begin, CallsTyped
<1>2. /\ UNCHANGED <<closed, cancelled, starting, closing, store, identity, settings, playing>>
      /\ UNCHANGED <<row, seen, proxy, saved, mapping, known, conflict>>
      /\ UNCHANGED <<player, session, live, failed, taken>>
  BY DEF Begin, service, locks, rows, ids, playback
<1>3. at' = [at EXCEPT ![c] = 1] /\ at'[c] = 1 /\ at' \in [Calls -> Nat]
  BY <1>0 DEF Begin, CallsTyped
<1>4. /\ Others(c) /\ kind' \in [Calls -> Kinds \cup {"none"}]
      /\ kind'[c] # "none" => kind'[c] \in Kinds /\ store = "open" /\ ~closed
  <2>1. CASE UNCHANGED kind
    BY <1>0, <1>1, <1>3, <2>1 DEF CallsTyped, Others
  <2>2. CASE Admits /\ \E k \in Kinds : kind' = [kind EXCEPT ![c] = k]
    BY <1>0, <1>3, <2>2 DEF CallsTyped, Others, Admits
  <2> QED
    BY <2>1, <2>2 DEF Begin
\* At its first stage a call holds nothing and relies on nothing.
<1>5. ASSUME kind'[c] # "none"
      PROVE  /\ 1 \in 1..Len(Program[kind'[c]]) /\ Program[kind'[c]][1] \notin Relying
             /\ ~Held(Program[kind'[c]], 1) /\ \A s : ~Passed(Program[kind'[c]], 1, s)
  <2>1. WellFormed(Program[kind'[c]])
    BY <1>4, <1>5, ProgramsAreWellFormed, BackendAssumption
  <2>2. ~Held(Program[kind'[c]], 1) /\ \A s : ~Passed(Program[kind'[c]], 1, s)
    BY FirstStage
  <2> QED
    BY <2>1, <2>2 DEF WellFormed, Relying, IdentityStages, SettingsStages, PlayStages
<1>6. CallsTyped'
  <2>1. ASSUME NEW d \in Calls
        PROVE  /\ kind'[d] = "none" => at'[d] <= 1
               /\ kind'[d] # "none" => at'[d] \in 1..Len(Program[kind'[d]])
    <3>1. CASE d = c
      BY <1>3, <1>5, <3>1
    <3>2. CASE d # c
      BY <1>0, <1>4, <3>2 DEF CallsTyped, Others
    <3> QED
      BY <3>1, <3>2
  <2> QED
    BY <1>0, <1>2, <1>3, <1>4, <2>1 DEF CallsTyped
<1>7. LocksAreHeld'
  <2> SUFFICES ASSUME NEW d \in Calls
               PROVE  /\ identity = d <=> d \in Admitted' /\ Held(Program[kind'[d]], at'[d])
                      /\ settings = d <=> d \in Admitted' /\ Passed(Program[kind'[d]], at'[d], "settings")
                      /\ playing = d <=> d \in Admitted' /\ Passed(Program[kind'[d]], at'[d], "play")
    BY <1>2 DEF LocksAreHeld, Code
  <2>1. CASE d = c
    BY <1>0, <1>1, <1>3, <1>5, <2>1 DEF LocksAreHeld, Admitted
  <2>2. CASE d # c
    BY <1>0, <1>4, <2>2 DEF LocksAreHeld, Others, Admitted, Code
  <2> QED
    BY <2>1, <2>2
<1>8. /\ \A s \in Relying : ~IsAt(c, s)' /\ ~IsAt(c, s)
      /\ ~Past(c)'
  BY <1>1, <1>3, <1>5 DEF IsAt, Past, Admitted, Code
<1>9. ASSUME NEW d \in Calls \ {c} PROVE (\A s : IsAt(d, s)' <=> IsAt(d, s)) /\ (Past(d)' <=> Past(d))
  BY <1>4, OtherCall
<1>10. CallsAreSound'
  <2> SUFFICES ASSUME NEW d \in Calls
               PROVE  /\ IsAt(d, "savePage")' \/ IsAt(d, "saveSpeed")' => seen[d] = row
                      /\ IsAt(d, "proxy")' => row.page = d
                      /\ IsAt(d, "map")' => known[d] = mapping
                      /\ IsAt(d, "closeTaken")' \/ Past(d)' => session = None
                      /\ taken[d] # None => IsAt(d, "closeTaken")'
    BY <1>2 DEF CallsAreSound, IsAt, Past
  <2>1. CASE d = c
    BY <1>0, <1>8, <2>1 DEF CallsAreSound, Relying
  <2>2. CASE d # c
    BY <1>0, <1>9, <2>2 DEF CallsAreSound
  <2> QED
    BY <2>1, <2>2
<1>11. ASSUME NEW d \in Calls PROVE IsAt(d, "proxy")' <=> IsAt(d, "proxy")
  BY <1>8, <1>9 DEF Relying
<1>12. ASSUME NEW d \in Calls PROVE IsAt(d, "publish")' <=> IsAt(d, "publish")
  BY <1>8, <1>9 DEF Relying
<1>13. SettingsAgree'
  BY <1>0, <1>2, <1>11 DEF SettingsAgree, ProxyAgrees
<1>14. LiveIsOwned'
  BY <1>0, <1>2, <1>12 DEF LiveIsOwned
<1>15. LifeIsSound'
  <2>1. CASE kind'[c] = "none"
    <3>1. Admitted' = Admitted
      BY <1>1, <1>4, <2>1 DEF Admitted, Others
    <3> QED
      BY <1>0, <1>2, <3>1 DEF LifeIsSound
  <2>2. CASE kind'[c] # "none"
    <3>1. store = "open" /\ closing = "no"
      BY <1>0, <1>4, <2>2 DEF LifeIsSound
    <3> QED
      BY <1>0, <1>2, <3>1 DEF LifeIsSound
  <2> QED
    BY <2>1, <2>2
<1>16. DataTyped'
  BY <1>0, <1>2 DEF DataTyped
<1> QED
  BY <1>0, <1>2, <1>6, <1>7, <1>10, <1>13, <1>14, <1>15, <1>16 DEF BackendInv

\* A step of none of the calls.
LEMMA CallsRest ==
  ASSUME BackendInv, UNCHANGED <<kind, at, locks>>
  PROVE  /\ CallsTyped' /\ LocksAreHeld' /\ Admitted' = Admitted
         /\ \A c \in Calls : (\A s : IsAt(c, s)' <=> IsAt(c, s)) /\ (Past(c)' <=> Past(c))
<1>1. UNCHANGED <<kind, at, identity, settings, playing>>
  BY DEF locks
<1>2. CallsTyped'
  BY <1>1 DEF BackendInv, CallsTyped
<1>3. LocksAreHeld'
  BY <1>1 DEF BackendInv, LocksAreHeld, Admitted, Code
<1> QED
  BY <1>1, <1>2, <1>3 DEF IsAt, Past, Admitted, Code

LEMMA OtherSteps ==
  ASSUME BackendInv,
         \/ \E c \in Calls : PlayerFails(c)
         \/ StartBegin \/ StartOpen \/ StartAdopt \/ ContextEnds \/ CloseBegin \/ CloseLock
  PROVE  BackendInv'
<1>0. /\ CallsTyped /\ LocksAreHeld /\ DataTyped /\ CallsAreSound /\ ~conflict
      /\ SettingsAgree /\ LifeIsSound /\ LiveIsOwned /\ live \subseteq Calls
  BY DEF BackendInv, DataTyped
<1>1. /\ UNCHANGED <<kind, at, locks, row, seen, saved, mapping, known, conflict>>
      /\ UNCHANGED <<player, session, live, taken>>
  BY DEF PlayerFails, StartBegin, StartOpen, StartAdopt, ContextEnds, CloseBegin, CloseLock,
         rows, ids, playback
<1>2. /\ CallsTyped' /\ LocksAreHeld' /\ Admitted' = Admitted
      /\ \A c \in Calls : (\A s : IsAt(c, s)' <=> IsAt(c, s)) /\ (Past(c)' <=> Past(c))
  BY <1>1, CallsRest
<1>3. CallsAreSound'
  <2> SUFFICES ASSUME NEW d \in Calls
               PROVE  /\ IsAt(d, "savePage")' \/ IsAt(d, "saveSpeed")' => seen[d] = row
                      /\ IsAt(d, "proxy")' => row.page = d
                      /\ IsAt(d, "map")' => known[d] = mapping
                      /\ IsAt(d, "closeTaken")' \/ Past(d)' => session = None
                      /\ taken[d] # None => IsAt(d, "closeTaken")'
    BY <1>1 DEF CallsAreSound, IsAt, Past
  <2> QED
    BY <1>0, <1>2 DEF CallsAreSound
<1>4. LiveIsOwned'
  BY <1>0, <1>1, <1>2 DEF LiveIsOwned
<1>5. DataTyped' /\ SettingsAgree' /\ LifeIsSound'
  <2>1. CASE \E c \in Calls : PlayerFails(c)
    <3>1. failed' \subseteq live /\ UNCHANGED <<closed, cancelled, starting, closing, store, proxy>>
      BY <1>0, <2>1 DEF PlayerFails, DataTyped, service, rows
    <3> QED
      BY <1>0, <1>1, <1>2, <3>1 DEF DataTyped, SettingsAgree, ProxyAgrees, LifeIsSound
  <2>2. CASE StartBegin
    BY <1>0, <1>1, <1>2, <2>2 DEF StartBegin, StartupFree, DataTyped, SettingsAgree, ProxyAgrees, LifeIsSound, rows, playback
  <2>3. CASE StartOpen
    <3>1. proxy' \in Savers /\ starting' \in {"no", "opening", "opened"} /\ store = "none"
      BY <1>0, <2>3 DEF StartOpen, DataTyped, LifeIsSound, Rows, Savers, Owners, Off
    <3>2. starting' = "opened" => ProxyAgrees'
      BY <1>0, <1>1, <2>3, <3>1 DEF StartOpen, ProxyAgrees, SettingsAgree
    <3> QED
      BY <1>0, <1>1, <1>2, <2>3, <3>1, <3>2 DEF StartOpen, DataTyped, SettingsAgree, LifeIsSound, playback
  <2>4. CASE StartAdopt
    BY <1>0, <1>1, <1>2, <2>4 DEF StartAdopt, DataTyped, SettingsAgree, ProxyAgrees, LifeIsSound, rows, playback
  <2>5. CASE ContextEnds
    BY <1>0, <1>1, <1>2, <2>5 DEF ContextEnds, DataTyped, SettingsAgree, ProxyAgrees, LifeIsSound, rows, playback
  <2>6. CASE CloseBegin
    BY <1>0, <1>1, <1>2, <2>6 DEF CloseBegin, DataTyped, SettingsAgree, ProxyAgrees, LifeIsSound, rows, playback
  <2>7. CASE CloseLock
    BY <1>0, <1>1, <1>2, <2>7 DEF CloseLock, StartupFree, DataTyped, SettingsAgree, ProxyAgrees, LifeIsSound, rows, playback
  <2> QED
    BY <2>1, <2>2, <2>3, <2>4, <2>5, <2>6, <2>7
<1> QED
  BY <1>0, <1>1, <1>2, <1>3, <1>4, <1>5 DEF BackendInv

LEMMA CloseSteps ==
  ASSUME BackendInv, CloseWait \/ CloseSession \/ CloseStore
  PROVE  BackendInv'
<1>0. /\ CallsTyped /\ LocksAreHeld /\ DataTyped /\ CallsAreSound /\ ~conflict
      /\ SettingsAgree /\ LifeIsSound /\ LiveIsOwned /\ live \subseteq Calls
  BY DEF BackendInv, DataTyped
<1>1. /\ UNCHANGED <<kind, at, locks, row, seen, saved, proxy, mapping, known, conflict>>
      /\ UNCHANGED <<player, closed, cancelled, starting>>
  BY DEF CloseWait, CloseSession, CloseStore, rows, ids, playback
<1>2. /\ CallsTyped' /\ LocksAreHeld' /\ Admitted' = Admitted
      /\ \A c \in Calls : (\A s : IsAt(c, s)' <=> IsAt(c, s)) /\ (Past(c)' <=> Past(c))
  BY <1>1, CallsRest
<1>3. Admitted = {} /\ \A c \in Calls : (\A s : ~IsAt(c, s)) /\ ~Past(c) /\ taken[c] = None
  <2>1. Admitted = {}
    BY <1>0 DEF CloseWait, CloseSession, CloseStore, LifeIsSound
  <2> QED
    BY <1>0, <2>1 DEF CallsAreSound, IsAt, Past
\* What lives is the registered session, or the one close has taken.
<1>4. \A s \in live : s = session \/ s = taken[Closer]
  BY <1>0, <1>3, Numbers DEF LiveIsOwned
<1>5. /\ DataTyped' /\ LifeIsSound' /\ LiveIsOwned' /\ (store' \in {"none", "open"} => store' = store)
      /\ \A c \in Calls : taken'[c] = None
  <2>1. CASE CloseWait
    <3>1. /\ taken' \in [Calls \cup {Closer} -> Owners] /\ taken'[Closer] = session
          /\ \A c \in Calls : taken'[c] = None
      BY <1>0, <1>3, <2>1, Numbers DEF CloseWait, DataTyped
    <3>2. taken[Closer] = None /\ session' = None /\ live' = live /\ closing' = "session" /\ closing = "waiting"
      BY <1>0, <2>1 DEF CloseWait, LifeIsSound
    <3>3. LiveIsOwned'
      BY <1>0, <1>4, <3>1, <3>2, Numbers DEF LiveIsOwned
    <3>4. UNCHANGED <<store, failed>> /\ session' \in Owners
      BY <2>1 DEF CloseWait, Owners
    <3>5. LifeIsSound'
      BY <1>0, <1>1, <1>2, <1>3, <3>2, <3>4 DEF LifeIsSound
    <3>6. DataTyped'
      BY <1>0, <1>1, <3>1, <3>2, <3>4 DEF DataTyped
    <3> QED
      BY <3>1, <3>3, <3>4, <3>5, <3>6
  <2>2. CASE CloseSession
    <3>1. /\ taken' \in [Calls \cup {Closer} -> Owners] /\ taken'[Closer] = None
          /\ \A c \in Calls : taken'[c] = None
      BY <1>0, <1>3, <2>2, Numbers DEF CloseSession, DataTyped, Owners
    <3>2. session = None /\ session' = None /\ closing' = "store" /\ closing = "session" /\ store' = store
      BY <1>0, <2>2 DEF CloseSession, LifeIsSound
    <3>3. live' = {} /\ failed' = {}
      <4>1. live \subseteq {taken[Closer]} /\ failed \subseteq live
        BY <1>0, <1>4, <3>2, Numbers DEF DataTyped
      <4> QED
        BY <2>2, <4>1 DEF CloseSession
    <3>4. LifeIsSound'
      BY <1>0, <1>1, <1>2, <1>3, <3>1, <3>2, <3>3 DEF LifeIsSound
    <3>5. DataTyped'
      BY <1>0, <1>1, <3>1, <3>2, <3>3 DEF DataTyped, Owners
    <3> QED
      BY <3>1, <3>2, <3>3, <3>4, <3>5 DEF LiveIsOwned
  <2>3. CASE CloseStore
    <3>1. UNCHANGED <<session, live, failed, taken>> /\ closing' = "done" /\ closing = "store" /\ store' \in {"none", "closed"}
      BY <1>0, <2>3 DEF CloseStore, playback, DataTyped
    <3>2. session = None /\ taken[Closer] = None
      BY <1>0, <3>1 DEF LifeIsSound
    <3>3. live = {}
      BY <1>0, <1>4, <3>2, Numbers
    <3>4. LifeIsSound' /\ LiveIsOwned'
      BY <1>0, <1>1, <1>2, <1>3, <3>1, <3>2, <3>3 DEF LifeIsSound, LiveIsOwned
    <3>5. DataTyped'
      BY <1>0, <1>1, <3>1 DEF DataTyped
    <3>6. store' # "closed" => store' = store
      BY <2>3 DEF CloseStore
    <3> QED
      BY <1>3, <3>1, <3>4, <3>5, <3>6
  <2> QED
    BY <2>1, <2>2, <2>3
<1>6. CallsAreSound'
  BY <1>2, <1>3, <1>5 DEF CallsAreSound
<1>7. SettingsAgree'
  BY <1>0, <1>1, <1>3, <1>5 DEF SettingsAgree, ProxyAgrees
<1> QED
  BY <1>0, <1>1, <1>2, <1>5, <1>6, <1>7 DEF BackendInv

LEMMA BackendStep == BackendInv /\ [Next]_vars => BackendInv'
<1> SUFFICES ASSUME BackendInv, [Next]_vars PROVE BackendInv'
  OBVIOUS
<1>1. ASSUME NEW c \in Calls, Stage(c) PROVE BackendInv'
  BY <1>1, QuietStages, SwitchStage, LockActions, MappingStages, RowStages,
     CloseOldStage, StartStage, PublishStage, TakeStage, CloseTakenStage DEF Stage
<1>2. CASE UNCHANGED vars
  <2>1. /\ UNCHANGED <<kind, at, locks, service, rows, ids, playback>>
        /\ UNCHANGED <<closed, cancelled, starting, closing, store, row, seen, proxy, saved>>
        /\ UNCHANGED <<mapping, known, conflict, player, session, live, failed, taken>>
    BY <1>2 DEF vars, service, rows, ids, playback
  <2>2. /\ CallsTyped' /\ LocksAreHeld' /\ Admitted' = Admitted
        /\ \A c \in Calls : (\A s : IsAt(c, s)' <=> IsAt(c, s)) /\ (Past(c)' <=> Past(c))
    BY <2>1, CallsRest
  <2>3. /\ DataTyped /\ CallsAreSound /\ SettingsAgree /\ ~conflict /\ LifeIsSound /\ LiveIsOwned
        /\ live \subseteq Calls
    BY DEF BackendInv, DataTyped
  <2>4. DataTyped' /\ SettingsAgree' /\ LifeIsSound'
    BY <2>1, <2>2, <2>3 DEF DataTyped, SettingsAgree, ProxyAgrees, LifeIsSound
  <2>5. CallsAreSound' /\ LiveIsOwned'
    BY <2>1, <2>2, <2>3 DEF CallsAreSound, LiveIsOwned
  <2> QED
    BY <2>1, <2>2, <2>3, <2>4, <2>5 DEF BackendInv
<1>3. ASSUME NEW c \in Calls, PlayerFails(c) PROVE BackendInv'
  BY <1>3, OtherSteps
<1>4. CASE StartBegin \/ StartOpen \/ StartAdopt \/ ContextEnds \/ CloseBegin \/ CloseLock
  BY <1>4, OtherSteps
<1>5. CASE CloseWait \/ CloseSession \/ CloseStore
  BY <1>5, CloseSteps
<1>6. ASSUME NEW c \in Calls, Begin(c) PROVE BackendInv'
  BY <1>6, BeginStep
<1> QED
  BY <1>1, <1>2, <1>3, <1>4, <1>5, <1>6 DEF Next, Closing

LEMMA BackendStart == Init => BackendInv
<1> SUFFICES ASSUME Init PROVE BackendInv
  OBVIOUS
<1>1. /\ kind = [c \in Calls |-> "none"] /\ at = [c \in Calls |-> 0] /\ Admitted = {}
      /\ \A c \in Calls : kind[c] = "none" /\ at[c] = 0 /\ (\A s : ~IsAt(c, s)) /\ ~Past(c)
  BY DEF Init, Admitted, IsAt, Past
<1>2. None \in Owners /\ row \in Rows /\ seen \in [Calls -> Rows] /\ known \in [Calls -> Owners]
  BY DEF Init, Owners, Savers, Rows
<1>3. taken \in [Calls \cup {Closer} -> Owners] /\ \A c \in Calls \cup {Closer} : taken[c] = None
  BY <1>2 DEF Init, NoSession
<1>4. CallsTyped
  <2>1. kind \in [Calls -> Kinds \cup {"none"}] /\ at \in [Calls -> Nat]
    BY <1>1
  <2> QED
    BY <1>1, <1>2, <2>1 DEF Init, CallsTyped
<1>5. DataTyped
  BY <1>2, <1>3 DEF Init, DataTyped, Savers, Off
<1>6. LocksAreHeld
  BY <1>1, Numbers DEF Init, LocksAreHeld
<1>7. CallsAreSound
  BY <1>1, <1>3 DEF CallsAreSound
<1>8. SettingsAgree /\ ~conflict /\ LifeIsSound /\ LiveIsOwned
  BY <1>1, <1>3 DEF Init, SettingsAgree, ProxyAgrees, LifeIsSound, LiveIsOwned
<1> QED
  BY <1>4, <1>5, <1>6, <1>7, <1>8 DEF BackendInv

-----------------------------------------------------------------------------
(* What the service promises.                                              *)

\* The store is open as long as an operation or a session may use it: Start,
\* the operations, a failing player and Close in any order.
THEOREM StoreStaysOpen == Spec => []StoreOutlivesUse
<1>1. BackendInv => StoreOutlivesUse
  <2> SUFFICES ASSUME BackendInv PROVE StoreOutlivesUse
    OBVIOUS
  <2>1. \A c \in Calls : at[c] \in 0..(IF kind[c] = "none" THEN 1 ELSE Len(Code(c)))
    BY DEF BackendInv, CallsTyped, Code
  <2>2. TypeOK
    BY <2>1 DEF BackendInv, CallsTyped, DataTyped, TypeOK, Rows
  <2> QED
    BY <2>2 DEF BackendInv, LifeIsSound, StoreOutlivesUse
<1> QED
  BY <1>1, BackendStart, BackendStep, PTL DEF Spec

\* There is at most one playback session that lives, and it always has an
\* owner that will close it: the service, or the call or Close at work on it.
THEOREM OnePlayback == Spec => []OneOwnedSession
<1>1. BackendInv => OneOwnedSession
  <2> SUFFICES ASSUME BackendInv PROVE OneOwnedSession
    OBVIOUS
  <2>0. /\ CallsTyped /\ LocksAreHeld /\ CallsAreSound /\ LifeIsSound /\ LiveIsOwned /\ live \subseteq Calls
    BY DEF BackendInv, DataTyped
  <2>1. ASSUME NEW c \in Calls \cup {Closer}, taken[c] # None
        PROVE  /\ session = None
               /\ \A d \in Calls : ~IsAt(d, "publish")
               /\ \A d \in Calls \cup {Closer} : taken[d] # None => d = c
    <3>1. CASE c = Closer
      <4>1. Admitted = {} /\ session = None
        BY <2>0, <2>1, <3>1 DEF LifeIsSound
      <4> QED
        BY <2>0, <3>1, <4>1 DEF IsAt, CallsAreSound
    <3>2. CASE c \in Calls
      <4>1. IsAt(c, "closeTaken") /\ session = None /\ taken[Closer] = None
        BY <2>0, <2>1, <3>2, WhileAdmitted DEF CallsAreSound, IsAt
      <4>2. \A d \in Calls \ {c} : taken[d] = None /\ ~IsAt(d, "publish")
        BY <4>1, OnePlays DEF IsAt, PlayStages
      <4> QED
        BY <4>1, <4>2 DEF IsAt
    <3> QED
      BY <3>1, <3>2
  <2>2. ASSUME NEW c \in Calls, IsAt(c, "publish")
        PROVE  session = None /\ \A d \in Calls : IsAt(d, "publish") => d = c
    <3>1. Past(c) /\ Code(c)[at[c]] \in PlayStages
      BY <2>0, <2>2, Running DEF IsAt, WellFormed, Past, PlayStages
    <3> QED
      BY <2>0, <2>2, <3>1, OnePlays DEF IsAt, CallsAreSound, PlayStages
  <2>3. ASSUME NEW s \in live, NEW t \in live PROVE s = t
    <3>1. s \in Calls /\ t \in Calls /\ s # None /\ t # None
      BY <2>0, Numbers
    <3> QED
      BY <2>0, <2>1, <2>2, <3>1 DEF LiveIsOwned
  <2>4. Cardinality(live) <= 1
    <3>1. CASE live = {}
      BY <3>1, FS_EmptySet
    <3>2. CASE live # {}
      <4>1. PICK s \in live : TRUE
        BY <3>2
      <4>2. live = {s}
        BY <2>3
      <4>3. Cardinality({s}) = 1
        BY FS_Singleton
      <4> QED
        BY <4>2, <4>3
    <3> QED
      BY <3>1, <3>2
  <2> QED
    BY <2>0, <2>4 DEF LiveIsOwned, OneOwnedSession
<1> QED
  BY <1>1, BackendStart, BackendStep, PTL DEF Spec

\* What one operation saved or named stays: no save of a part of the settings
\* row undoes another's, the proxy in force is the stored one, and two loads of
\* an episode list never name an episode twice.
THEOREM SavesStay == Spec => []SavesAreKept
<1>1. BackendInv => SavesAreKept
  <2> SUFFICES ASSUME BackendInv PROVE SavesAreKept
    OBVIOUS
  <2>1. ASSUME NEW c \in Calls, IsAt(c, "proxy") PROVE settings = c /\ settings # None
    BY <2>1, Holders, Numbers DEF BackendInv, IsAt, SettingsStages
  <2> QED
    BY <2>1 DEF BackendInv, SettingsAgree, ProxyAgrees, SavesAreKept, NoSaveIsUndone, LoadsAgreeOnIds
<1> QED
  BY <1>1, BackendStart, BackendStep, PTL DEF Spec

-----------------------------------------------------------------------------
(* The listing of a season: its pages, in whatever order they come.        *)

LEMMA DivIs ==
  ASSUME NEW a \in Nat, NEW b \in Nat \ {0}
  PROVE  a \div b \in Nat /\ b * (a \div b) <= a /\ a < b * (a \div b) + b
OBVIOUS

LEMMA TimesIs ==
  ASSUME NEW a \in Nat, NEW b \in Nat, NEW c \in Nat \ {0}
  PROVE  /\ a <= b <=> c * a <= c * b
         /\ a < b <=> c * a < c * b
         /\ c * a \in Nat /\ c * (a + 1) = c * a + c
         /\ c * (a + b) = c * a + c * b /\ a * c = c * a
OBVIOUS

LEMMA ModIs ==
  ASSUME NEW a \in Nat, NEW b \in Nat \ {0}, a % b = 0
  PROVE  a \div b \in Nat /\ a = b * (a \div b)
OBVIOUS

\* The subjects of the first p pages are the first ones.
LEMMA PageIs ==
  ASSUME NEW s \in Nat \ {0}, NEW p \in Nat
  PROVE  (s - 1) \div BrowseSize + 1 \in 1..p <=> s <= BrowseSize * p
<1> DEFINE d == (s - 1) \div BrowseSize
<1>0. BrowseSize \in Nat \ {0} /\ s - 1 \in Nat
  BY SeasonsAssumption
<1>1. d \in Nat /\ BrowseSize * d <= s - 1 /\ s - 1 < BrowseSize * d + BrowseSize
  BY <1>0, DivIs
<1> HIDE DEF d
<1>2. BrowseSize * (d + 1) = BrowseSize * d + BrowseSize
  BY <1>0, <1>1, TimesIs
<1>3. d + 1 <= p <=> BrowseSize * (d + 1) <= BrowseSize * p
  <2>1. d + 1 \in Nat
    BY <1>1
  <2> QED
    BY <1>0, <2>1, TimesIs
<1>4. d < p <=> BrowseSize * d < BrowseSize * p
  BY <1>0, <1>1, TimesIs
<1>5. BrowseSize * p \in Nat /\ BrowseSize * d \in Nat
  BY <1>0, <1>1, TimesIs
<1>6. d + 1 <= p <=> s <= BrowseSize * p
  BY <1>0, <1>1, <1>2, <1>3, <1>4, <1>5
<1> QED
  BY <1>1, <1>6 DEF d

AllPages == 1..FirstPages \cup MorePages(total)

\* All pages together are the season, as far as it is read.
LEMMA PagesAreWhole ==
  ASSUME total \in Nat
  PROVE  Subjects(total, AllPages) = WholeSeason
<1> DEFINE B == BrowseSize
           K == MaxSubjects \div B
           n == Smaller(total, MaxSubjects)
           P == IF n > FirstPages * B THEN PagesOf(total) ELSE FirstPages
<1>1. /\ B \in Nat \ {0} /\ FirstPages \in Nat \ {0} /\ MaxSubjects \in Nat \ {0}
      /\ MaxSubjects % B = 0 /\ FirstPages * B <= MaxSubjects
  BY SeasonsAssumption
<1>2. K \in Nat /\ MaxSubjects = B * K
  BY <1>1, ModIs
<1>3. n \in Nat /\ n <= total /\ n <= MaxSubjects /\ (n = total \/ n = MaxSubjects)
  BY <1>1 DEF Smaller
<1>4. FirstPages * B = B * FirstPages /\ B * FirstPages \in Nat
  BY <1>1, TimesIs
<1>5. P \in Nat /\ AllPages = 1..P /\ n <= B * P /\ (n # total => B * P <= MaxSubjects)
  <2>1. CASE n > FirstPages * B
    <3> DEFINE x == n - FirstPages * B
               c == (x + B - 1) \div B
    <3>1. x \in Nat \ {0} /\ x + B - 1 \in Nat
      BY <1>1, <1>3, <1>4, <2>1
    <3>2. c \in Nat /\ B * c <= x + B - 1 /\ x + B - 1 < B * c + B
      BY <1>1, <3>1, DivIs
    <3>3. P = FirstPages + c
      BY <2>1 DEF PagesOf
    <3>4. B * P = B * FirstPages + B * c /\ B * c \in Nat
      BY <1>1, <3>2, <3>3, TimesIs
    <3>5. n <= B * P /\ B * P < n + B
      BY <1>1, <1>3, <1>4, <3>1, <3>2, <3>4
    <3>6. n = MaxSubjects => P < K + 1
      <4>1. B * (K + 1) = B * K + B /\ K + 1 \in Nat /\ P \in Nat
        BY <1>1, <1>2, <3>2, <3>3, TimesIs
      <4>2. n = MaxSubjects => B * P < B * (K + 1)
        BY <1>2, <3>5, <4>1
      <4> QED
        BY <1>1, <4>1, <4>2, TimesIs
    <3>7. n # total => B * P <= MaxSubjects
      <4>1. n = MaxSubjects => P <= K
        BY <1>1, <1>2, <3>2, <3>3, <3>6
      <4>2. n = MaxSubjects => B * P <= B * K
        BY <1>1, <1>2, <3>2, <3>3, <4>1, TimesIs
      <4> QED
        BY <1>2, <1>3, <4>2
    <3>8. AllPages = 1..P
      <4>1. AllPages = 1..FirstPages \cup (FirstPages + 1)..P
        BY <2>1 DEF AllPages, MorePages
      <4> QED
        BY <1>1, <3>2, <3>3, <4>1
    <3> QED
      BY <1>1, <3>2, <3>3, <3>5, <3>7, <3>8
  <2>2. CASE ~(n > FirstPages * B)
    <3>1. P = FirstPages /\ AllPages = 1..P
      BY <2>2 DEF AllPages, MorePages
    <3> QED
      BY <1>1, <1>3, <1>4, <2>2, <3>1
  <2> QED
    BY <2>1, <2>2
<1> HIDE DEF B, K, n, P
<1>6. Subjects(total, AllPages) = {s \in 1..total : s <= B * P}
  <2>1. \A s \in 1..total : s \in Nat \ {0}
    OBVIOUS
  <2>2. \A s \in 1..total : (s - 1) \div BrowseSize + 1 \in 1..P <=> s <= BrowseSize * P
    BY <1>5, <2>1, PageIs
  <2> QED
    BY <1>5, <2>2 DEF Subjects, B
<1>7. {s \in 1..total : s <= B * P} = 1..n
  <2>0. B * P \in Nat
    BY <1>1, <1>5, TimesIs
  <2>1. CASE n = total
    BY <1>3, <1>5, <2>0, <2>1
  <2>2. CASE n # total
    <3>1. B * P = n
      BY <1>1, <1>3, <1>5, <2>0, <2>2
    <3> QED
      BY <1>3, <3>1
  <2> QED
    BY <2>1, <2>2
<1> QED
  BY <1>6, <1>7 DEF n, WholeSeason

-----------------------------------------------------------------------------
(* The lookups and their fetches.                                          *)

Fetching == {"fetches", "drops", "closes"}
Errors   == {"none", "failed", "canceled", "expired"}

SeasonsTypeOK ==
  /\ month \in [Lookups -> Months] /\ total \in Nat
  /\ context \in [Lookups -> {"live", "canceled", "expired"}]
  /\ lookup \in [Lookups -> [at : {"starts", "joins", "waits", "returned"} \cup Fetching, for : Lookups \cup {NoFetch}]]
  /\ cached \in [Months -> Lookups \cup {NoFetch}]
  /\ fetch \in [Lookups -> [asked : SUBSET Nat, got : SUBSET Nat, err : Errors, done : BOOLEAN]]
  /\ browsed \in [Lookups -> [err : Errors, subjects : SUBSET Nat]]

\* A fetch has what is asked for or read of the first pages, or of all.
PagesAreAsked(l) ==
  \/ fetch[l].got \cup fetch[l].asked = 1..FirstPages
  \/ fetch[l].got \cup fetch[l].asked = AllPages

\* Each lookup makes one fetch at most, and is past it when it returns.
FetchIsSound(l) ==
  /\ lookup[l].at \in Fetching => lookup[l].for = l /\ ~fetch[l].done
  /\ fetch[l].done => lookup[l].at = "returned" /\ lookup[l].for = l
  /\ lookup[l].at \in {"starts", "joins", "waits"} => fetch[l] = NotFetched
  /\ lookup[l].at = "waits" => lookup[l].for # l
  /\ lookup[l].at = "fetches" => fetch[l].err = "none" /\ PagesAreAsked(l)
  /\ lookup[l].at = "drops" => fetch[l].err # "none"
  /\ fetch[l].err # "none" => fetch[l].got = {}
  /\ fetch[l].err = "canceled" => context[l] # "live"
  /\ lookup[l].at = "closes" /\ fetch[l].err = "none" => fetch[l].got = AllPages
  /\ fetch[l].done /\ fetch[l].err = "none" => fetch[l].got = AllPages

\* What is cached is the fetch of its season, and none that has failed.
CacheIsSound ==
  /\ \A l \in Lookups : UnderWay(l) => cached[month[l]] = l
  /\ \A m \in Months : cached[m] # NoFetch =>
       /\ month[cached[m]] = m
       /\ lookup[cached[m]].at \in Fetching \/ fetch[cached[m]].done
       /\ ~UnderWay(cached[m]) => fetch[cached[m]].err = "none"

WaitIsSound(l) ==
  lookup[l].at = "waits" =>
    /\ lookup[l].for \in Lookups /\ month[lookup[l].for] = month[l]
    /\ lookup[lookup[l].for].at \in Fetching \/ fetch[lookup[l].for].done

AnswerIsSound(l) ==
  lookup[l].at = "returned" =>
    /\ browsed[l].err = "none" => browsed[l].subjects = WholeSeason /\ month[lookup[l].for] = month[l]
    /\ browsed[l].err # "none" => browsed[l].subjects = {}
    /\ browsed[l].err = "canceled" => context[l] # "live"

SeasonsInv ==
  /\ SeasonsTypeOK /\ CacheIsSound
  /\ \A l \in Lookups : FetchIsSound(l) /\ WaitIsSound(l) /\ AnswerIsSound(l)

\* A step of one lookup leaves the others'.
LEMMA OthersStay ==
  ASSUME SeasonsInv, NEW l \in Lookups, UNCHANGED <<month, total>>, SeasonsTypeOK', CacheIsSound',
         \A k \in Lookups \ {l} : /\ lookup'[k] = lookup[k] /\ fetch'[k] = fetch[k]
                                  /\ browsed'[k] = browsed[k] /\ context'[k] = context[k],
         lookup[l].at \in Fetching \/ fetch[l].done => lookup'[l].at \in Fetching \/ fetch'[l].done,
         FetchIsSound(l)', WaitIsSound(l)', AnswerIsSound(l)'
  PROVE  SeasonsInv'
<1>1. ASSUME NEW k \in Lookups, k # l PROVE FetchIsSound(k)' /\ AnswerIsSound(k)'
  <2>1. FetchIsSound(k) /\ AnswerIsSound(k)
    BY DEF SeasonsInv
  <2>2. lookup'[k] = lookup[k] /\ fetch'[k] = fetch[k] /\ browsed'[k] = browsed[k] /\ context'[k] = context[k]
    BY <1>1
  <2>3. AllPages' = AllPages /\ WholeSeason' = WholeSeason
    BY DEF AllPages, MorePages, PagesOf, WholeSeason, Smaller
  <2>4. FetchIsSound(k)'
    BY <2>1, <2>2, <2>3 DEF FetchIsSound, PagesAreAsked
  <2> QED
    BY <2>1, <2>2, <2>3, <2>4 DEF AnswerIsSound
<1>2. ASSUME NEW k \in Lookups, k # l PROVE WaitIsSound(k)'
  <2>1. WaitIsSound(k) /\ lookup'[k] = lookup[k]
    BY <1>2 DEF SeasonsInv
  <2>2. ASSUME lookup[k].at = "waits", NEW f \in Lookups, lookup[f].at \in Fetching \/ fetch[f].done
        PROVE  lookup'[f].at \in Fetching \/ fetch'[f].done
    BY <2>2
  <2> QED
    BY <2>1, <2>2 DEF WaitIsSound
<1> QED
  BY <1>1, <1>2 DEF SeasonsInv

LEMMA CacheStays ==
  ASSUME SeasonsInv, NEW l \in Lookups, UNCHANGED <<month, cached>>,
         \A k \in Lookups \ {l} : lookup'[k] = lookup[k] /\ fetch'[k] = fetch[k],
         UnderWay(l)' => UnderWay(l),
         lookup[l].at \in Fetching \/ fetch[l].done => lookup'[l].at \in Fetching \/ fetch'[l].done,
         UnderWay(l) \/ fetch[l].err = "none" => UnderWay(l)' \/ fetch'[l].err = "none"
  PROVE  CacheIsSound'
<1>0. CacheIsSound /\ SeasonsTypeOK
  BY DEF SeasonsInv
<1>1. ASSUME NEW k \in Lookups, UnderWay(k)' PROVE cached[month[k]] = k
  BY <1>0, <1>1 DEF CacheIsSound, UnderWay
<1>2. ASSUME NEW m \in Months, cached[m] # NoFetch
      PROVE  /\ month[cached[m]] = m
             /\ lookup'[cached[m]].at \in Fetching \/ fetch'[cached[m]].done
             /\ ~(lookup'[cached[m]].at \in {"fetches", "drops"}) => fetch'[cached[m]].err = "none"
  <2> DEFINE f == cached[m]
  <2>1. f \in Lookups
    BY <1>0, <1>2 DEF SeasonsTypeOK
  <2>2. /\ month[f] = m /\ (lookup[f].at \in Fetching \/ fetch[f].done)
        /\ ~(lookup[f].at \in {"fetches", "drops"}) => fetch[f].err = "none"
    BY <1>0, <1>2 DEF CacheIsSound, UnderWay
  <2> HIDE DEF f
  <2>3. CASE f = l
    BY <2>2, <2>3 DEF UnderWay, f
  <2>4. CASE f # l
    BY <2>1, <2>2, <2>4 DEF f
  <2> QED
    BY <2>3, <2>4
<1> QED
  BY <1>1, <1>2 DEF CacheIsSound, UnderWay

LEMMA MoveToIs ==
  ASSUME SeasonsTypeOK, NEW l \in Lookups, NEW goes \in {"starts", "joins", "waits", "returned"} \cup Fetching,
         NEW for \in Lookups \cup {NoFetch}, MoveTo(l, goes, for)
  PROVE  /\ lookup' \in [Lookups -> [at : {"starts", "joins", "waits", "returned"} \cup Fetching,
                                     for : Lookups \cup {NoFetch}]]
         /\ lookup'[l].at = goes /\ lookup'[l].for = for
         /\ \A k \in Lookups \ {l} : lookup'[k] = lookup[k]
<1> DEFINE e == [at |-> goes, for |-> for]
<1>1. e \in [at : {"starts", "joins", "waits", "returned"} \cup Fetching, for : Lookups \cup {NoFetch}]
      /\ e.at = goes /\ e.for = for
  OBVIOUS
<1>2. lookup' = [lookup EXCEPT ![l] = e]
  BY DEF MoveTo
<1> HIDE DEF e
<1> QED
  BY <1>1, <1>2 DEF SeasonsTypeOK

LEMMA ReturnsIs ==
  ASSUME SeasonsTypeOK, NEW l \in Lookups, NEW err \in Errors, NEW subjects \in SUBSET Nat, Returns(l, err, subjects)
  PROVE  /\ lookup' \in [Lookups -> [at : {"starts", "joins", "waits", "returned"} \cup Fetching,
                                     for : Lookups \cup {NoFetch}]]
         /\ lookup'[l].at = "returned" /\ lookup'[l].for = lookup[l].for
         /\ \A k \in Lookups \ {l} : lookup'[k] = lookup[k]
         /\ browsed' \in [Lookups -> [err : Errors, subjects : SUBSET Nat]]
         /\ browsed'[l].err = err /\ browsed'[l].subjects = subjects
         /\ \A k \in Lookups \ {l} : browsed'[k] = browsed[k]
<1>1. lookup[l].for \in Lookups \cup {NoFetch}
  BY DEF SeasonsTypeOK
<1>2. MoveTo(l, "returned", lookup[l].for)
  BY DEF Returns
<1> DEFINE e == [err |-> err, subjects |-> subjects]
<1>3. e \in [err : Errors, subjects : SUBSET Nat] /\ e.err = err /\ e.subjects = subjects
  OBVIOUS
<1>4. browsed' = [browsed EXCEPT ![l] = e]
  BY DEF Returns
<1> HIDE DEF e
<1>5. /\ browsed' \in [Lookups -> [err : Errors, subjects : SUBSET Nat]]
      /\ browsed'[l].err = err /\ browsed'[l].subjects = subjects
      /\ \A k \in Lookups \ {l} : browsed'[k] = browsed[k]
  BY <1>3, <1>4 DEF SeasonsTypeOK
<1> QED
  BY <1>1, <1>2, <1>5, MoveToIs

\* What a finished fetch found is the whole season, or nothing and an error.
LEMMA ListingIs ==
  ASSUME SeasonsInv, NEW f \in Lookups, fetch[f].done \/ lookup[f].at = "closes"
  PROVE  /\ fetch[f].err \in Errors /\ Listing(f) \subseteq Nat
         /\ fetch[f].err = "none" => Listing(f) = WholeSeason
         /\ fetch[f].err # "none" => Listing(f) = {}
<1>1. SeasonsTypeOK /\ FetchIsSound(f) /\ total \in Nat
  BY DEF SeasonsInv, SeasonsTypeOK
<1>2. fetch[f].err \in Errors /\ Listing(f) \subseteq Nat
  BY <1>1 DEF SeasonsTypeOK, Listing, Subjects
<1>3. fetch[f].err = "none" => fetch[f].got = AllPages
  BY <1>1 DEF FetchIsSound
<1>4. fetch[f].err # "none" => fetch[f].got = {}
  BY <1>1 DEF FetchIsSound
<1>5. Subjects(total, {}) = {}
  BY DEF Subjects
<1> QED
  BY <1>1, <1>2, <1>3, <1>4, <1>5, PagesAreWhole DEF Listing

LEMMA LookupBegins ==
  ASSUME SeasonsInv, NEW l \in Lookups, EndLookup(l) \/ BeginBrowse(l) \/ JoinFetch(l)
  PROVE  SeasonsInv'
<1>0. SeasonsTypeOK /\ CacheIsSound /\ FetchIsSound(l) /\ WaitIsSound(l) /\ AnswerIsSound(l)
      /\ context[l] \in {"live", "canceled", "expired"} /\ month[l] \in Months
  BY DEF SeasonsInv, SeasonsTypeOK
<1>1. CASE EndLookup(l)
  <2>1. /\ UNCHANGED <<month, total, lookup, cached, fetch, browsed>>
        /\ context' \in [Lookups -> {"live", "canceled", "expired"}]
        /\ \A k \in Lookups \ {l} : context'[k] = context[k]
        /\ context'[l] # "live"
    BY <1>0, <1>1 DEF EndLookup, SeasonsTypeOK
  <2>2. SeasonsTypeOK' /\ CacheIsSound'
    BY <1>0, <2>1 DEF SeasonsTypeOK, CacheIsSound, UnderWay
  <2>3. FetchIsSound(l)' /\ WaitIsSound(l)' /\ AnswerIsSound(l)'
    <3>1. AllPages' = AllPages /\ WholeSeason' = WholeSeason
      BY <2>1 DEF AllPages, MorePages, PagesOf, WholeSeason, Smaller
    <3>2. FetchIsSound(l)'
      BY <1>0, <2>1, <3>1 DEF FetchIsSound, PagesAreAsked
    <3> QED
      BY <1>0, <2>1, <3>1, <3>2 DEF WaitIsSound, AnswerIsSound
  <2> QED
    BY <2>1, <2>2, <2>3, OthersStay
<1>2. ASSUME lookup[l].at \in {"starts", "joins"}, UNCHANGED <<month, total, context, cached, fetch>>,
             \/ MoveTo(l, "joins", NoFetch) /\ UNCHANGED browsed
             \/ Returns(l, context[l], {}) /\ context[l] # "live"
             \/ MoveTo(l, "waits", cached[month[l]]) /\ cached[month[l]] # NoFetch /\ UNCHANGED browsed
      PROVE  SeasonsInv'
  <2>1. /\ lookup' \in [Lookups -> [at : {"starts", "joins", "waits", "returned"} \cup Fetching,
                                    for : Lookups \cup {NoFetch}]]
        /\ \A k \in Lookups \ {l} : lookup'[k] = lookup[k] /\ browsed'[k] = browsed[k]
        /\ browsed' \in [Lookups -> [err : Errors, subjects : SUBSET Nat]]
        /\ \/ lookup'[l].at = "joins"
           \/ lookup'[l].at = "waits" /\ lookup'[l].for = cached[month[l]] /\ cached[month[l]] # NoFetch
           \/ lookup'[l].at = "returned" /\ browsed'[l].err = context[l] /\ context[l] # "live" /\ browsed'[l].subjects = {}
    <3>1. CASE Returns(l, context[l], {}) /\ context[l] # "live"
      BY <1>0, <3>1, ReturnsIs DEF Errors
    <3>2. CASE MoveTo(l, "joins", NoFetch) /\ UNCHANGED browsed
      BY <1>0, <3>2, MoveToIs DEF SeasonsTypeOK
    <3>3. CASE MoveTo(l, "waits", cached[month[l]]) /\ cached[month[l]] # NoFetch /\ UNCHANGED browsed
      <4>1. cached[month[l]] \in Lookups \cup {NoFetch}
        BY <1>0 DEF SeasonsTypeOK
      <4> QED
        BY <1>0, <3>3, <4>1, MoveToIs DEF SeasonsTypeOK
    <3> QED
      BY <1>2, <3>1, <3>2, <3>3
  <2>2. SeasonsTypeOK'
    BY <1>0, <1>2, <2>1 DEF SeasonsTypeOK
  <2>3. ~fetch[l].done /\ fetch[l] = NotFetched /\ fetch'[l] = NotFetched
    BY <1>0, <1>2 DEF FetchIsSound, NotFetched
  <2>4. lookup[l].at \notin Fetching /\ lookup'[l].at \notin Fetching /\ ~UnderWay(l)' /\ ~UnderWay(l)
    BY <1>2, <2>1 DEF Fetching, UnderWay
  <2>5. CacheIsSound'
    BY <1>2, <2>1, <2>3, <2>4, CacheStays
  <2>6. WaitIsSound(l)'
    <3>1. ASSUME lookup'[l].at = "waits"
          PROVE  LET f == cached[month[l]]
                 IN /\ lookup'[l].for = f /\ f \in Lookups /\ month[f] = month[l] /\ f # l
                    /\ lookup[f].at \in Fetching \/ fetch[f].done
      BY <1>0, <2>1, <2>3, <2>4, <3>1 DEF SeasonsTypeOK, CacheIsSound
    <3> QED
      BY <1>2, <2>1, <3>1 DEF WaitIsSound
  <2>7. FetchIsSound(l)'
    <3>1. lookup'[l].at = "waits" => lookup'[l].for # l
      BY <1>0, <2>1, <2>3, <2>4 DEF CacheIsSound, SeasonsTypeOK
    <3> QED
      BY <2>1, <2>3, <2>4, <3>1 DEF FetchIsSound, NotFetched, Fetching
  <2>8. AnswerIsSound(l)'
    BY <1>0, <1>2, <2>1 DEF AnswerIsSound
  <2> QED
    BY <1>2, <2>1, <2>2, <2>3, <2>4, <2>5, <2>6, <2>7, <2>8, OthersStay
<1>3. CASE BeginBrowse(l)
  BY <1>2, <1>3 DEF BeginBrowse
<1>4. CASE JoinFetch(l)
  BY <1>2, <1>4 DEF JoinFetch
<1> QED
  BY <1>1, <1>3, <1>4

\* What a step makes of the fetch of its lookup.
LEMMA FetchIs ==
  ASSUME SeasonsTypeOK, NEW l \in Lookups,
         NEW f \in [asked : SUBSET Nat, got : SUBSET Nat, err : Errors, done : BOOLEAN],
         fetch' = [fetch EXCEPT ![l] = f]
  PROVE  /\ fetch' \in [Lookups -> [asked : SUBSET Nat, got : SUBSET Nat, err : Errors, done : BOOLEAN]]
         /\ fetch'[l] = f /\ \A k \in Lookups \ {l} : fetch'[k] = fetch[k]
BY DEF SeasonsTypeOK

LEMMA FetchStarts ==
  ASSUME SeasonsInv, NEW l \in Lookups, StartFetch(l) PROVE SeasonsInv'
<1>0. SeasonsTypeOK /\ CacheIsSound /\ FetchIsSound(l) /\ month[l] \in Months /\ l # NoFetch
      /\ lookup[l].at = "joins" /\ cached[month[l]] = NoFetch /\ FirstPages \in Nat
      /\ UNCHANGED <<month, total, context, browsed>>
  BY SeasonsAssumption DEF SeasonsInv, SeasonsTypeOK, StartFetch
<1>1. fetch[l] = NotFetched
  BY <1>0 DEF FetchIsSound
<1> DEFINE f == [fetch[l] EXCEPT !.asked = 1..FirstPages]
<1>2. f \in [asked : SUBSET Nat, got : SUBSET Nat, err : Errors, done : BOOLEAN]
      /\ f.asked = 1..FirstPages /\ f.got = {} /\ f.err = "none" /\ ~f.done
  <2>1. fetch[l] \in [asked : SUBSET Nat, got : SUBSET Nat, err : Errors, done : BOOLEAN]
    BY <1>0 DEF SeasonsTypeOK
  <2>2. fetch[l].got = {} /\ fetch[l].err = "none" /\ ~fetch[l].done
    BY <1>1 DEF NotFetched
  <2>3. 1..FirstPages \subseteq Nat
    OBVIOUS
  <2> QED
    BY <2>1, <2>2, <2>3
<1>3. fetch' = [fetch EXCEPT ![l] = f]
  BY <1>0 DEF StartFetch, SeasonsTypeOK
<1> HIDE DEF f
<1>4. /\ fetch' \in [Lookups -> [asked : SUBSET Nat, got : SUBSET Nat, err : Errors, done : BOOLEAN]]
      /\ fetch'[l] = f /\ \A k \in Lookups \ {l} : fetch'[k] = fetch[k]
  BY <1>0, <1>2, <1>3, FetchIs
<1>5. /\ lookup' \in [Lookups -> [at : {"starts", "joins", "waits", "returned"} \cup Fetching,
                                  for : Lookups \cup {NoFetch}]]
      /\ lookup'[l].at = "fetches" /\ lookup'[l].for = l
      /\ \A k \in Lookups \ {l} : lookup'[k] = lookup[k]
  <2>1. MoveTo(l, "fetches", l) /\ "fetches" \in {"starts", "joins", "waits", "returned"} \cup Fetching
    BY DEF StartFetch, Fetching
  <2> QED
    BY <1>0, <2>1, MoveToIs
<1>6. /\ cached' \in [Months -> Lookups \cup {NoFetch}] /\ cached'[month[l]] = l
      /\ \A m \in Months : m # month[l] =>
           cached'[m] = cached[m] \/ (cached'[m] = NoFetch /\ Finished(m))
  <2> DEFINE evicted == IF Cardinality(Known) >= MaxCached THEN Evicted ELSE {}
  <2>1. cached' = [m \in Months |-> IF m = month[l] THEN l ELSE IF m \in evicted THEN NoFetch ELSE cached[m]]
    BY DEF StartFetch
  <2>2. \A m \in evicted : Finished(m)
    BY DEF Evicted
  <2> HIDE DEF evicted
  <2> QED
    BY <1>0, <2>1, <2>2 DEF SeasonsTypeOK
<1>7. SeasonsTypeOK'
  BY <1>0, <1>4, <1>5, <1>6 DEF SeasonsTypeOK
<1>8. ASSUME NEW k \in Lookups, UnderWay(k)' PROVE cached'[month[k]] = k
  <2>1. CASE k = l
    BY <1>6, <2>1
  <2>2. CASE k # l
    <3>1. UnderWay(k) /\ lookup[k].at \in Fetching /\ FetchIsSound(k) /\ month[k] \in Months
      BY <1>0, <1>5, <1>8, <2>2 DEF UnderWay, Fetching, SeasonsInv, SeasonsTypeOK
    <3>2. cached[month[k]] = k /\ ~fetch[k].done
      BY <1>0, <3>1 DEF CacheIsSound, FetchIsSound
    <3>3. month[k] # month[l] /\ ~Finished(month[k])
      BY <1>0, <3>2, SeasonsAssumption DEF Finished
    <3> QED
      BY <1>6, <3>1, <3>2, <3>3
  <2> QED
    BY <2>1, <2>2
<1>9. ASSUME NEW m \in Months, cached'[m] # NoFetch
      PROVE  /\ month[cached'[m]] = m
             /\ lookup'[cached'[m]].at \in Fetching \/ fetch'[cached'[m]].done
             /\ ~(lookup'[cached'[m]].at \in {"fetches", "drops"}) => fetch'[cached'[m]].err = "none"
  <2>1. CASE m = month[l]
    BY <1>2, <1>4, <1>5, <1>6, <2>1 DEF Fetching
  <2>2. CASE m # month[l]
    <3> DEFINE g == cached[m]
    <3>1. cached'[m] = g /\ g \in Lookups /\ g # NoFetch
      BY <1>0, <1>6, <1>9, <2>2 DEF SeasonsTypeOK
    <3>2. /\ month[g] = m /\ (lookup[g].at \in Fetching \/ fetch[g].done)
          /\ ~(lookup[g].at \in {"fetches", "drops"}) => fetch[g].err = "none"
      BY <1>0, <3>1 DEF CacheIsSound, UnderWay
    <3> HIDE DEF g
    <3>3. g # l
      BY <2>2, <3>2
    <3> QED
      BY <1>4, <1>5, <3>1, <3>2, <3>3
  <2> QED
    BY <2>1, <2>2
<1>10. CacheIsSound'
  BY <1>0, <1>8, <1>9 DEF CacheIsSound, UnderWay
<1>11. FetchIsSound(l)'
  <2>1. fetch'[l].got \cup fetch'[l].asked = 1..FirstPages
    BY <1>2, <1>4
  <2> QED
    BY <1>2, <1>4, <1>5, <2>1 DEF FetchIsSound, PagesAreAsked, Fetching
<1>12. WaitIsSound(l)' /\ AnswerIsSound(l)'
  BY <1>5 DEF WaitIsSound, AnswerIsSound
<1>13. lookup'[l].at \in Fetching
  BY <1>5 DEF Fetching
<1> QED
  BY <1>0, <1>4, <1>5, <1>7, <1>10, <1>11, <1>12, <1>13, OthersStay

LEMMA PageRead ==
  ASSUME SeasonsInv, NEW l \in Lookups, PageComes(l) \/ PageFails(l) PROVE SeasonsInv'
<1>0. /\ SeasonsTypeOK /\ CacheIsSound /\ FetchIsSound(l) /\ lookup[l].at = "fetches" /\ lookup[l].for = l
      /\ ~fetch[l].done /\ fetch[l].err = "none" /\ PagesAreAsked(l) /\ FirstPages \in Nat /\ total \in Nat
      /\ fetch[l] \in [asked : SUBSET Nat, got : SUBSET Nat, err : Errors, done : BOOLEAN]
      /\ fetch[l].asked \subseteq Nat /\ fetch[l].got \subseteq Nat
      /\ context[l] \in {"live", "canceled", "expired"}
      /\ UNCHANGED <<month, total, context, cached, browsed>>
  <2>1. lookup[l].at = "fetches" /\ UNCHANGED <<month, total, context, cached, browsed>>
    BY DEF PageComes, PageFails
  <2>2. SeasonsTypeOK /\ CacheIsSound /\ FetchIsSound(l)
    BY DEF SeasonsInv
  <2>3. lookup[l].for = l /\ fetch[l].err = "none" /\ PagesAreAsked(l) /\ ~fetch[l].done
    BY <2>1, <2>2 DEF FetchIsSound, Fetching
  <2>4. fetch[l] \in [asked : SUBSET Nat, got : SUBSET Nat, err : Errors, done : BOOLEAN]
        /\ context[l] \in {"live", "canceled", "expired"} /\ total \in Nat
    BY <2>2 DEF SeasonsTypeOK
  <2>5. fetch[l].done = FALSE
    BY <2>3, <2>4
  <2> QED
    BY <2>1, <2>2, <2>3, <2>4, <2>5, SeasonsAssumption
<1>1. AllPages \subseteq Nat /\ AllPages' = AllPages
  <2>1. \A p \in MorePages(total) : p \in Nat
    BY <1>0 DEF MorePages
  <2>2. AllPages' = AllPages
    BY <1>0 DEF AllPages, MorePages, PagesOf, Smaller
  <2> QED
    BY <1>0, <2>1, <2>2 DEF AllPages
\* the fetch has another page, all of them, or an error
<1>2. PICK f \in [asked : SUBSET Nat, got : SUBSET Nat, err : Errors, done : BOOLEAN],
           goes \in {"fetches", "drops", "closes"} :
        /\ fetch' = [fetch EXCEPT ![l] = f] /\ ~f.done
        /\ (goes = "fetches" /\ UNCHANGED lookup) \/ MoveTo(l, goes, l)
        /\ goes = "drops" <=> f.err # "none"
        /\ f.err # "none" => f.got = {}
        /\ f.err = "canceled" => context[l] # "live"
        /\ goes = "fetches" => f.got \cup f.asked = 1..FirstPages \/ f.got \cup f.asked = AllPages
        /\ goes = "closes" => f.got = AllPages
  <2>1. CASE PageComes(l)
    <3>1. PICK p \in fetch[l].asked :
            LET got  == fetch[l].got \cup {p}
                left == fetch[l].asked \ {p}
                more == IF left = {} THEN MorePages(total) \ got ELSE left
            IN /\ fetch' = [fetch EXCEPT ![l].got = got, ![l].asked = more]
               /\ IF more = {} THEN MoveTo(l, "closes", l) ELSE UNCHANGED lookup
      BY <2>1 DEF PageComes
    <3> DEFINE got == fetch[l].got \cup {p}
               left == fetch[l].asked \ {p}
               more == IF left = {} THEN MorePages(total) \ got ELSE left
               f == [fetch[l] EXCEPT !.got = got, !.asked = more]
               goes == IF more = {} THEN "closes" ELSE "fetches"
    <3>2. got \cup left = fetch[l].got \cup fetch[l].asked
      BY <3>1
    <3>3. got \subseteq AllPages /\ (got \cup left = 1..FirstPages \/ got \cup left = AllPages)
      BY <1>0, <3>2 DEF PagesAreAsked, AllPages
    <3>4. left = {} => got \cup more = AllPages
      BY <3>3 DEF AllPages
    <3>5. more = {} => got = AllPages
      BY <3>3, <3>4
    <3>6. got \cup more = 1..FirstPages \/ got \cup more = AllPages
      BY <3>3, <3>4
    <3>7. got \subseteq Nat /\ more \subseteq Nat
      <4>1. 1..FirstPages \subseteq Nat
        OBVIOUS
      <4> HIDE DEF got, more
      <4> QED
        BY <1>1, <3>6, <4>1
    <3>8. fetch' = [fetch EXCEPT ![l] = f]
      <4>1. fetch' = [fetch EXCEPT ![l].got = got, ![l].asked = more]
        BY <3>1
      <4>2. fetch \in [Lookups -> [asked : SUBSET Nat, got : SUBSET Nat, err : Errors, done : BOOLEAN]]
        BY <1>0 DEF SeasonsTypeOK
      <4> HIDE DEF got, more
      <4> QED
        BY <4>1, <4>2
    <3>9. (goes = "fetches" /\ UNCHANGED lookup) \/ MoveTo(l, goes, l)
      BY <3>1
    <3>10. goes \in {"fetches", "closes"} /\ (goes = "closes" => got = AllPages)
      BY <3>5
    <3> HIDE DEF got, more, goes
    <3>11. f \in [asked : SUBSET Nat, got : SUBSET Nat, err : Errors, done : BOOLEAN]
           /\ f.err = "none" /\ ~f.done /\ f.got = got /\ f.asked = more
      BY <1>0, <3>7 DEF Errors
    <3> HIDE DEF f
    <3> QED
      BY <3>6, <3>8, <3>9, <3>10, <3>11
  <2>2. CASE PageFails(l)
    <3> DEFINE err == IF context[l] = "live" THEN "failed" ELSE context[l]
               f == [fetch[l] EXCEPT !.asked = {}, !.got = {}, !.err = err]
    <3>1. err \in Errors /\ err # "none" /\ (err = "canceled" => context[l] # "live")
      BY <1>0 DEF Errors
    <3>2. fetch' = [fetch EXCEPT ![l].asked = {}, ![l].got = {}, ![l].err = err] /\ MoveTo(l, "drops", l)
      BY <2>2 DEF PageFails
    <3> HIDE DEF err
    <3>3. fetch' = [fetch EXCEPT ![l] = f]
      BY <1>0, <3>2 DEF SeasonsTypeOK
    <3>4. f \in [asked : SUBSET Nat, got : SUBSET Nat, err : Errors, done : BOOLEAN]
          /\ f.err = err /\ ~f.done /\ f.got = {}
      BY <1>0, <3>1
    <3> HIDE DEF f
    <3> QED
      BY <3>1, <3>2, <3>3, <3>4
  <2> QED
    BY <2>1, <2>2
<1>3. /\ fetch' \in [Lookups -> [asked : SUBSET Nat, got : SUBSET Nat, err : Errors, done : BOOLEAN]]
      /\ fetch'[l] = f /\ \A k \in Lookups \ {l} : fetch'[k] = fetch[k]
  BY <1>0, <1>2, FetchIs
<1>4. /\ lookup' \in [Lookups -> [at : {"starts", "joins", "waits", "returned"} \cup Fetching,
                                  for : Lookups \cup {NoFetch}]]
      /\ lookup'[l].at = goes /\ lookup'[l].for = l
      /\ \A k \in Lookups \ {l} : lookup'[k] = lookup[k]
  <2>1. CASE goes = "fetches" /\ UNCHANGED lookup
    BY <1>0, <2>1 DEF SeasonsTypeOK
  <2>2. CASE MoveTo(l, goes, l)
    BY <1>0, <2>2, MoveToIs DEF Fetching
  <2> QED
    BY <1>2, <2>1, <2>2
<1>5. SeasonsTypeOK'
  BY <1>0, <1>3, <1>4 DEF SeasonsTypeOK
<1>6. lookup'[l].at \in Fetching /\ UnderWay(l) /\ (UnderWay(l)' \/ fetch'[l].err = "none")
  BY <1>0, <1>2, <1>3, <1>4 DEF Fetching, UnderWay
<1>7. CacheIsSound'
  BY <1>0, <1>3, <1>4, <1>6, CacheStays
<1>8. FetchIsSound(l)'
  BY <1>0, <1>1, <1>2, <1>3, <1>4 DEF FetchIsSound, PagesAreAsked, Fetching
<1>9. WaitIsSound(l)' /\ AnswerIsSound(l)'
  BY <1>2, <1>4 DEF WaitIsSound, AnswerIsSound
<1> QED
  BY <1>0, <1>3, <1>4, <1>5, <1>6, <1>7, <1>8, <1>9, OthersStay

LEMMA FetchDropped ==
  ASSUME SeasonsInv, NEW l \in Lookups, DropFetch(l) PROVE SeasonsInv'
<1>0. /\ SeasonsTypeOK /\ CacheIsSound /\ FetchIsSound(l) /\ month[l] \in Months /\ lookup[l].at = "drops"
      /\ UNCHANGED <<month, total, context, fetch, browsed>> /\ cached[month[l]] = l /\ ~fetch[l].done
      /\ fetch[l].err # "none"
  BY DEF SeasonsInv, SeasonsTypeOK, DropFetch, CacheIsSound, UnderWay, FetchIsSound, Fetching
<1>1. /\ lookup' \in [Lookups -> [at : {"starts", "joins", "waits", "returned"} \cup Fetching,
                                  for : Lookups \cup {NoFetch}]]
      /\ lookup'[l].at = "closes" /\ lookup'[l].for = l
      /\ \A k \in Lookups \ {l} : lookup'[k] = lookup[k]
  <2>1. MoveTo(l, "closes", l) /\ "closes" \in {"starts", "joins", "waits", "returned"} \cup Fetching
    BY DEF DropFetch, Fetching
  <2> QED
    BY <1>0, <2>1, MoveToIs
<1>2. /\ cached' \in [Months -> Lookups \cup {NoFetch}] /\ cached'[month[l]] = NoFetch
      /\ \A m \in Months : m # month[l] => cached'[m] = cached[m]
  BY <1>0 DEF DropFetch, SeasonsTypeOK
<1>3. SeasonsTypeOK'
  BY <1>0, <1>1, <1>2 DEF SeasonsTypeOK
<1>4. ASSUME NEW k \in Lookups, UnderWay(k)' PROVE cached'[month[k]] = k
  <2>1. k # l
    BY <1>1, <1>4 DEF UnderWay
  <2>2. UnderWay(k) /\ month[k] \in Months
    BY <1>0, <1>1, <1>4, <2>1 DEF UnderWay, SeasonsTypeOK
  <2>3. cached[month[k]] = k
    BY <1>0, <2>2 DEF CacheIsSound
  <2> QED
    BY <1>0, <1>2, <2>1, <2>2, <2>3
<1>5. ASSUME NEW m \in Months, cached'[m] # NoFetch
      PROVE  /\ month[cached'[m]] = m
             /\ lookup'[cached'[m]].at \in Fetching \/ fetch[cached'[m]].done
             /\ ~(lookup'[cached'[m]].at \in {"fetches", "drops"}) => fetch[cached'[m]].err = "none"
  <2> DEFINE g == cached[m]
  <2>1. m # month[l] /\ cached'[m] = g /\ g \in Lookups /\ g # NoFetch
    BY <1>0, <1>2, <1>5 DEF SeasonsTypeOK
  <2>2. /\ month[g] = m /\ (lookup[g].at \in Fetching \/ fetch[g].done)
        /\ ~(lookup[g].at \in {"fetches", "drops"}) => fetch[g].err = "none"
    BY <1>0, <2>1 DEF CacheIsSound, UnderWay
  <2> HIDE DEF g
  <2> QED
    BY <1>1, <2>1, <2>2
<1>6. CacheIsSound'
  BY <1>0, <1>4, <1>5 DEF CacheIsSound, UnderWay
<1>7. FetchIsSound(l)' /\ WaitIsSound(l)' /\ AnswerIsSound(l)'
  BY <1>0, <1>1 DEF FetchIsSound, WaitIsSound, AnswerIsSound, Fetching
<1>8. lookup'[l].at \in Fetching
  BY <1>1 DEF Fetching
<1> QED
  BY <1>0, <1>1, <1>3, <1>6, <1>7, <1>8, OthersStay

LEMMA FetchCloses ==
  ASSUME SeasonsInv, NEW l \in Lookups, CloseFetch(l) PROVE SeasonsInv'
<1>0. /\ SeasonsTypeOK /\ CacheIsSound /\ FetchIsSound(l) /\ lookup[l].at = "closes" /\ lookup[l].for = l
      /\ UNCHANGED <<month, total, context, cached>>
      /\ fetch[l] \in [asked : SUBSET Nat, got : SUBSET Nat, err : Errors, done : BOOLEAN]
  BY DEF SeasonsInv, SeasonsTypeOK, CloseFetch, FetchIsSound, Fetching
<1>1. /\ fetch[l].err \in Errors /\ Listing(l) \in SUBSET Nat
      /\ fetch[l].err = "none" => Listing(l) = WholeSeason
      /\ fetch[l].err # "none" => Listing(l) = {}
  BY <1>0, ListingIs
<1>2. Returns(l, fetch[l].err, Listing(l))
  BY DEF CloseFetch
<1>3. /\ lookup' \in [Lookups -> [at : {"starts", "joins", "waits", "returned"} \cup Fetching,
                                  for : Lookups \cup {NoFetch}]]
      /\ lookup'[l].at = "returned" /\ lookup'[l].for = l
      /\ \A k \in Lookups \ {l} : lookup'[k] = lookup[k] /\ browsed'[k] = browsed[k]
      /\ browsed' \in [Lookups -> [err : Errors, subjects : SUBSET Nat]]
      /\ browsed'[l].err = fetch[l].err /\ browsed'[l].subjects = Listing(l)
  BY <1>0, <1>1, <1>2, ReturnsIs
<1> DEFINE f == [fetch[l] EXCEPT !.done = TRUE]
<1>4. /\ f \in [asked : SUBSET Nat, got : SUBSET Nat, err : Errors, done : BOOLEAN]
      /\ f.done /\ f.err = fetch[l].err /\ f.got = fetch[l].got
  BY <1>0
<1>5. fetch' = [fetch EXCEPT ![l] = f]
  BY <1>0 DEF CloseFetch, SeasonsTypeOK
<1> HIDE DEF f
<1>6. /\ fetch' \in [Lookups -> [asked : SUBSET Nat, got : SUBSET Nat, err : Errors, done : BOOLEAN]]
      /\ fetch'[l] = f /\ \A k \in Lookups \ {l} : fetch'[k] = fetch[k]
  BY <1>0, <1>4, <1>5, FetchIs
<1>7. SeasonsTypeOK'
  BY <1>0, <1>3, <1>6 DEF SeasonsTypeOK
<1>8. ~UnderWay(l) /\ ~UnderWay(l)'
  BY <1>0, <1>3 DEF UnderWay
<1>9. CacheIsSound'
  BY <1>0, <1>3, <1>4, <1>6, <1>8, CacheStays
<1>10. AllPages' = AllPages /\ WholeSeason' = WholeSeason
  BY <1>0 DEF AllPages, MorePages, PagesOf, WholeSeason, Smaller
<1>11. FetchIsSound(l)'
  BY <1>0, <1>3, <1>4, <1>6, <1>10 DEF FetchIsSound, Fetching
<1>12. WaitIsSound(l)' /\ AnswerIsSound(l)'
  <2>1. fetch[l].err = "canceled" => context[l] # "live"
    BY <1>0 DEF FetchIsSound
  <2> QED
    BY <1>0, <1>1, <1>3, <1>10, <2>1 DEF WaitIsSound, AnswerIsSound
<1> QED
  BY <1>0, <1>3, <1>4, <1>6, <1>7, <1>9, <1>11, <1>12, OthersStay

LEMMA WaitEnds ==
  ASSUME SeasonsInv, NEW l \in Lookups, FetchHeard(l) \/ StopsWaiting(l) PROVE SeasonsInv'
<1>0. /\ SeasonsTypeOK /\ CacheIsSound /\ FetchIsSound(l) /\ WaitIsSound(l) /\ lookup[l].at = "waits"
      /\ UNCHANGED <<month, total, context, cached, fetch>>
      /\ context[l] \in {"live", "canceled", "expired"}
      /\ lookup[l].for \in Lookups /\ lookup[l].for # l /\ month[lookup[l].for] = month[l]
      /\ fetch[l] = NotFetched
  BY DEF SeasonsInv, SeasonsTypeOK, FetchHeard, StopsWaiting, WaitIsSound, FetchIsSound
<1>1. \/ MoveTo(l, "joins", NoFetch) /\ UNCHANGED browsed
      \/ \E err \in Errors, subjects \in SUBSET Nat :
           /\ Returns(l, err, subjects)
           /\ err = "none" => subjects = WholeSeason
           /\ err # "none" => subjects = {}
           /\ err = "canceled" => context[l] # "live"
  <2>1. CASE StopsWaiting(l)
    <3>1. Returns(l, context[l], {}) /\ context[l] # "live" /\ context[l] \in Errors /\ context[l] # "none"
      BY <1>0, <2>1 DEF StopsWaiting, Errors
    <3> QED
      BY <3>1
  <2>2. CASE FetchHeard(l)
    <3> DEFINE f == lookup[l].for
    <3>1. /\ fetch[f].err \in Errors /\ Listing(f) \in SUBSET Nat
          /\ fetch[f].err = "none" => Listing(f) = WholeSeason
          /\ fetch[f].err # "none" => Listing(f) = {}
      BY <1>0, <2>2, ListingIs DEF FetchHeard
    <3>2. \/ MoveTo(l, "joins", NoFetch) /\ UNCHANGED browsed
          \/ Returns(l, fetch[f].err, Listing(f)) /\ ~AsksAgain(l, fetch[f].err)
      BY <2>2 DEF FetchHeard
    <3>3. ~AsksAgain(l, fetch[f].err) => (fetch[f].err = "canceled" => context[l] # "live")
      BY DEF AsksAgain
    <3> HIDE DEF f
    <3> QED
      BY <3>1, <3>2, <3>3
  <2> QED
    BY <2>1, <2>2
<1>2. /\ lookup' \in [Lookups -> [at : {"starts", "joins", "waits", "returned"} \cup Fetching,
                                  for : Lookups \cup {NoFetch}]]
      /\ \A k \in Lookups \ {l} : lookup'[k] = lookup[k] /\ browsed'[k] = browsed[k]
      /\ browsed' \in [Lookups -> [err : Errors, subjects : SUBSET Nat]]
      /\ \/ lookup'[l].at = "joins"
         \/ /\ lookup'[l].at = "returned" /\ lookup'[l].for = lookup[l].for
            /\ browsed'[l].err = "none" => browsed'[l].subjects = WholeSeason
            /\ browsed'[l].err # "none" => browsed'[l].subjects = {}
            /\ browsed'[l].err = "canceled" => context[l] # "live"
  <2>1. CASE MoveTo(l, "joins", NoFetch) /\ UNCHANGED browsed
    BY <1>0, <2>1, MoveToIs DEF SeasonsTypeOK
  <2>2. ASSUME NEW err \in Errors, NEW subjects \in SUBSET Nat, Returns(l, err, subjects),
               err = "none" => subjects = WholeSeason, err # "none" => subjects = {},
               err = "canceled" => context[l] # "live"
        PROVE  /\ lookup' \in [Lookups -> [at : {"starts", "joins", "waits", "returned"} \cup Fetching,
                                           for : Lookups \cup {NoFetch}]]
               /\ \A k \in Lookups \ {l} : lookup'[k] = lookup[k] /\ browsed'[k] = browsed[k]
               /\ browsed' \in [Lookups -> [err : Errors, subjects : SUBSET Nat]]
               /\ lookup'[l].at = "returned" /\ lookup'[l].for = lookup[l].for
               /\ browsed'[l].err = "none" => browsed'[l].subjects = WholeSeason
               /\ browsed'[l].err # "none" => browsed'[l].subjects = {}
               /\ browsed'[l].err = "canceled" => context[l] # "live"
    BY <1>0, <2>2, ReturnsIs
  <2> QED
    BY <1>1, <2>1, <2>2
<1>3. SeasonsTypeOK'
  BY <1>0, <1>2 DEF SeasonsTypeOK
<1>4. ~UnderWay(l) /\ ~UnderWay(l)' /\ lookup[l].at \notin Fetching /\ ~fetch[l].done /\ fetch[l].err = "none"
  BY <1>0, <1>2 DEF UnderWay, Fetching, NotFetched
<1>5. CacheIsSound'
  BY <1>0, <1>2, <1>4, CacheStays
<1>6. WholeSeason' = WholeSeason
  BY <1>0 DEF WholeSeason, Smaller
<1>7. FetchIsSound(l)' /\ WaitIsSound(l)' /\ AnswerIsSound(l)'
  BY <1>0, <1>2, <1>4, <1>6 DEF FetchIsSound, WaitIsSound, AnswerIsSound, Fetching, NotFetched
<1> QED
  BY <1>0, <1>2, <1>3, <1>4, <1>5, <1>7, OthersStay

\* Lookups of one season share one fetch, a failed one is forgotten before anyone
\* hears of it, and each lookup has the whole of its season or an error of its own:
\* for any number of lookups and seasons, and whatever the sizes of pages and cache.
THEOREM LookupsServed == SeasonsSpec => []LookupsAreServed
<1>1. SeasonsInit => SeasonsInv
  <2> SUFFICES ASSUME SeasonsInit PROVE SeasonsInv
    OBVIOUS
  <2>1. NotFetched \in [asked : SUBSET Nat, got : SUBSET Nat, err : Errors, done : BOOLEAN]
        /\ NotBrowsed \in [err : Errors, subjects : SUBSET Nat]
    BY DEF NotFetched, NotBrowsed, Errors
  <2>2. [at |-> "starts", for |-> NoFetch] \in
          [at : {"starts", "joins", "waits", "returned"} \cup Fetching, for : Lookups \cup {NoFetch}]
    OBVIOUS
  <2>3. SeasonsTypeOK
    BY <2>1, <2>2, SeasonsAssumption DEF SeasonsInit, SeasonsTypeOK
  <2> QED
    BY <2>3 DEF SeasonsInit, SeasonsInv, CacheIsSound, UnderWay, FetchIsSound, WaitIsSound, AnswerIsSound,
                Fetching, NotFetched
<1>2. SeasonsInv /\ [SeasonsNext]_seasonVars => SeasonsInv'
  <2> SUFFICES ASSUME SeasonsInv, [SeasonsNext]_seasonVars PROVE SeasonsInv'
    OBVIOUS
  <2>1. CASE UNCHANGED seasonVars
    <3>1. SeasonsTypeOK' /\ CacheIsSound'
      BY <2>1 DEF seasonVars, SeasonsInv, SeasonsTypeOK, CacheIsSound, UnderWay
    <3>2. AllPages' = AllPages /\ WholeSeason' = WholeSeason
      BY <2>1 DEF seasonVars, AllPages, MorePages, PagesOf, WholeSeason, Smaller
    <3>3. ASSUME NEW l \in Lookups PROVE FetchIsSound(l)' /\ WaitIsSound(l)' /\ AnswerIsSound(l)'
      BY <2>1, <3>2 DEF seasonVars, SeasonsInv, FetchIsSound, PagesAreAsked, WaitIsSound, AnswerIsSound
    <3> QED
      BY <3>1, <3>3 DEF SeasonsInv
  <2>2. ASSUME NEW l \in Lookups, EndLookup(l) \/ LookupStep(l) PROVE SeasonsInv'
    BY <2>2, LookupBegins, FetchStarts, PageRead, FetchDropped, FetchCloses, WaitEnds DEF LookupStep
  <2> QED
    BY <2>1, <2>2 DEF SeasonsNext
<1>3. SeasonsInv => LookupsAreServed
  <2> SUFFICES ASSUME SeasonsInv PROVE LookupsAreServed
    OBVIOUS
  <2>1. ASSUME NEW m \in Months, Finished(m) PROVE fetch[cached[m]].err = "none"
    <3>1. /\ cached[m] \in Lookups /\ cached[m] # NoFetch /\ fetch[cached[m]].done
          /\ ~UnderWay(cached[m]) => fetch[cached[m]].err = "none"
      BY <2>1 DEF SeasonsInv, SeasonsTypeOK, CacheIsSound, Finished
    <3>2. FetchIsSound(cached[m])
      BY <3>1 DEF SeasonsInv
    <3> QED
      BY <3>1, <3>2 DEF FetchIsSound, UnderWay, Fetching
  <2>2. SeasonIsShared
    BY <2>1 DEF SeasonsInv, CacheIsSound, SeasonIsShared
  <2> QED
    BY <2>2 DEF SeasonsInv, AnswerIsSound, SeasonIsWhole, LookupsAreServed
<1> QED
  BY <1>1, <1>2, <1>3, PTL DEF SeasonsSpec

=============================================================================
