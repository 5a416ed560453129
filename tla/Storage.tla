------------------------------ MODULE Storage ------------------------------
(* The open SQLite store: operations that run their statements one by one on  *)
(* the one connection, in a transaction or outside of one, while others wait; *)
(* Close, which waits for them; and the program killed between any two        *)
(* statements.  Tables hold one source's anime and episode, the progress of   *)
(* two episodes, and one followed anime, as far as the statements look.       *)
EXTENDS StoreOpening, Sequences, FiniteSets

CONSTANTS
    CallCount,  \* bound: the operations asked of the store
    Work,       \* the operations those may be
    Stamps, Positions

Calls    == 1..CallCount  \* in the order in which they are asked for
None     == 0
Known    == CallCount + 1 \* the two anime stored from the start; an ingested
Other    == CallCount + 2 \* one, and a new episode, is named by its call
AnimeIDs == Calls \cup {Known, Other}
Episodes == {"known", "other"}
AnimeOf  == [e \in Episodes |-> IF e = "known" THEN Known ELSE Other]
NoRecord == [stamp |-> 0, position |-> 0, completed |-> FALSE]
Entries  == [stamp : Stamps, position : Positions, completed : BOOLEAN]
NoMapping == [anime |-> None, episode |-> None, numbered |-> FALSE, seen |-> None]

VARIABLES
    db,      \* the committed tables
    tx,      \* the call whose transaction holds the connection, or None
    work,    \* the tables as that transaction sees them
    job,     \* the operation of each call under way, else "none"
    at,      \* its statement; 0 before it, 1 once it has returned
    arg,     \* the anime, episode and progress a call is about
    merged,  \* the record a checkpoint has computed
    closing  \* Store.Close waits for the active calls

calls == <<job, at, arg, merged>>
vars  == <<opened, db, tx, work, calls, closing>>

(***************************************************************************)
(* The operations as their statements.                                     *)
(***************************************************************************)
\* Fault: the two rows of a checkpoint are saved outside a transaction.
LooseCheckpoint == <<"anime", "load", "putProgress", "putHistory">>

SavePlaybackCheckpoint == <<"begin", "anime", "load", "putProgress", "putHistory", "commit">>
RemoveHistory      == <<"anime", "begin", "dropHistory", "dropProgress", "commit">>
IngestSourceAnime  == <<"begin", "putSource", "commit">>
SaveSourceRef      == <<"anime", "claimSource">>
SaveEpisodeMapping == <<"anime", "sourceOf", "insertMapping", "whoMapped", "putNumber">>
SaveMetadata       == <<"anime", "putMetadata">>
Follow             == <<"anime", "putFollowing">>
Unfollow           == <<"anime", "dropFollowing">>
ReplaceSchedule    == <<"begin", "dropSchedule", "putSchedule", "putSchedule", "commit">>
SaveAnime          == <<"query">>
SaveSettings       == <<"query">>
ListAll            == <<"query">>  \* queryAll: History, Following, Schedule, ...
ReadOne            == <<"query">>  \* Anime, Progress, Metadata, Settings

Statements == [SavePlaybackCheckpoint |-> SavePlaybackCheckpoint, RemoveHistory |-> RemoveHistory,
               IngestSourceAnime |-> IngestSourceAnime, SaveSourceRef |-> SaveSourceRef,
               SaveEpisodeMapping |-> SaveEpisodeMapping, SaveMetadata |-> SaveMetadata,
               Follow |-> Follow, Unfollow |-> Unfollow, ReplaceSchedule |-> ReplaceSchedule,
               SaveAnime |-> SaveAnime, SaveSettings |-> SaveSettings,
               ListAll |-> ListAll, ReadOne |-> ReadOne]

ASSUME StorageAssumption ==
    /\ CallCount \in Nat /\ Work \subseteq DOMAIN Statements
    /\ Stamps \subseteq Nat \ {0} /\ Positions \subseteq Nat

Active     == {c \in Calls : job[c] # "none"}
IsAt(c, s) == c \in Active /\ Statements[job[c]][at[c]] = s
NoArg      == [anime |-> Known, episode |-> None, numbered |-> FALSE, progress |-> NoRecord]

Init ==
    /\ OpeningInit
    /\ \E source \in {None, Known} :
          db = [library |-> {Known, Other}, source |-> source, mapping |-> NoMapping,
                progress |-> [e \in Episodes |-> NoRecord],
                history |-> [e \in Episodes |-> NoRecord],
                metadata |-> None, followed |-> None, schedule |-> <<>>]
    /\ tx = None /\ work = db
    /\ job = [c \in Calls |-> "none"] /\ at = [c \in Calls |-> 0]
    /\ arg = [c \in Calls |-> NoArg] /\ merged = [c \in Calls |-> NoRecord]
    /\ closing = FALSE

\* What a call may be about: progress of an episode, an episode of the source
\* by a new or by the stored id, or an anime of the library.
Args(c, w) ==
    IF w = "SavePlaybackCheckpoint"
    THEN {a \in [anime : {Known, Other}, episode : Episodes, numbered : {FALSE}, progress : Entries] :
             a.anime = AnimeOf[a.episode]}
    ELSE IF w = "SaveEpisodeMapping"
    THEN [anime : {Known, db.source} \ {None}, episode : {c, db.mapping.episode} \ {None},
          numbered : BOOLEAN, progress : {NoRecord}]
    ELSE IF w \in {"SaveSourceRef", "SaveMetadata"}
    THEN [anime : {Known, Other}, episode : {None}, numbered : {FALSE}, progress : {NoRecord}]
    ELSE {NoArg}

\* Store.begin: one more active call, unless the store was closed.
Begin(c) ==
    /\ opening = "open" /\ at[c] = 0 /\ \A d \in 1..(c - 1) : at[d] # 0
    /\ at' = [at EXCEPT ![c] = 1]
    /\ \/ closing /\ UNCHANGED <<job, arg>>
       \/ /\ ~closing
          /\ \E w \in Work : \E a \in Args(c, w) :
                job' = [job EXCEPT ![c] = w] /\ arg' = [arg EXCEPT ![c] = a]
    /\ UNCHANGED <<opened, db, tx, work, merged, closing>>

\* Fault: a call that fails does not roll its transaction back.
HeldEnd(c) ==
    /\ job' = [job EXCEPT ![c] = "none"] /\ at' = [at EXCEPT ![c] = 1]
    /\ arg' = [arg EXCEPT ![c] = NoArg] /\ merged' = [merged EXCEPT ![c] = NoRecord]
    /\ UNCHANGED tx

\* Store.end, with the rollback of a transaction that was not committed.
End(c) ==
    /\ job' = [job EXCEPT ![c] = "none"] /\ at' = [at EXCEPT ![c] = 1]
    /\ arg' = [arg EXCEPT ![c] = NoArg] /\ merged' = [merged EXCEPT ![c] = NoRecord]
    /\ tx' = IF tx = c THEN None ELSE tx

\* After the last statement the call returns; else the next one follows.
Follows(c) ==
    IF at[c] = Len(Statements[job[c]]) THEN End(c)
    ELSE at' = [at EXCEPT ![c] = @ + 1] /\ UNCHANGED <<tx, job, arg, merged>>

\* What a call sees: its own transaction, else the committed tables.
View(c)       == IF tx = c THEN work ELSE db
CanExecute(c) == tx \in {None, c}  \* the one connection is free, or its own

\* A statement leaves these tables to whom it may concern.
Leaves(c, tables) ==
    /\ CanExecute(c)
    /\ IF tx = c THEN work' = tables /\ UNCHANGED db ELSE db' = tables /\ UNCHANGED work
    /\ UNCHANGED <<opened, closing>>

Executes(c, tables) == Leaves(c, tables) /\ Follows(c)
Returns(c, tables)  == Leaves(c, tables) /\ End(c)

\* A statement fails, or the context of the call is cancelled before it.
Fails(c) ==
    /\ c \in Active
    /\ End(c)
    /\ UNCHANGED <<opened, db, work, closing>>

\* BEGIN IMMEDIATE, or BeginTx: the connection is the call's until it ends.
BeginTransaction(c) ==
    /\ IsAt(c, "begin") /\ tx = None
    /\ tx' = c /\ work' = db
    /\ at' = [at EXCEPT ![c] = @ + 1]
    /\ UNCHANGED <<opened, db, job, arg, merged, closing>>

Commit(c) ==
    /\ IsAt(c, "commit") /\ tx = c
    /\ db' = work /\ End(c)
    /\ UNCHANGED <<opened, work, closing>>

\* A query, or a write of a row no other statement looks at.
Query(c) == IsAt(c, "query") /\ Executes(c, View(c))

RequireAnime(c) == IsAt(c, "anime") /\ arg[c].anime \in View(c).library /\ Executes(c, View(c))

(***************************************************************************)
(* Playback progress, in its two tables.                                   *)
(***************************************************************************)
\* Fault: the position of the save that comes last is kept.
LastMerge(current, incoming) ==
    [incoming EXCEPT !.completed = current.completed \/ incoming.completed]

\* mergeCheckpointProgress: the newer time wins, equal times keep the larger
\* position, and what was completed stays so.
MergeCheckpoint(current, incoming) ==
    IF current = NoRecord THEN incoming
    ELSE [(CASE incoming.stamp > current.stamp -> incoming
             [] incoming.stamp < current.stamp -> current
             [] OTHER -> [current EXCEPT !.position =
                            IF incoming.position > @ THEN incoming.position ELSE @])
             EXCEPT !.completed = current.completed \/ incoming.completed]

LoadCheckpoint(c) ==
    /\ IsAt(c, "load") /\ CanExecute(c)
    /\ LET e == arg[c].episode
           stored == IF View(c).history[e] = NoRecord THEN View(c).progress[e]
                     ELSE MergeCheckpoint(View(c).progress[e], View(c).history[e])
       IN merged' = [merged EXCEPT ![c] = MergeCheckpoint(stored, arg[c].progress)]
    /\ at' = [at EXCEPT ![c] = @ + 1]
    /\ UNCHANGED <<opened, db, tx, work, job, arg, closing>>

PutProgress(c) ==
    /\ IsAt(c, "putProgress")
    /\ Executes(c, [View(c) EXCEPT !.progress[arg[c].episode] = merged[c]])

PutHistory(c) ==
    /\ IsAt(c, "putHistory")
    /\ Executes(c, [View(c) EXCEPT !.history[arg[c].episode] = merged[c]])

Without(records, a) == [e \in Episodes |-> IF AnimeOf[e] = a THEN NoRecord ELSE records[e]]

DropHistory(c) ==
    /\ IsAt(c, "dropHistory")
    /\ Executes(c, [View(c) EXCEPT !.history = Without(@, arg[c].anime)])

DropProgress(c) ==
    /\ IsAt(c, "dropProgress")
    /\ Executes(c, [View(c) EXCEPT !.progress = Without(@, arg[c].anime)])

(***************************************************************************)
(* The anime of the source, its episode, and what hangs on an anime.       *)
(***************************************************************************)
\* The anime the source's reference belongs to, or the candidate and its reference.
PutSource(c) ==
    /\ IsAt(c, "putSource")
    /\ Executes(c, IF View(c).source # None THEN View(c)
                   ELSE [View(c) EXCEPT !.library = @ \cup {c}, !.source = c])

\* A reference another anime has is not claimed: an identity conflict.
ClaimSource(c) ==
    /\ IsAt(c, "claimSource")
    /\ Executes(c, IF View(c).source # None THEN View(c)
                   ELSE [View(c) EXCEPT !.source = arg[c].anime])

SourceOf(c) ==
    /\ IsAt(c, "sourceOf")
    /\ IF View(c).source = arg[c].anime THEN Executes(c, View(c)) ELSE Returns(c, View(c))

\* INSERT ... WHERE NOT EXISTS: a row inserted ends the call.
InsertMapping(c) ==
    /\ IsAt(c, "insertMapping")
    /\ IF View(c).mapping = NoMapping
       THEN Returns(c, [View(c) EXCEPT !.mapping =
                          [anime |-> arg[c].anime, episode |-> arg[c].episode,
                           numbered |-> arg[c].numbered, seen |-> c]])
       ELSE Executes(c, View(c))

\* Another owner is an identity conflict; without a number nothing is saved.
WhoMapped(c) ==
    /\ IsAt(c, "whoMapped")
    /\ IF /\ View(c).mapping.anime = arg[c].anime /\ View(c).mapping.episode = arg[c].episode
          /\ arg[c].numbered
       THEN Executes(c, View(c)) ELSE Returns(c, View(c))

PutNumber(c) ==
    /\ IsAt(c, "putNumber")
    /\ Executes(c, [View(c) EXCEPT !.mapping.numbered = arg[c].numbered])

\* One provider's record belongs to one anime; an anime may get another record.
PutMetadata(c) ==
    /\ IsAt(c, "putMetadata")
    /\ \/ Executes(c, IF View(c).metadata = None THEN [View(c) EXCEPT !.metadata = arg[c].anime]
                      ELSE View(c))
       \/ View(c).metadata = arg[c].anime /\ Executes(c, [View(c) EXCEPT !.metadata = None])

\* ON CONFLICT DO NOTHING keeps the time of the first follow.
PutFollowing(c) ==
    /\ IsAt(c, "putFollowing")
    /\ Executes(c, IF View(c).followed # None THEN View(c) ELSE [View(c) EXCEPT !.followed = c])

DropFollowing(c) ==
    /\ IsAt(c, "dropFollowing")
    /\ Executes(c, [View(c) EXCEPT !.followed = None])

DropSchedule(c) ==
    /\ IsAt(c, "dropSchedule")
    /\ Executes(c, [View(c) EXCEPT !.schedule = <<>>])

PutSchedule(c) ==
    /\ IsAt(c, "putSchedule")
    /\ Executes(c, [View(c) EXCEPT !.schedule = Append(@, c)])

(***************************************************************************)
(* Opening, Close and the killed program.                                  *)
(***************************************************************************)
Open == OpeningStep /\ UNCHANGED <<db, tx, work, calls, closing>>

CloseBegin ==
    /\ opening = "open" /\ ~closing
    /\ closing' = TRUE
    /\ UNCHANGED <<opened, db, tx, work, calls>>

CloseEnd ==
    /\ closing /\ Active = {}
    /\ closing' = FALSE
    /\ opening' = "shut"
    /\ UNCHANGED <<file, draft, created, openings, given, db, tx, work, calls>>

\* Calls under way are gone with the program, and so is an open transaction.
Killed ==
    /\ opening # "shut"
    /\ OpeningKilled
    /\ job' = [c \in Calls |-> "none"] /\ at' = [c \in Calls |-> IF at[c] = 0 THEN 0 ELSE 1]
    /\ arg' = [c \in Calls |-> NoArg] /\ merged' = [c \in Calls |-> NoRecord]
    /\ tx' = None /\ closing' = FALSE
    /\ UNCHANGED <<db, work>>

Statement(c) ==
    \/ BeginTransaction(c) \/ Commit(c) \/ Query(c) \/ RequireAnime(c)
    \/ LoadCheckpoint(c) \/ PutProgress(c) \/ PutHistory(c) \/ DropHistory(c) \/ DropProgress(c)
    \/ PutSource(c) \/ ClaimSource(c) \/ SourceOf(c) \/ InsertMapping(c) \/ WhoMapped(c)
    \/ PutNumber(c) \/ PutMetadata(c) \/ PutFollowing(c) \/ DropFollowing(c)
    \/ DropSchedule(c) \/ PutSchedule(c)

Next == \/ Open \/ CloseBegin \/ CloseEnd \/ Killed
        \/ \E c \in Calls : Begin(c) \/ Statement(c) \/ Fails(c)

Spec == Init /\ [][Next]_vars

\* A statement ends, or its context does; the connection goes to who waits.
FairSpec == Spec /\ WF_vars(\E c \in Calls : Statement(c)) /\ WF_vars(CloseEnd)

(***************************************************************************)
(* Properties.                                                             *)
(***************************************************************************)
Tables == [library : SUBSET AnimeIDs, source : AnimeIDs \cup {None},
           mapping : [anime : AnimeIDs, episode : Calls, numbered : BOOLEAN, seen : Calls]
                       \cup {NoMapping},
           progress : [Episodes -> Entries \cup {NoRecord}],
           history : [Episodes -> Entries \cup {NoRecord}],
           metadata : AnimeIDs \cup {None}, followed : Calls \cup {None}, schedule : Seq(Calls)]
TypeOK ==
    /\ OpeningTypeOK
    /\ db \in Tables /\ work \in Tables
    /\ tx \in Calls \cup {None} /\ closing \in BOOLEAN
    /\ job \in [Calls -> Work \cup {"none"}] /\ at \in [Calls -> 0..6]
    /\ merged \in [Calls -> Entries \cup {NoRecord}]

\* Committed tables agree, wherever an operation failed, was overtaken or was
\* killed: history and progress tell the same of an episode, a mapped episode
\* belongs to the anime its source has, and a schedule is one refresh's, whole.
TablesAgree ==
    /\ TypeOK
    /\ db.progress = db.history
    /\ db.mapping # NoMapping => db.mapping.anime = db.source
    /\ db.source # None => db.source \in db.library
    /\ db.schedule = <<>> \/ \E c \in Calls : db.schedule = <<c, c>>

\* Whatever file is found, what opens is the program's own, of its newest form, and
\* what it holds agrees (runMigrations, and the transactions).
StoreAgrees == OwnFileOpens /\ TablesAgree

\* The progress of the two tables is that of the abstract store: every save is
\* merged in one step, whatever order the saves' times have, every removal is
\* one step, and nothing else changes a record.
Promised == INSTANCE ProgressStore WITH progress <- db.progress
ProgressIsKept == Promised!Spec

\* What other rows name stays: an episode keeps its id, the time it was first
\* seen and a number once learned, a source its anime, a follow its time.
IdentitiesAreKept ==
    [][/\ db.source # None => db'.source = db.source
       /\ db.mapping # NoMapping =>
             /\ db'.mapping.episode = db.mapping.episode
             /\ db'.mapping.seen = db.mapping.seen
             /\ db.mapping.numbered => db'.mapping.numbered
       /\ db.followed # None /\ db'.followed # None => db'.followed = db.followed]_vars

\* Nothing that is not the program's to change is changed: a foreign file, or a name.
OthersAreKept == OthersAreUntouched /\ IdentitiesAreKept

\* Close returns: the calls it waits for end, also those that wait for the
\* connection another one's transaction holds.
CloseReturns == closing ~> ~closing
=============================================================================
