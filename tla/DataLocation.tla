---------------------------- MODULE DataLocation ----------------------------
(***************************************************************************)
(* The portable data folder of the desktop application: which folder a     *)
(* start opens (apps/desktop/backend/portable.go, portable_location.go),   *)
(* how a move of the data takes the open database to another folder        *)
(* (data_location.go, adapters/persistence/sqlite/snapshot.go), and the    *)
(* guard that keeps writes out of the old database afterwards              *)
(* (store_guard.go).  The process may die between any two steps; a step    *)
(* here is one change of the file system, of the store or of the           *)
(* Service's memory.                                                       *)
(*                                                                         *)
(* A database is the set of writes it holds.  Its file holds some of them  *)
(* and its -wal file the rest, as in SQLite's WAL mode; the -shm file,     *)
(* which holds no data, is left out.  Only one process runs at a time.     *)
(***************************************************************************)
EXTENDS Naturals

CONSTANTS
    Folders,      \* the folders that can hold the data
    Default,      \* the one next to the executable
    Writes,       \* the writes the running application makes, each once
    Kept,         \* what a folder chosen by the user may hold already
    Stamps,       \* the seconds a backup can be named after
    None,         \* no file
    Zero,         \* a file of no bytes
    Junk          \* a regular file that is no database of this application

ASSUME DefaultAssumption == Default \in Folders
ASSUME DataAssumption == Writes \cap Kept = {}
ASSUME FileAssumption ==
    /\ None # Zero /\ None # Junk /\ Zero # Junk
    /\ {None, Zero, Junk} \cap (Folders \cup Stamps) = {}
    /\ \A d \in SUBSET (Writes \cup Kept) : d \notin {None, Zero, Junk}

Data == Writes \cup Kept

VARIABLES
    disk,       \* folder -> its database file and -wal file
    backups,    \* folder and second -> the pair renamed there
    location,   \* the folder data-location.txt names, or None
    plugged,    \* the folders that are there
    app,        \* "off", "asking", "window", "created" or "running"
    plan,       \* Service.plan: dir, custom, and whether the file existed
    opened,     \* the folder of the open database
    dataMoved,  \* Service.dataMoved
    writer,     \* write -> how far its call is
    move,       \* the MoveDataLocation that runs or has succeeded, or NoMove
    expected,   \* history: the writes the user was told are in the data
    racing,     \* history: writes past the guard when the move set dataMoved
    late        \* history: the same, of every move that succeeded

vars == <<disk, backups, location, plugged, app, plan, opened, dataMoved,
          writer, move, expected, racing, late>>
files == <<disk, backups>>
history == <<expected, racing, late>>

Steps == {"idle", "use", "renameMain", "renameWal", "vacuum", "install",
          "undo", "commit", "done"}
Resting == {"idle", "done"}
NoMove == [step |-> "idle", dir |-> Default, restore |-> FALSE,
           use |-> FALSE, stamp |-> None, staged |-> None]
NoPlan == [dir |-> None, custom |-> FALSE, exists |-> FALSE]

-----------------------------------------------------------------------------
(* What the files hold.                                                    *)

IsDatabase(file) == file \notin {None, Zero, Junk}

Held(file) == IF IsDatabase(file) THEN file ELSE {}

Contents(f) ==
    IF IsDatabase(disk[f].main)
    THEN disk[f].main \cup Held(disk[f].wal) ELSE {}

\* readDataLocation: a location file that names an unusable folder never
\* falls back to the default by itself.
Missing ==
    /\ location # None
    /\ location \in plugged => disk[location].main = None

Configured == IF location = None THEN Default ELSE location

PlanFor(dir, custom) ==
    [dir |-> dir, custom |-> custom, exists |-> disk[dir].main # None]

Init ==
    /\ disk \in [Folders ->
                   [main : {None, Junk} \cup SUBSET Kept, wal : {None} \cup SUBSET Kept]]
    /\ disk[Default] = [main |-> None, wal |-> None]
    /\ \A f \in Folders : disk[f].wal # None => IsDatabase(disk[f].main)
    /\ backups = [p \in Folders \X Stamps |-> [main |-> None, wal |-> None]]
    /\ location = None
    /\ plugged = Folders
    /\ app = "off"
    /\ plan = NoPlan
    /\ opened = None
    /\ dataMoved = FALSE
    /\ writer = [w \in Writes |-> "idle"]
    /\ move = NoMove
    /\ expected = {} /\ racing = {} /\ late = {}

-----------------------------------------------------------------------------
(* Starting: planPortable, the question about a missing folder, CreateFresh *)
(* and the opening of the store.                                           *)

Launch ==
    /\ app = "off"
    /\ IF Missing
       THEN app' = "asking" /\ plan' = NoPlan
       ELSE app' = "window" /\ plan' = PlanFor(Configured, location # None)
    /\ UNCHANGED <<files, location, plugged, opened, dataMoved, writer, move, history>>

\* UseDefaultLocation: the file is removed and the plan is made again.
AnswerDefault ==
    /\ app = "asking"
    /\ location' = None
    /\ plan' = PlanFor(Default, FALSE)
    /\ app' = "window"
    /\ expected' = Contents(Default)
    /\ UNCHANGED <<files, plugged, opened, dataMoved, writer, move, racing, late>>

\* The question answered with Quit, or the start window closed.
Quit ==
    /\ app \in {"asking", "window"}
    /\ app' = "off"
    /\ plan' = NoPlan
    /\ UNCHANGED <<files, location, plugged, opened, dataMoved, writer, move, history>>

\* O_EXCL: a file that is there is never opened.
CreateFresh ==
    /\ app = "window"
    /\ ~plan.exists
    /\ disk[plan.dir].main = None
    /\ disk' = [disk EXCEPT ![plan.dir].main = Zero]
    /\ app' = "created"
    /\ UNCHANGED <<backups, location, plugged, plan, opened, dataMoved, writer, move, history>>

\* sqlite.Open with its migrations.  SQLite drops the -wal file of an empty
\* database file.
OpenStore ==
    /\ app = "created" \/ (app = "window" /\ plan.exists)
    /\ disk[plan.dir].main # Junk
    /\ disk' = IF disk[plan.dir].main = Zero
               THEN [disk EXCEPT ![plan.dir] = [main |-> {}, wal |-> None]] ELSE disk
    /\ opened' = plan.dir
    /\ dataMoved' = FALSE
    /\ app' = "running"
    /\ UNCHANGED <<backups, location, plugged, plan, writer, move, history>>

\* finishStartup with an error: the window lets the user try again, with the
\* plan it has.
OpenFails ==
    /\ app = "created"
    /\ app' = "window"
    /\ UNCHANGED <<files, location, plugged, plan, opened, dataMoved, writer, move, history>>

-----------------------------------------------------------------------------
(* Writing through the writeGuard: the check and the store are two steps.  *)

\* Fault: A write that the guard lets through after the move.
LeakyGuard == opened # None

MayWrite == ~dataMoved

CheckGuard(w) ==
    /\ app = "running"
    /\ writer[w] = "idle"
    /\ writer' = [writer EXCEPT ![w] = IF MayWrite THEN "passed" ELSE "refused"]
    /\ UNCHANGED <<files, location, plugged, app, plan, opened, dataMoved, move, history>>

\* The transaction commits, and the caller hears of it.
Store(w) ==
    /\ writer[w] = "passed"
    /\ disk' = [disk EXCEPT ![opened].wal = Held(@) \cup {w}]
    /\ writer' = [writer EXCEPT ![w] = "stored"]
    /\ expected' = expected \cup {w}
    /\ UNCHANGED <<backups, location, plugged, app, plan, opened, dataMoved, move, racing, late>>

StoreFails(w) ==
    /\ writer[w] = "passed"
    /\ writer' = [writer EXCEPT ![w] = "failed"]
    /\ UNCHANGED <<files, location, plugged, app, plan, opened, dataMoved, move, history>>

-----------------------------------------------------------------------------
(* MoveDataLocation.                                                       *)

\* PrepareRestoreDefault and PrepareLocationChange.
Allowed(dir, restore) ==
    /\ restore => dir = Default /\ plan.custom
    /\ dir \in plugged
    /\ dir \notin {plan.dir, opened}
    /\ disk[dir].main = None => disk[dir].wal = None

FirstStep(dir, existing) ==
    IF disk[dir].main = None THEN "vacuum" ELSE IF existing = "use" THEN "use" ELSE "renameMain"

\* Up to the point where writes are refused.  A folder with data and no
\* answer yet only asks, and changes nothing.
BeginMove(dir, restore, existing) ==
    /\ app = "running"
    /\ move.step \in Resting
    /\ ~dataMoved
    /\ Allowed(dir, restore)
    /\ disk[dir].main # None => existing # ""
    /\ dataMoved' = TRUE
    /\ move' = [NoMove EXCEPT !.step = FirstStep(dir, existing), !.dir = dir,
                              !.restore = restore, !.use = existing = "use" /\ disk[dir].main # None]
    /\ racing' = {w \in Writes : writer[w] = "passed"}
    /\ UNCHANGED <<files, location, plugged, app, plan, opened, writer, expected, late>>

\* ValidateDatabase.
Validates(f) == IsDatabase(disk[f].main)

UseExisting ==
    /\ move.step = "use"
    /\ Validates(move.dir)
    /\ move' = [move EXCEPT !.step = "commit"]
    /\ UNCHANGED <<files, location, plugged, app, plan, opened, dataMoved, writer, history>>

\* Fault: A backup that may replace an earlier one of the same second.
AnyStamp(stamp) == stamp \in Stamps

StampIsFree(stamp) == backups[<<move.dir, stamp>>] = [main |-> None, wal |-> None]

\* backUpExisting.  A rename replaces what has the new name.
RenameMain(stamp) ==
    /\ move.step = "renameMain"
    /\ StampIsFree(stamp)
    /\ backups' = [backups EXCEPT ![<<move.dir, stamp>>].main = disk[move.dir].main]
    /\ disk' = [disk EXCEPT ![move.dir].main = None]
    /\ move' = [move EXCEPT !.step = "renameWal", !.stamp = stamp]
    /\ UNCHANGED <<location, plugged, app, plan, opened, dataMoved, writer, history>>

RenameWal ==
    /\ move.step = "renameWal"
    /\ backups' = IF disk[move.dir].wal = None THEN backups
                  ELSE [backups EXCEPT ![<<move.dir, move.stamp>>].wal = disk[move.dir].wal]
    /\ disk' = [disk EXCEPT ![move.dir].wal = None]
    /\ move' = [move EXCEPT !.step = "vacuum"]
    /\ UNCHANGED <<location, plugged, app, plan, opened, dataMoved, writer, history>>

\* SnapshotTo: the store's one connection copies one consistent state to a
\* staging file ...
Vacuum ==
    /\ move.step = "vacuum"
    /\ move' = [move EXCEPT !.step = "install", !.staged = Contents(opened)]
    /\ UNCHANGED <<files, location, plugged, app, plan, opened, dataMoved, writer, history>>

\* ... which then gets its name, and never another file's.
Install ==
    /\ move.step = "install"
    /\ disk[move.dir].main = None
    /\ disk' = [disk EXCEPT ![move.dir].main = move.staged]
    /\ move' = [move EXCEPT !.step = "commit", !.staged = None]
    /\ UNCHANGED <<backups, location, plugged, app, plan, opened, dataMoved, writer, history>>

\* Any step may fail.  Renames that were done are undone; a commit that fails
\* leaves them, and the snapshot, as they are.
StepFails ==
    /\ move.step \notin Resting \cup {"undo"}
    /\ IF move.stamp # None /\ move.step # "commit"
       THEN move' = [move EXCEPT !.step = "undo", !.staged = None] /\ UNCHANGED <<dataMoved, racing>>
       ELSE move' = NoMove /\ dataMoved' = FALSE /\ racing' = {}
    /\ UNCHANGED <<files, location, plugged, app, plan, opened, writer, expected, late>>

\* undoRenames: last first, and a rename that fails is left at that.
Undo(back) ==
    LET backup == backups[<<move.dir, move.stamp>>]
        main   == "main" \in back /\ backup.main # None
        wal    == "wal" \in back /\ backup.wal # None
    IN  /\ move.step = "undo"
        /\ disk' = [disk EXCEPT ![move.dir] = [main |-> IF main THEN backup.main ELSE @.main,
                                               wal  |-> IF wal THEN backup.wal ELSE @.wal]]
        /\ backups' = [backups EXCEPT ![<<move.dir, move.stamp>>] =
                         [main |-> IF main THEN None ELSE @.main, wal |-> IF wal THEN None ELSE @.wal]]
        /\ move' = NoMove
        /\ dataMoved' = FALSE
        /\ racing' = {}
        /\ UNCHANGED <<location, plugged, app, plan, opened, writer, expected, late>>

\* commit: data-location.txt is replaced or removed in one step.
Commit ==
    /\ move.step = "commit"
    /\ location' = IF move.restore THEN None ELSE move.dir
    /\ plan' = [plan EXCEPT !.dir = move.dir, !.custom = ~move.restore]
    /\ move' = [move EXCEPT !.step = "done"]
    /\ expected' = IF move.use THEN Contents(move.dir) ELSE expected
    /\ late' = late \cup racing
    /\ racing' = {}
    /\ UNCHANGED <<files, plugged, app, opened, dataMoved, writer>>

-----------------------------------------------------------------------------
(* The end of the process.                                                 *)

Stopped ==
    /\ app' = "off"
    /\ plan' = NoPlan
    /\ opened' = None
    /\ dataMoved' = FALSE
    /\ move' = NoMove
    /\ racing' = {}
    /\ UNCHANGED <<backups, location, plugged, expected>>

\* Service.Close waits for the operations, then closes the store; SQLite
\* moves the -wal file's pages into the database as it closes.
Close ==
    /\ app = "running"
    /\ move.step \in Resting
    /\ \A w \in Writes : writer[w] # "passed"
    /\ disk' = [disk EXCEPT ![opened] = [main |-> Contents(opened), wal |-> None]]
    /\ Stopped
    /\ UNCHANGED <<writer, late>>

\* A write whose caller hears nothing is not counted on.
Crash ==
    /\ app # "off"
    /\ Stopped
    /\ writer' = [w \in Writes |-> IF writer[w] = "passed" THEN "failed" ELSE writer[w]]
    /\ UNCHANGED <<disk, late>>

\* The drive of a chosen folder comes and goes while nothing runs.
Plug(f) ==
    /\ app = "off"
    /\ f # Default
    /\ plugged' = IF f \in plugged THEN plugged \ {f} ELSE plugged \cup {f}
    /\ UNCHANGED <<files, location, app, plan, opened, dataMoved, writer, move, history>>

Next ==
    \/ Launch \/ AnswerDefault \/ Quit \/ CreateFresh \/ OpenStore \/ OpenFails
    \/ \E w \in Writes : CheckGuard(w) \/ Store(w) \/ StoreFails(w)
    \/ \E dir \in Folders, restore \in BOOLEAN, existing \in {"", "use", "overwrite"} :
          BeginMove(dir, restore, existing)
    \/ UseExisting
    \/ \E stamp \in Stamps : RenameMain(stamp)
    \/ RenameWal \/ Vacuum \/ Install \/ StepFails
    \/ \E back \in SUBSET {"main", "wal"} : Undo(back)
    \/ Commit \/ Close \/ Crash
    \/ \E f \in Folders : Plug(f)

Spec == Init /\ [][Next]_vars

-----------------------------------------------------------------------------
(* Properties.                                                             *)

File == {None, Zero, Junk} \cup SUBSET Data
Pair == [main : File, wal : {None} \cup SUBSET Data]

\* Every variable has its type, a staged copy exists exactly while the
\* snapshot waits for its name, and a move runs only in a running process
\* that refuses writes.
TypeOK ==
    /\ disk \in [Folders -> Pair]
    /\ backups \in [Folders \X Stamps -> Pair]
    /\ location \in Folders \cup {None}
    /\ plugged \subseteq Folders
    /\ app \in {"off", "asking", "window", "created", "running"}
    /\ plan \in [dir : Folders \cup {None}, custom : BOOLEAN, exists : BOOLEAN]
    /\ opened \in Folders \cup {None}
    /\ (opened # None) = (app = "running")
    /\ dataMoved \in BOOLEAN
    /\ writer \in [Writes -> {"idle", "passed", "refused", "stored", "failed"}]
    /\ move \in [step : Steps, dir : Folders, restore : BOOLEAN, use : BOOLEAN,
                 stamp : Stamps \cup {None}, staged : {None} \cup SUBSET Data]
    /\ (move.staged # None) = (move.step = "install")
    /\ move.step # "idle" => app = "running" /\ dataMoved
    /\ expected \subseteq Data /\ racing \subseteq Writes /\ late \subseteq Writes

\* No step of a move takes a file's data off the disk: not the backup of a
\* database that is overwritten, nor one made in the same second, nor an
\* undo ("Nothing is deleted", OverwriteWithCurrent).
FilesOf(pairs) == {pairs[p].main : p \in DOMAIN pairs} \cup {pairs[p].wal : p \in DOMAIN pairs}
AllFiles == FilesOf(disk) \cup FilesOf(backups)

NothingIsDeleted ==
    [][move.step \notin Resting => \A file \in AllFiles : file \notin {None, Zero} =>
          \E held \in AllFiles' : held = file \/ (IsDatabase(file) /\ file \subseteq Held(held))]_vars

\* What the user was told is in the data is in the database the next start
\* opens, whenever the process dies: through every step of a move, its
\* failures and its restarts.  Left out are the writes that were past the
\* guard when the move began.  data-location.txt never names a folder without
\* a usable database, however a move ended.  Between moves the folder the
\* running application reports is the one the next start opens, and writes are
\* refused exactly if that is another database than the open one.
ExpectedIsOpened ==
    /\ TypeOK
    /\ ~Missing => expected \ late \subseteq Contents(Configured)
    /\ location # None => IsDatabase(disk[location].main)
    /\ app = "running" /\ move.step \in Resting =>
          plan.dir = Configured /\ (dataMoved <=> plan.dir # opened)

\* data_location.go:97-98: "a write that waits for the store while the
\* snapshot runs must not succeed into the old database afterwards", where the
\* next start would not find it.
WaitingWriteIsKept ==
    move.step = "done" /\ ~move.use => expected \subseteq Contents(move.dir)

=============================================================================
