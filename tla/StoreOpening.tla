---------------------------- MODULE StoreOpening ----------------------------
(* Opening the SQLite store: one opening at a time behind openGate, the       *)
(* database file prepared, then every missing migration applied in one        *)
(* transaction.  The program may be killed between any two steps, and each    *)
(* step may fail; what is on disk is then what the next opening finds.        *)
EXTENDS Naturals

CONSTANTS
    Latest,      \* the newest migration this program knows (11 in the code)
    MaxOpenings  \* bound: how often the store is opened

ASSUME OpeningAssumption == Latest \in Nat \ {0} /\ MaxOpenings \in Nat

VARIABLES
    file,     \* the schema on disk
    draft,    \* the schema inside the opening's transaction
    opening,  \* the step the opening is at, or how the store stands
    created,  \* this opening made the file
    openings, \* openings begun so far
    given     \* the file the program found at first, or last left open

opened == <<file, draft, opening, created, openings, given>>

\* A schema: whether the file and its table of applied migrations exist, how
\* many are recorded, and whether anything but those migrations made it.
Schemas == [exists : BOOLEAN, tracked : BOOLEAN, applied : 0..(Latest + 1), altered : BOOLEAN]
NoFile  == [exists |-> FALSE, tracked |-> FALSE, applied |-> 0, altered |-> FALSE]
Empty   == [exists |-> TRUE, tracked |-> FALSE, applied |-> 0, altered |-> FALSE]
Foreign == [exists |-> TRUE, tracked |-> FALSE, applied |-> 0, altered |-> TRUE]

\* What a first start may find: nothing, an empty file, the file of an older
\* or newer program, the file of another program, or a schema changed since.
Found == {NoFile, Empty, Foreign} \cup
         [exists : {TRUE}, tracked : {TRUE}, applied : 1..(Latest + 1), altered : BOOLEAN]

OpeningInit ==
    /\ file \in Found /\ given = file
    /\ draft = NoFile /\ opening = "shut" /\ created = FALSE /\ openings = 0

\* The gate is taken, unless an opening or an open store is there already.
OpenBegin ==
    /\ opening \in {"shut", "refused"} /\ openings < MaxOpenings
    /\ opening' = "prepare" /\ openings' = openings + 1 /\ created' = FALSE
    /\ UNCHANGED <<file, draft, given>>

\* O_CREATE|O_EXCL makes an empty file or finds one.
PrepareFile ==
    /\ opening = "prepare"
    /\ created' = ~file.exists
    /\ file' = IF file.exists THEN file ELSE Empty
    /\ opening' = "begin"
    /\ UNCHANGED <<draft, openings, given>>

BeginMigration ==
    /\ opening = "begin"
    /\ draft' = file /\ opening' = "check"
    /\ UNCHANGED <<file, created, openings, given>>

\* A tracked file must have a record; one without tracking must be new, or
\* hold no tables at all.
Usable == IF draft.tracked THEN draft.applied # 0 ELSE created \/ ~draft.altered

\* Fault: the fingerprint of the schema is not compared.
BlindRecognised == draft.applied <= Latest

\* The recorded migrations must be known ones, and the schema their result.
Recognised == draft.applied <= Latest /\ (draft.applied > 0 => ~draft.altered)

Refuse ==
    /\ draft' = NoFile /\ opening' = "refused"
    /\ UNCHANGED <<file, created, openings, given>>

CheckSchema ==
    /\ opening = "check"
    /\ \/ /\ Usable /\ Recognised
          /\ draft' = [draft EXCEPT !.tracked = TRUE]
          /\ opening' = "apply"
          /\ UNCHANGED <<file, created, openings, given>>
       \/ ~(Usable /\ Recognised) /\ Refuse

ApplyMigration ==
    /\ opening = "apply" /\ draft.applied < Latest
    /\ draft' = [draft EXCEPT !.applied = @ + 1]
    /\ UNCHANGED <<file, opening, created, openings, given>>

CommitMigration ==
    /\ opening = "apply" /\ draft.applied = Latest
    /\ file' = draft /\ given' = draft /\ draft' = NoFile
    /\ opening' = "open" /\ created' = FALSE
    /\ UNCHANGED openings

\* Any step may fail or be cancelled; the transaction is rolled back.
OpenFails ==
    /\ opening \in {"prepare", "begin", "check", "apply"}
    /\ opening' = "shut" /\ draft' = NoFile
    /\ UNCHANGED <<file, created, openings, given>>

\* The program is killed: what was not committed is gone.
OpeningKilled ==
    /\ opening' = "shut" /\ draft' = NoFile
    /\ UNCHANGED <<file, created, openings, given>>

OpeningStep == \/ OpenBegin \/ PrepareFile \/ BeginMigration \/ CheckSchema
               \/ ApplyMigration \/ CommitMigration \/ OpenFails

(***************************************************************************)
(* Properties.                                                             *)
(***************************************************************************)
Ours(schema) == ~schema.altered /\ schema.applied <= Latest

OpeningTypeOK ==
    /\ file \in Schemas /\ draft \in Schemas /\ given \in Schemas
    /\ opening \in {"shut", "prepare", "begin", "check", "apply", "open", "refused"}
    /\ created \in BOOLEAN /\ openings \in 0..MaxOpenings

\* A file of this program is never refused, wherever an earlier opening of it
\* was killed or failed; and an open store has every migration.  (migrate's
\* checks of the tracking table, the user objects and the fingerprint.)
OwnFileOpens == /\ opening = "refused" => ~Ours(given)
                /\ opening = "open" => Ours(given) /\ file.applied = Latest

\* A file another program, a newer version or a hand has made is never changed,
\* and no file goes back to fewer migrations.
OthersAreUntouched ==
    [][/\ ~Ours(file) => UNCHANGED file
       /\ file'.applied >= file.applied]_opened
=============================================================================
