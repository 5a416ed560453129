--------------------------- MODULE StorageProofs ---------------------------
(***************************************************************************)
(* The store, for any number of operations asked of it, of openings and of *)
(* migrations, and any times and positions: what is committed agrees, what *)
(* others name is kept, and progress is kept as ProgressStore promises.    *)
(***************************************************************************)
EXTENDS Integers, Storage, SequenceTheorems, TLAPS

-----------------------------------------------------------------------------
(* The opening. *)

\* What the program found is on disk, but that an opening may have made an
\* empty file; its transaction sees that file until the schema is accepted.
OpeningInv ==
  /\ OpeningTypeOK
  /\ given \in Found
  /\ file = given \/ (given = NoFile /\ file = Empty)
  /\ created => file = Empty
  /\ opening = "prepare" => ~created
  /\ opening \in {"begin", "check", "apply"} => file.exists
  /\ opening = "check" => draft = file
  /\ opening = "apply" => /\ Ours(file) /\ Ours(draft) /\ draft.exists /\ draft.tracked
                          /\ file.applied <= draft.applied
  /\ opening = "open" => file = given
  /\ OwnFileOpens

LEMMA FoundSchemas ==
  /\ \A g \in Found : g \in Schemas
  /\ \A g \in Found : g = NoFile \/ g.exists = TRUE
  /\ NoFile \in Schemas /\ Empty \in Schemas
  /\ NoFile = [exists |-> FALSE, tracked |-> FALSE, applied |-> 0, altered |-> FALSE]
  /\ Empty = [exists |-> TRUE, tracked |-> FALSE, applied |-> 0, altered |-> FALSE]
  /\ \A n \in 1..(Latest + 1), b \in BOOLEAN :
       [exists |-> TRUE, tracked |-> TRUE, applied |-> n, altered |-> b] \in Found
  /\ \A g \in Found : Ours(g) => g \in {NoFile, Empty} \/ (g.exists /\ g.tracked /\ g.applied \in 1..Latest)
<1>1. /\ NoFile = [exists |-> FALSE, tracked |-> FALSE, applied |-> 0, altered |-> FALSE]
      /\ Empty = [exists |-> TRUE, tracked |-> FALSE, applied |-> 0, altered |-> FALSE]
  BY DEF NoFile, Empty
<1>2. NoFile \in Schemas /\ Empty \in Schemas /\ Foreign \in Schemas /\ Foreign.altered
  <2>1. 0 \in 0..(Latest + 1)
    BY OpeningAssumption
  <2> QED
    BY <2>1 DEF Schemas, NoFile, Empty, Foreign
<1>4. ASSUME NEW g \in Found PROVE g \in Schemas
  <2>1. CASE g \in {NoFile, Empty, Foreign}
    BY <1>2, <2>1
  <2>2. CASE g \in [exists : {TRUE}, tracked : {TRUE}, applied : 1..(Latest + 1), altered : BOOLEAN]
    <3>1. 1..(Latest + 1) \subseteq 0..(Latest + 1)
      BY OpeningAssumption
    <3> QED
      BY <2>2, <3>1 DEF Schemas
  <2> QED
    BY <2>1, <2>2 DEF Found
<1>7. ASSUME NEW g \in Found PROVE g = NoFile \/ g.exists = TRUE
  <2>1. CASE g \in {NoFile, Empty, Foreign}
    BY <2>1 DEF Empty, Foreign
  <2>2. CASE g \in [exists : {TRUE}, tracked : {TRUE}, applied : 1..(Latest + 1), altered : BOOLEAN]
    BY <2>2
  <2> QED
    BY <2>1, <2>2 DEF Found
<1>5. ASSUME NEW g \in Found, Ours(g)
      PROVE  g \in {NoFile, Empty} \/ (g.exists /\ g.tracked /\ g.applied \in 1..Latest)
  <2>1. CASE g \in {NoFile, Empty, Foreign}
    BY <1>2, <1>5, <2>1 DEF Ours
  <2>2. CASE g \in [exists : {TRUE}, tracked : {TRUE}, applied : 1..(Latest + 1), altered : BOOLEAN]
    <3>1. g.exists = TRUE /\ g.tracked = TRUE /\ g.applied \in 1..(Latest + 1)
      BY <2>2
    <3>2. g.applied \in 1..Latest
      BY <1>5, <3>1, OpeningAssumption DEF Ours
    <3> QED
      BY <3>1, <3>2
  <2> QED
    BY <2>1, <2>2 DEF Found
<1>6. ASSUME NEW n \in 1..(Latest + 1), NEW b \in BOOLEAN
      PROVE  [exists |-> TRUE, tracked |-> TRUE, applied |-> n, altered |-> b] \in Found
  BY DEF Found
<1> QED
  BY <1>1, <1>2, <1>4, <1>5, <1>6, <1>7

LEMMA OpeningSteps ==
  ASSUME OpeningInv, OpeningStep
  PROVE  OpeningInv' /\ (~Ours(file) => file' = file) /\ file'.applied >= file.applied
<1>0. /\ OpeningTypeOK /\ file.applied \in Nat /\ Latest \in Nat \ {0} /\ given \in Found
      /\ file \in Schemas /\ draft \in Schemas /\ given \in Schemas
  BY OpeningAssumption DEF OpeningInv, OpeningTypeOK, Schemas
<1>1. CASE OpenBegin
  <2>1. /\ opening \in {"shut", "refused"} /\ opening' = "prepare" /\ ~created' /\ created' \in BOOLEAN
        /\ UNCHANGED <<file, draft, given>>
    BY <1>1 DEF OpenBegin
  <2>2. openings' \in 0..MaxOpenings
    BY <1>0, <1>1, OpeningAssumption DEF OpenBegin, OpeningTypeOK
  <2>3. OpeningTypeOK'
    BY <1>0, <2>1, <2>2 DEF OpeningTypeOK
  <2> QED
    BY <1>0, <2>1, <2>3 DEF OpeningInv, OwnFileOpens
<1>2. CASE PrepareFile
  <2>1. CASE file.exists
    BY <1>0, <1>2, <2>1, FoundSchemas DEF PrepareFile, OpeningInv, OpeningTypeOK, OwnFileOpens
  <2>2. CASE ~file.exists
    <3>1. file = NoFile /\ given = NoFile
      BY <2>2, FoundSchemas DEF OpeningInv
    <3>2. file' = Empty /\ created' /\ opening' = "begin" /\ UNCHANGED <<draft, openings, given>>
      BY <1>2, <2>2, <1>0 DEF PrepareFile, Schemas
    <3>3. Empty.exists /\ ~Empty.altered /\ Empty.applied = 0 /\ NoFile.applied = 0 /\ Ours(file)
      BY <3>1, FoundSchemas, <1>0 DEF Ours
    <3> QED
      BY <1>0, <3>1, <3>2, <3>3, FoundSchemas DEF OpeningInv, OpeningTypeOK, OwnFileOpens
  <2> QED
    BY <2>1, <2>2
<1>3. CASE BeginMigration
  BY <1>0, <1>3 DEF BeginMigration, OpeningInv, OpeningTypeOK, OwnFileOpens
<1>4. CASE CheckSchema
  <2>0. opening = "check" /\ draft = file /\ file.exists
    BY <1>4 DEF CheckSchema, OpeningInv
  <2>1. CASE Usable /\ Recognised /\ draft' = [draft EXCEPT !.tracked = TRUE] /\ opening' = "apply"
             /\ UNCHANGED <<file, created, openings, given>>
    <3>1. draft' \in Schemas /\ draft'.exists /\ draft'.tracked /\ draft'.applied = file.applied
          /\ draft'.altered = file.altered
      BY <1>0, <2>0, <2>1 DEF Schemas
    <3>2. ~file.altered /\ file.applied <= Latest
      <4>1. created => file.applied = 0 /\ ~file.altered
        BY FoundSchemas DEF OpeningInv
      <4> QED
        BY <1>0, <2>0, <2>1, <4>1 DEF Usable, Recognised, Schemas
    <3>3. OpeningTypeOK'
      BY <1>0, <2>1, <3>1 DEF OpeningTypeOK
    <3>4. Ours(file)' /\ Ours(draft)' /\ file'.applied <= draft'.applied
      BY <1>0, <2>1, <3>1, <3>2 DEF Ours
    <3> QED
      BY <1>0, <2>0, <2>1, <3>1, <3>3, <3>4 DEF OpeningInv, OwnFileOpens
  <2>2. CASE ~(Usable /\ Recognised) /\ Refuse
    <3>1. ~Ours(given)
      <4> SUFFICES ASSUME Ours(given) PROVE FALSE
        OBVIOUS
      <4>1. CASE file = Empty
        <5>1. ~file.tracked /\ ~file.altered /\ file.applied = 0
          BY <4>1, FoundSchemas
        <5> QED
          BY <1>0, <2>0, <2>2, <5>1 DEF Usable, Recognised
      <4>2. CASE file # Empty
        <5>1. file = given /\ file # NoFile
          BY <2>0, <4>2, FoundSchemas DEF OpeningInv
        <5>2. file.tracked /\ file.applied \in 1..Latest /\ ~file.altered
          BY <1>0, <4>2, <5>1, FoundSchemas DEF Ours
        <5> QED
          BY <1>0, <2>0, <2>2, <5>2 DEF Usable, Recognised
      <4> QED
        BY <4>1, <4>2
    <3> QED
      BY <1>0, <2>2, <3>1, FoundSchemas DEF Refuse, OpeningInv, OpeningTypeOK, OwnFileOpens
  <2> QED
    BY <1>4, <2>1, <2>2 DEF CheckSchema
<1>5. CASE ApplyMigration
  <2>1. draft' = [draft EXCEPT !.applied = @ + 1] /\ draft.applied < Latest /\ opening = "apply"
        /\ UNCHANGED <<file, opening, created, openings, given>>
    BY <1>5 DEF ApplyMigration
  <2>2. draft' \in Schemas /\ draft'.applied = draft.applied + 1 /\ draft'.applied <= Latest
        /\ draft'.altered = draft.altered /\ draft'.exists = draft.exists /\ draft'.tracked = draft.tracked
        /\ draft.applied \in Nat
    BY <1>0, <2>1 DEF Schemas
  <2> QED
    BY <1>0, <2>1, <2>2 DEF OpeningInv, OpeningTypeOK, OwnFileOpens, Ours
<1>6. CASE CommitMigration
  <2>1. file' = draft /\ given' = draft /\ draft' = NoFile /\ opening = "apply" /\ draft.applied = Latest
        /\ opening' = "open" /\ ~created' /\ UNCHANGED openings
    BY <1>6 DEF CommitMigration
  <2>2. draft = [exists |-> TRUE, tracked |-> TRUE, applied |-> Latest, altered |-> FALSE]
    BY <1>0, <2>1 DEF OpeningInv, Ours, Schemas
  <2>3. draft \in Found /\ Ours(draft) /\ Ours(file) /\ file.applied <= draft.applied
    <3>1. Latest \in 1..(Latest + 1)
      BY <1>0
    <3>3. draft \in Found
      BY <2>2, <3>1, FoundSchemas
    <3> QED
      BY <2>1, <3>3 DEF OpeningInv
  <2>4. created' \in BOOLEAN
    BY <1>6 DEF CommitMigration
  <2> QED
    BY <1>0, <2>1, <2>3, <2>4, FoundSchemas DEF OpeningInv, OpeningTypeOK, OwnFileOpens
<1>7. CASE OpenFails
  BY <1>0, <1>7, FoundSchemas DEF OpenFails, OpeningInv, OpeningTypeOK, OwnFileOpens
<1> QED
  BY <1>1, <1>2, <1>3, <1>4, <1>5, <1>6, <1>7 DEF OpeningStep

\* The program is killed, or the store is closed.
LEMMA OpeningEnds ==
  ASSUME OpeningInv, opening' = "shut", draft' \in {draft, NoFile}, UNCHANGED <<file, created, openings, given>>
  PROVE  OpeningInv'
BY FoundSchemas DEF OpeningInv, OpeningTypeOK, OwnFileOpens

LEMMA OpeningKeeps == ASSUME OpeningInv, UNCHANGED opened PROVE OpeningInv'
BY DEF opened, OpeningInv, OpeningTypeOK, OwnFileOpens, Ours

-----------------------------------------------------------------------------
(* The calls. *)

\* Whether a call at its i-th statement has begun its transaction.
Begun(w, i) ==
  \/ w \in {"SavePlaybackCheckpoint", "IngestSourceAnime", "ReplaceSchedule"} /\ i > 1
  \/ w = "RemoveHistory" /\ i > 2

ArgSound(w, a) ==
  /\ w = "SavePlaybackCheckpoint" => a.episode \in Episodes /\ a.progress \in Entries
  /\ w = "SaveEpisodeMapping" =>
       a.anime \in AnimeIDs /\ a.episode \in Calls /\ a.numbered \in BOOLEAN
  /\ w \in {"SaveSourceRef", "SaveMetadata"} => a.anime \in {Known, Other}
  /\ w = "RemoveHistory" => a.anime = Known

\* What a call outside of a transaction has read is still so.
ReadSound(w, i, a, t) ==
  w = "SaveEpisodeMapping" => /\ i >= 3 => t.source = a.anime
                              /\ i >= 4 => t.mapping # NoMapping
                              /\ i = 5 => a.numbered

CallSound(c) ==
  /\ job[c] # "none" => at[c] \in 1..Len(Statements[job[c]])
  /\ tx = c <=> Begun(job[c], at[c])
  /\ ArgSound(job[c], arg[c])
  /\ ReadSound(job[c], at[c], arg[c], db)

\* What the tables are inside the transaction of a call at its i-th statement.
CheckpointSound(i, a, m, t) ==
  LET records == [db.progress EXCEPT ![a.episode] = m]
  IN  /\ i <= 4 => t = db
      /\ i = 5 => t = [db EXCEPT !.progress = records]
      /\ i >= 6 => t = [db EXCEPT !.progress = records, !.history = records]
      /\ i >= 4 => m = MergeCheckpoint(db.progress[a.episode], a.progress)

RemovalSound(i, a, t) ==
  LET records == Without(db.progress, a.anime)
  IN  /\ i <= 3 => t = db
      /\ i = 4 => t = [db EXCEPT !.history = records]
      /\ i >= 5 => t = [db EXCEPT !.progress = records, !.history = records]

IngestSound(c, i, t) ==
  /\ i <= 2 => t = db
  /\ i >= 3 => \/ t = db
               \/ db.source = None /\ t = [db EXCEPT !.library = @ \cup {c}, !.source = c]

ScheduleSound(c, i, t) ==
  /\ i <= 2 => t = db
  /\ i = 3 => t = [db EXCEPT !.schedule = <<>>]
  /\ i = 4 => t = [db EXCEPT !.schedule = <<c>>]
  /\ i >= 5 => t = [db EXCEPT !.schedule = <<c, c>>]

WorkSound(c, w, i, a, m, t) ==
  /\ w = "SavePlaybackCheckpoint" => CheckpointSound(i, a, m, t)
  /\ w = "RemoveHistory" => RemovalSound(i, a, t)
  /\ w = "IngestSourceAnime" => IngestSound(c, i, t)
  /\ w = "ReplaceSchedule" => ScheduleSound(c, i, t)

Agree(t) ==
  /\ t.progress = t.history
  /\ t.mapping # NoMapping => t.mapping.anime = t.source
  /\ t.source # None => t.source \in t.library
  /\ t.schedule = <<>> \/ \E c \in Calls : t.schedule = <<c, c>>

StoreInv ==
  /\ TypeOK /\ OpeningInv /\ DOMAIN arg = Calls
  /\ Agree(db) /\ Known \in db.library /\ Other \in db.library
  /\ \A c \in Calls : CallSound(c)
  /\ tx # None => WorkSound(tx, job[tx], at[tx], arg[tx], merged[tx], work)

-----------------------------------------------------------------------------
(* The operations' statements. *)

LEMMA NamedWork ==
  ASSUME NEW w \in DOMAIN Statements
  PROVE  w \in {"SavePlaybackCheckpoint", "RemoveHistory", "IngestSourceAnime", "SaveSourceRef",
                "SaveEpisodeMapping", "SaveMetadata", "Follow", "Unfollow", "ReplaceSchedule",
                "SaveAnime", "SaveSettings", "ListAll", "ReadOne"}
BY DEF Statements

\* Where each statement occurs, and how many an operation has.
LEMMA Places ==
  ASSUME NEW w \in DOMAIN Statements, NEW i \in 1..Len(Statements[w])
  PROVE  /\ Len(Statements[w]) <= 6
         /\ Statements[w][i] = "begin" =>
              /\ i < Len(Statements[w]) /\ ~Begun(w, i) /\ Begun(w, i + 1)
              /\ w = "SavePlaybackCheckpoint" => i = 1
              /\ w = "RemoveHistory" => i = 2
              /\ w \in {"IngestSourceAnime", "ReplaceSchedule"} => i = 1
              /\ w # "SaveEpisodeMapping"
         /\ Statements[w][i] # "begin" /\ i < Len(Statements[w]) => (Begun(w, i + 1) <=> Begun(w, i))
         /\ Begun(w, i) => w \in {"SavePlaybackCheckpoint", "RemoveHistory", "IngestSourceAnime", "ReplaceSchedule"}
         /\ Begun(w, i) /\ i = Len(Statements[w]) => Statements[w][i] = "commit"
         /\ Statements[w][i] = "commit" =>
              \/ w = "SavePlaybackCheckpoint" /\ i = 6
              \/ w = "RemoveHistory" /\ i = 5
              \/ w = "IngestSourceAnime" /\ i = 3
              \/ w = "ReplaceSchedule" /\ i = 5
         /\ Statements[w][i] = "anime" =>
              \/ w = "SavePlaybackCheckpoint" /\ i = 2
              \/ w \in {"RemoveHistory", "SaveSourceRef", "SaveEpisodeMapping", "SaveMetadata", "Follow", "Unfollow"} /\ i = 1
         /\ Statements[w][i] = "load" => w = "SavePlaybackCheckpoint" /\ i = 3
         /\ Statements[w][i] = "putProgress" => w = "SavePlaybackCheckpoint" /\ i = 4
         /\ Statements[w][i] = "putHistory" => w = "SavePlaybackCheckpoint" /\ i = 5
         /\ Statements[w][i] = "dropHistory" => w = "RemoveHistory" /\ i = 3
         /\ Statements[w][i] = "dropProgress" => w = "RemoveHistory" /\ i = 4
         /\ Statements[w][i] = "putSource" => w = "IngestSourceAnime" /\ i = 2
         /\ Statements[w][i] = "claimSource" => w = "SaveSourceRef" /\ i = 2
         /\ Statements[w][i] = "sourceOf" => w = "SaveEpisodeMapping" /\ i = 2
         /\ Statements[w][i] = "insertMapping" => w = "SaveEpisodeMapping" /\ i = 3
         /\ Statements[w][i] = "whoMapped" => w = "SaveEpisodeMapping" /\ i = 4
         /\ Statements[w][i] = "putNumber" => w = "SaveEpisodeMapping" /\ i = 5
         /\ Statements[w][i] = "putMetadata" => w = "SaveMetadata" /\ i = 2
         /\ Statements[w][i] = "putFollowing" => w = "Follow" /\ i = 2
         /\ Statements[w][i] = "dropFollowing" => w = "Unfollow" /\ i = 2
         /\ Statements[w][i] = "dropSchedule" => w = "ReplaceSchedule" /\ i = 2
         /\ Statements[w][i] = "putSchedule" => w = "ReplaceSchedule" /\ i \in {3, 4}
         /\ Statements[w][i] = "query" => w \in {"SaveAnime", "SaveSettings", "ListAll", "ReadOne"} /\ i = 1
<1>1. CASE w = "SavePlaybackCheckpoint"
  <2>1. Statements[w] = SavePlaybackCheckpoint /\ i \in 1..6
    BY <1>1 DEF Statements, SavePlaybackCheckpoint
  <2>2. CASE i = 1
    BY <1>1, <2>1, <2>2 DEF SavePlaybackCheckpoint, Begun
  <2>3. CASE i = 2
    BY <1>1, <2>1, <2>3 DEF SavePlaybackCheckpoint, Begun
  <2>4. CASE i = 3
    BY <1>1, <2>1, <2>4 DEF SavePlaybackCheckpoint, Begun
  <2>5. CASE i = 4
    BY <1>1, <2>1, <2>5 DEF SavePlaybackCheckpoint, Begun
  <2>6. CASE i = 5
    BY <1>1, <2>1, <2>6 DEF SavePlaybackCheckpoint, Begun
  <2>7. CASE i = 6
    <3>1. Statements[w][i] = "commit" /\ Len(Statements[w]) = 6
      BY <2>1, <2>7 DEF SavePlaybackCheckpoint
    <3> QED
      BY <1>1, <2>7, <3>1 DEF Begun
  <2> QED
    BY <2>1, <2>2, <2>3, <2>4, <2>5, <2>6, <2>7
<1>2. CASE w = "RemoveHistory"
  BY <1>2 DEF Statements, RemoveHistory, Begun
<1>3. CASE w = "IngestSourceAnime"
  <2>1. Statements[w] = IngestSourceAnime /\ i \in 1..3
    BY <1>3 DEF Statements, IngestSourceAnime
  <2>2. CASE i = 1
    BY <1>3, <2>1, <2>2 DEF IngestSourceAnime, Begun
  <2>3. CASE i = 2
    BY <1>3, <2>1, <2>3 DEF IngestSourceAnime, Begun
  <2>4. CASE i = 3
    <3>1. Statements[w][i] = "commit" /\ Len(Statements[w]) = 3
      BY <2>1, <2>4 DEF IngestSourceAnime
    <3> QED
      BY <1>3, <2>4, <3>1 DEF Begun
  <2> QED
    BY <2>1, <2>2, <2>3, <2>4
<1>4. CASE w = "SaveSourceRef"
  BY <1>4 DEF Statements, SaveSourceRef, Begun
<1>5. CASE w = "SaveEpisodeMapping"
  BY <1>5 DEF Statements, SaveEpisodeMapping, Begun
<1>6. CASE w = "SaveMetadata"
  BY <1>6 DEF Statements, SaveMetadata, Begun
<1>7. CASE w = "Follow"
  BY <1>7 DEF Statements, Follow, Begun
<1>8. CASE w = "Unfollow"
  BY <1>8 DEF Statements, Unfollow, Begun
<1>9. CASE w = "ReplaceSchedule"
  BY <1>9 DEF Statements, ReplaceSchedule, Begun
<1>10. CASE w \in {"SaveAnime", "SaveSettings", "ListAll", "ReadOne"}
  <2>1. Statements[w] = <<"query">> /\ i = 1
    <3>1. CASE w = "SaveAnime"
      BY <3>1 DEF Statements, SaveAnime
    <3>2. CASE w = "SaveSettings"
      BY <3>2 DEF Statements, SaveSettings
    <3>3. CASE w = "ListAll"
      BY <3>3 DEF Statements, ListAll
    <3>4. CASE w = "ReadOne"
      BY <3>4 DEF Statements, ReadOne
    <3> QED
      BY <1>10, <3>1, <3>2, <3>3, <3>4
  <2> QED
    BY <1>10, <2>1 DEF Begun
<1> QED
  BY <1>1, <1>2, <1>3, <1>4, <1>5, <1>6, <1>7, <1>8, <1>9, <1>10, NamedWork

-----------------------------------------------------------------------------
(* Progress. *)

LEMMA Records ==
  /\ NoRecord = [stamp |-> 0, position |-> 0, completed |-> FALSE] /\ NoRecord \notin Entries
  /\ \A p \in Entries : p.stamp \in Nat /\ p.position \in Nat /\ p.completed \in BOOLEAN
  /\ None \notin AnimeIDs /\ None \notin Calls /\ Calls \subseteq AnimeIDs
  /\ Known \in AnimeIDs /\ Other \in AnimeIDs
  /\ \A e \in Episodes : AnimeOf[e] \in {Known, Other}
  /\ NoMapping.anime = None /\ NoMapping.episode = None
<1>1. NoRecord = [stamp |-> 0, position |-> 0, completed |-> FALSE]
  BY DEF NoRecord
<1>2. NoRecord.stamp \notin Stamps
  BY StorageAssumption DEF NoRecord
<1>3. NoRecord \notin Entries
  BY <1>2 DEF Entries
<1>4. \A p \in Entries : p.stamp \in Nat /\ p.position \in Nat /\ p.completed \in BOOLEAN
  BY StorageAssumption DEF Entries
<1>5. None \notin AnimeIDs /\ None \notin Calls
  BY StorageAssumption DEF None, AnimeIDs, Calls, Known, Other
<1>6. Calls \subseteq AnimeIDs /\ Known \in AnimeIDs /\ Other \in AnimeIDs
  BY DEF AnimeIDs
<1>7. \A e \in Episodes : AnimeOf[e] \in {Known, Other}
  BY DEF Episodes, AnimeOf
<1>8. NoMapping.anime = None /\ NoMapping.episode = None
  BY DEF NoMapping
<1> QED
  BY <1>1, <1>3, <1>4, <1>5, <1>6, <1>7, <1>8

\* Merging is typed, leaves what is merged with itself, and is what the
\* abstract store does.
LEMMA Merging ==
  ASSUME NEW p \in Entries \cup {NoRecord}, NEW q \in Entries
  PROVE  /\ MergeCheckpoint(p, q) \in Entries
         /\ MergeCheckpoint(q, q) = q
         /\ MergeCheckpoint(p, q) = Promised!Merge(p, q)
<1>1. q # NoRecord /\ q.stamp \in Nat /\ q.position \in Nat /\ q.completed \in BOOLEAN
      /\ q.stamp \in Stamps /\ q.position \in Positions
      /\ q = [stamp |-> q.stamp, position |-> q.position, completed |-> q.completed]
  BY Records DEF Entries
<1>2. MergeCheckpoint(q, q) = q
  <2>1. MergeCheckpoint(q, q) = [[q EXCEPT !.position = q.position] EXCEPT !.completed = q.completed \/ q.completed]
    BY <1>1 DEF MergeCheckpoint
  <2>2. (q.completed \/ q.completed) = q.completed
    BY <1>1
  <2> QED
    BY <1>1, <2>1, <2>2
<1>3. CASE p = NoRecord
  BY <1>2, <1>3 DEF MergeCheckpoint, Promised!Merge
<1>4. CASE p \in Entries /\ p # NoRecord
  <2>1. p.stamp \in Nat /\ p.position \in Nat /\ p.completed \in BOOLEAN
        /\ p.stamp \in Stamps /\ p.position \in Positions
        /\ p = [stamp |-> p.stamp, position |-> p.position, completed |-> p.completed]
    BY <1>4, Records DEF Entries
  <2> DEFINE done == p.completed \/ q.completed
             stamp == IF q.stamp > p.stamp THEN q.stamp ELSE p.stamp
             position == IF q.stamp > p.stamp \/ (q.stamp = p.stamp /\ q.position > p.position)
                         THEN q.position ELSE p.position
             merged1 == [stamp |-> stamp, position |-> position, completed |-> done]
  <2>2. MergeCheckpoint(p, q) = merged1
    <3>1. CASE q.stamp > p.stamp
      BY <1>1, <1>4, <2>1, <3>1 DEF MergeCheckpoint
    <3>2. CASE q.stamp < p.stamp
      BY <1>1, <1>4, <2>1, <3>2 DEF MergeCheckpoint
    <3>3. CASE q.stamp = p.stamp
      BY <1>1, <1>4, <2>1, <3>3 DEF MergeCheckpoint
    <3> QED
      BY <1>1, <2>1, <3>1, <3>2, <3>3
  <2>3. Promised!Merge(p, q) = merged1
    BY <1>1, <1>4, <2>1 DEF Promised!Merge, Promised!Newer
  <2>4. merged1 \in Entries
    BY <1>1, <2>1 DEF Entries
  <2> QED
    BY <1>2, <2>2, <2>3, <2>4
<1> QED
  BY <1>3, <1>4

-----------------------------------------------------------------------------
(* The steps of one call. *)

\* What a step may change in the tables others look at.
KeptTables(t, u) ==
  /\ t.source # None => u.source = t.source
  /\ t.mapping # NoMapping =>
       /\ u.mapping # NoMapping
       /\ u.mapping.episode = t.mapping.episode
       /\ u.mapping.seen = t.mapping.seen
       /\ t.mapping.numbered => u.mapping.numbered
  /\ t.followed # None /\ u.followed # None => u.followed = t.followed

Sound(t) == t \in Tables /\ Agree(t) /\ Known \in t.library /\ Other \in t.library

\* A step of call c leaves the other calls sound, and the transaction of one of them.
LEMMA CallMoves ==
  ASSUME StoreInv, NEW c \in Calls, TypeOK', OpeningInv', Sound(db)', KeptTables(db, db'),
         \A d \in Calls \ {c} : /\ job'[d] = job[d] /\ at'[d] = at[d] /\ arg'[d] = arg[d]
                                /\ merged'[d] = merged[d],
         tx' \in {tx, c} \/ (tx = c /\ tx' = None),
         tx \notin {None, c} => tx' = tx /\ db' = db /\ work' = work,
         DOMAIN arg' = Calls, CallSound(c)',
         tx' = c => WorkSound(c, job[c], at[c], arg[c], merged[c], work)'
  PROVE  StoreInv'
<1>0. tx \in Calls \cup {None} /\ None \notin Calls /\ None \notin AnimeIDs
  BY Records DEF StoreInv, TypeOK
<1>1. ASSUME NEW d \in Calls \ {c} PROVE CallSound(d)'
  <2>1. job'[d] = job[d] /\ at'[d] = at[d] /\ arg'[d] = arg[d] /\ CallSound(d)
    BY DEF StoreInv
  <2>2. tx' = d <=> tx = d
    BY <1>0
  <2>3. ReadSound(job[d], at[d], arg[d], db')
    <3>1. CASE job[d] = "SaveEpisodeMapping"
      <4>1. arg[d].anime # None
        BY <1>0, <2>1, <3>1 DEF CallSound, ArgSound
      <4> QED
        BY <2>1, <3>1, <4>1 DEF CallSound, ReadSound, KeptTables
    <3>2. CASE job[d] # "SaveEpisodeMapping"
      BY <3>2 DEF ReadSound
    <3> QED
      BY <3>1, <3>2
  <2> QED
    BY <2>1, <2>2, <2>3 DEF CallSound
<1>2. tx' # None => WorkSound(tx, job[tx], at[tx], arg[tx], merged[tx], work)'
  <2> SUFFICES ASSUME tx' # None, tx' # c PROVE WorkSound(tx, job[tx], at[tx], arg[tx], merged[tx], work)'
    OBVIOUS
  <2>1. tx' = tx /\ tx \in Calls \ {c} /\ db' = db /\ work' = work
    BY <1>0
  <2>2. job'[tx] = job[tx] /\ at'[tx] = at[tx] /\ arg'[tx] = arg[tx] /\ merged'[tx] = merged[tx]
    BY <2>1
  <2>3. WorkSound(tx, job[tx], at[tx], arg[tx], merged[tx], work)
    BY <1>0, <2>1 DEF StoreInv
  <2> QED
    BY <2>1, <2>2, <2>3 DEF WorkSound, CheckpointSound, RemovalSound, IngestSound, ScheduleSound
<1>3. \A d \in Calls : CallSound(d)'
  BY <1>1
<1> QED
  BY <1>2, <1>3 DEF StoreInv, Sound

\* A call returns, leaving the tables t.
LEMMA CallEnds ==
  ASSUME StoreInv, NEW c \in Calls, NEW t, Sound(t), KeptTables(db, t), db' = t, work' \in Tables,
         tx \in {None, c} \/ (t = db /\ work' = work), UNCHANGED <<opened, closing>>, End(c)
  PROVE  StoreInv'
<1>0. TypeOK /\ OpeningInv' /\ tx \in Calls \cup {None} /\ None \notin Calls
  BY OpeningKeeps, Records DEF StoreInv, TypeOK
<1>1. /\ job' = [job EXCEPT ![c] = "none"] /\ at' = [at EXCEPT ![c] = 1]
      /\ arg' = [arg EXCEPT ![c] = NoArg] /\ merged' = [merged EXCEPT ![c] = NoRecord]
      /\ tx' = IF tx = c THEN None ELSE tx
  BY DEF End
<1>2. TypeOK'
  <2>1. job' \in [Calls -> Work \cup {"none"}]
    BY <1>0, <1>1 DEF TypeOK
  <2>2. at' \in [Calls -> 0..6]
    BY <1>0, <1>1 DEF TypeOK
  <2>3. merged' \in [Calls -> Entries \cup {NoRecord}]
    BY <1>0, <1>1 DEF TypeOK
  <2>4. tx' \in Calls \cup {None} /\ db' \in Tables /\ work' \in Tables /\ OpeningTypeOK' /\ closing' \in BOOLEAN
    BY <1>0, <1>1 DEF TypeOK, Sound, OpeningInv
  <2> QED
    BY <2>1, <2>2, <2>3, <2>4 DEF TypeOK
<1>3. job'[c] = "none" /\ tx' # c
  BY <1>0, <1>1 DEF TypeOK
<1>4. CallSound(c)'
  BY <1>3 DEF CallSound, ArgSound, ReadSound, Begun
<1>6. \A d \in Calls \ {c} : job'[d] = job[d] /\ at'[d] = at[d] /\ merged'[d] = merged[d]
  BY <1>0, <1>1 DEF TypeOK
<1>7. Sound(db)'
  BY DEF Sound, Agree
<1>8. tx' \in {tx, c} \/ (tx = c /\ tx' = None)
  BY <1>1
<1>9. tx \notin {None, c} => tx' = tx /\ db' = db /\ work' = work
  BY <1>1
<1>10. DOMAIN arg' = Calls /\ \A d \in Calls \ {c} : arg'[d] = arg[d]
  BY <1>1 DEF StoreInv
<1> QED
  BY <1>0, <1>2, <1>3, <1>4, <1>6, <1>7, <1>8, <1>9, <1>10, CallMoves

\* Where a call that is at a statement stands.
LEMMA CallStands ==
  ASSUME StoreInv, NEW c \in Calls, job[c] # "none"
  PROVE  /\ job[c] \in DOMAIN Statements /\ at[c] \in 1..Len(Statements[job[c]])
         /\ at[c] \in Nat /\ Len(Statements[job[c]]) <= 6
         /\ CallSound(c) /\ (tx = c <=> Begun(job[c], at[c]))
<1>1. job[c] \in DOMAIN Statements /\ CallSound(c)
  BY StorageAssumption DEF StoreInv, TypeOK
<1>2. at[c] \in 1..Len(Statements[job[c]])
  BY <1>1 DEF CallSound
<1>3. at[c] \in Nat
  BY DEF StoreInv, TypeOK
<1> QED
  BY <1>1, <1>2, <1>3, Places DEF CallSound

\* The next statement of a call, which leaves the tables t.
LEMMA CallGoesOn ==
  ASSUME StoreInv, NEW c \in Calls, job[c] # "none", at[c] # Len(Statements[job[c]]),
         NEW t, Sound(t), KeptTables(db, t), db' = t, work' \in Tables,
         UNCHANGED <<opened, closing>>, at' = [at EXCEPT ![c] = @ + 1], UNCHANGED <<job, arg>>,
         NEW m \in Entries \cup {NoRecord}, merged' = [merged EXCEPT ![c] = m],
         \/ Statements[job[c]][at[c]] # "begin" /\ tx' = tx /\ (tx \in {None, c} \/ (t = db /\ work' = work))
         \/ Statements[job[c]][at[c]] = "begin" /\ tx = None /\ tx' = c,
         ReadSound(job[c], at[c] + 1, arg[c], t),
         tx' = c => t = db /\ WorkSound(c, job[c], at[c] + 1, arg[c], m, work')
  PROVE  StoreInv'
<1>0. TypeOK /\ OpeningInv' /\ tx \in Calls \cup {None} /\ None \notin Calls
  BY OpeningKeeps, Records DEF StoreInv, TypeOK
<1>1. /\ job[c] \in DOMAIN Statements /\ at[c] \in 1..Len(Statements[job[c]])
      /\ at[c] \in Nat /\ Len(Statements[job[c]]) \in Nat /\ Len(Statements[job[c]]) <= 6
      /\ CallSound(c) /\ (tx = c <=> Begun(job[c], at[c]))
  BY CallStands
<1>2. at[c] + 1 \in 1..Len(Statements[job[c]]) /\ at[c] + 1 \in 0..6 /\ at[c] < Len(Statements[job[c]])
  BY <1>1
<1>3. at'[c] = at[c] + 1 /\ job'[c] = job[c] /\ arg'[c] = arg[c] /\ merged'[c] = m
  BY <1>0 DEF TypeOK
<1>4. TypeOK'
  <2>1. at' \in [Calls -> 0..6]
    BY <1>0, <1>2 DEF TypeOK
  <2>2. merged' \in [Calls -> Entries \cup {NoRecord}]
    BY <1>0 DEF TypeOK
  <2>3. tx' \in Calls \cup {None} /\ db' \in Tables /\ work' \in Tables /\ OpeningTypeOK' /\ closing' \in BOOLEAN
        /\ job' \in [Calls -> Work \cup {"none"}]
    BY <1>0 DEF TypeOK, Sound, OpeningInv
  <2> QED
    BY <2>1, <2>2, <2>3 DEF TypeOK
<1>5. tx' = c <=> Begun(job[c], at[c] + 1)
  BY <1>0, <1>1, <1>2, Places
<1>6. CallSound(c)'
  <2>1. at'[c] \in 1..Len(Statements[job'[c]])
    BY <1>2, <1>3
  <2>2. ArgSound(job[c], arg[c])
    BY <1>1 DEF CallSound
  <2> QED
    BY <1>3, <1>5, <2>1, <2>2 DEF CallSound
<1>7. \A d \in Calls \ {c} : /\ job'[d] = job[d] /\ at'[d] = at[d] /\ arg'[d] = arg[d]
                             /\ merged'[d] = merged[d]
  BY <1>0 DEF TypeOK
<1>8. Sound(db)' /\ DOMAIN arg' = Calls
  BY DEF Sound, Agree, StoreInv
<1>9. tx' \in {tx, c} /\ (tx \notin {None, c} => tx' = tx /\ db' = db /\ work' = work)
  BY <1>0
<1>10. tx' = c => WorkSound(c, job[c], at[c], arg[c], merged[c], work)'
  BY <1>3 DEF WorkSound, CheckpointSound, RemovalSound, IngestSound, ScheduleSound
<1> QED
  BY <1>0, <1>4, <1>6, <1>7, <1>8, <1>9, <1>10, CallMoves

\* A statement outside of a transaction.
LEMMA OutsideStep ==
  ASSUME StoreInv, NEW c \in Calls, job[c] # "none", ~Begun(job[c], at[c]),
         Statements[job[c]][at[c]] # "begin",
         NEW t, Sound(t), KeptTables(db, t), ReadSound(job[c], at[c] + 1, arg[c], t),
         Executes(c, t) \/ Returns(c, t)
  PROVE  StoreInv' /\ db' = t
<1>0. tx # c /\ tx \in Calls \cup {None} /\ merged[c] \in Entries \cup {NoRecord} /\ work \in Tables
      /\ None \notin Calls
  BY CallStands, Records DEF StoreInv, TypeOK
<1>1. tx = None /\ db' = t /\ work' = work /\ UNCHANGED <<opened, closing>>
  BY <1>0 DEF Executes, Returns, Leaves, CanExecute
<1>2. CASE End(c)
  BY <1>0, <1>1, <1>2, CallEnds
<1>3. CASE Follows(c) /\ ~End(c)
  <2>1. /\ at[c] # Len(Statements[job[c]]) /\ at' = [at EXCEPT ![c] = @ + 1]
        /\ UNCHANGED <<tx, job, arg, merged>>
    BY <1>3 DEF Follows
  <2>2. merged' = [merged EXCEPT ![c] = merged[c]]
    BY <2>1 DEF StoreInv, TypeOK
  <2>3. tx' # c /\ tx' = tx
    BY <1>0, <2>1
  <2> QED
    BY <1>0, <1>1, <2>1, <2>2, <2>3, CallGoesOn
<1> QED
  BY <1>1, <1>2, <1>3 DEF Executes, Returns

\* A statement inside the transaction of its call.
LEMMA InsideStep ==
  ASSUME StoreInv, NEW c \in Calls, job[c] # "none", Begun(job[c], at[c]),
         Statements[job[c]][at[c]] \notin {"begin", "commit"}, NEW t \in Tables, Executes(c, t),
         WorkSound(c, job[c], at[c] + 1, arg[c], merged[c], t)
  PROVE  StoreInv' /\ db' = db
<1>0. tx = c /\ merged[c] \in Entries \cup {NoRecord} /\ at[c] # Len(Statements[job[c]])
  BY CallStands, Places DEF StoreInv, TypeOK
<1>1. db' = db /\ work' = t /\ UNCHANGED <<opened, closing>>
  BY <1>0 DEF Executes, Leaves
<1>2. at' = [at EXCEPT ![c] = @ + 1] /\ UNCHANGED <<tx, job, arg, merged>>
  BY <1>0 DEF Executes, Follows
<1>3. merged' = [merged EXCEPT ![c] = merged[c]]
  BY <1>2 DEF StoreInv, TypeOK
<1>4. Sound(db) /\ KeptTables(db, db)
  BY DEF StoreInv, TypeOK, Sound, KeptTables
<1>5. ReadSound(job[c], at[c] + 1, arg[c], db)
  BY DEF Begun, ReadSound
<1> QED
  BY <1>0, <1>1, <1>2, <1>3, <1>4, <1>5, CallGoesOn

LEMMA TableFields ==
  ASSUME NEW t \in Tables
  PROVE  /\ t.library \in SUBSET AnimeIDs /\ t.source \in AnimeIDs \cup {None}
         /\ t.mapping = NoMapping \/ (/\ t.mapping.anime \in AnimeIDs /\ t.mapping.episode \in Calls
                                      /\ t.mapping.seen \in Calls /\ t.mapping.numbered \in BOOLEAN)
         /\ t.progress \in [Episodes -> Entries \cup {NoRecord}]
         /\ t.history \in [Episodes -> Entries \cup {NoRecord}]
         /\ t.schedule \in Seq(Calls)
BY DEF Tables

\* New values of one field or two, and what they leave.
LEMMA SourceChanges ==
  ASSUME NEW t \in Tables, NEW l \in SUBSET AnimeIDs, NEW x \in AnimeIDs \cup {None},
         NEW u, u = [t EXCEPT !.library = l, !.source = x]
  PROVE  /\ u \in Tables /\ u.library = l /\ u.source = x /\ u.mapping = t.mapping
         /\ u.progress = t.progress /\ u.history = t.history /\ u.schedule = t.schedule
         /\ u.followed = t.followed
BY DEF Tables

LEMMA ClaimChanges ==
  ASSUME NEW t \in Tables, NEW x \in AnimeIDs \cup {None}, NEW u, u = [t EXCEPT !.source = x]
  PROVE  /\ u \in Tables /\ u.library = t.library /\ u.source = x /\ u.mapping = t.mapping
         /\ u.progress = t.progress /\ u.history = t.history /\ u.schedule = t.schedule
         /\ u.followed = t.followed
BY DEF Tables

LEMMA ProgressChanges ==
  ASSUME NEW t \in Tables, NEW p \in [Episodes -> Entries \cup {NoRecord}],
         NEW h \in [Episodes -> Entries \cup {NoRecord}], NEW u, u = [t EXCEPT !.progress = p, !.history = h]
  PROVE  /\ u \in Tables /\ u.library = t.library /\ u.source = t.source /\ u.mapping = t.mapping
         /\ u.progress = p /\ u.history = h /\ u.schedule = t.schedule
         /\ u.followed = t.followed
BY DEF Tables

LEMMA RowChanges ==
  ASSUME NEW t \in Tables
  PROVE  /\ \A p \in [Episodes -> Entries \cup {NoRecord}] :
              /\ [t EXCEPT !.progress = p] \in Tables /\ [t EXCEPT !.history = p] \in Tables
         /\ \A m \in [anime : AnimeIDs, episode : Calls, numbered : BOOLEAN, seen : Calls] :
              LET u == [t EXCEPT !.mapping = m]
              IN  /\ u \in Tables /\ u.library = t.library /\ u.source = t.source /\ u.mapping = m
                  /\ u.progress = t.progress /\ u.history = t.history /\ u.schedule = t.schedule
                  /\ u.followed = t.followed
         /\ \A a \in AnimeIDs \cup {None} :
              LET u == [t EXCEPT !.metadata = a]
              IN  /\ u \in Tables /\ u.library = t.library /\ u.source = t.source /\ u.mapping = t.mapping
                  /\ u.progress = t.progress /\ u.history = t.history /\ u.schedule = t.schedule
                  /\ u.followed = t.followed
         /\ \A c \in Calls \cup {None} :
              LET u == [t EXCEPT !.followed = c]
              IN  /\ u \in Tables /\ u.library = t.library /\ u.source = t.source /\ u.mapping = t.mapping
                  /\ u.progress = t.progress /\ u.history = t.history /\ u.schedule = t.schedule
                  /\ u.followed = c
         /\ \A q \in Seq(Calls) :
              LET u == [t EXCEPT !.schedule = q]
              IN  /\ u \in Tables /\ u.library = t.library /\ u.source = t.source /\ u.mapping = t.mapping
                  /\ u.progress = t.progress /\ u.history = t.history /\ u.schedule = q
                  /\ u.followed = t.followed
<1>1. ASSUME NEW p \in [Episodes -> Entries \cup {NoRecord}]
      PROVE  [t EXCEPT !.progress = p] \in Tables /\ [t EXCEPT !.history = p] \in Tables
  BY DEF Tables
<1>2. ASSUME NEW m \in [anime : AnimeIDs, episode : Calls, numbered : BOOLEAN, seen : Calls],
             NEW u, u = [t EXCEPT !.mapping = m]
      PROVE  /\ u \in Tables /\ u.library = t.library /\ u.source = t.source /\ u.mapping = m
             /\ u.progress = t.progress /\ u.history = t.history /\ u.schedule = t.schedule
             /\ u.followed = t.followed
  BY <1>2 DEF Tables
<1>3. ASSUME NEW a \in AnimeIDs \cup {None}, NEW u, u = [t EXCEPT !.metadata = a]
      PROVE  /\ u \in Tables /\ u.library = t.library /\ u.source = t.source /\ u.mapping = t.mapping
             /\ u.progress = t.progress /\ u.history = t.history /\ u.schedule = t.schedule
             /\ u.followed = t.followed
  BY <1>3 DEF Tables
<1>4. ASSUME NEW c \in Calls \cup {None}, NEW u, u = [t EXCEPT !.followed = c]
      PROVE  /\ u \in Tables /\ u.library = t.library /\ u.source = t.source /\ u.mapping = t.mapping
             /\ u.progress = t.progress /\ u.history = t.history /\ u.schedule = t.schedule
             /\ u.followed = c
  BY <1>4 DEF Tables
<1>5. ASSUME NEW q \in Seq(Calls), NEW u, u = [t EXCEPT !.schedule = q]
      PROVE  /\ u \in Tables /\ u.library = t.library /\ u.source = t.source /\ u.mapping = t.mapping
             /\ u.progress = t.progress /\ u.history = t.history /\ u.schedule = q
             /\ u.followed = t.followed
  BY <1>5 DEF Tables
<1> QED
  BY <1>1, <1>2, <1>3, <1>4, <1>5

\* A statement that leaves the tables as they are, or the call back where it came from.
LEMMA ReadingStep ==
  ASSUME StoreInv, NEW c \in Calls, job[c] # "none", ~Begun(job[c], at[c]),
         Statements[job[c]][at[c]] # "begin", ReadSound(job[c], at[c] + 1, arg[c], db),
         Executes(c, db) \/ Returns(c, db)
  PROVE  StoreInv' /\ db' = db
<1>1. Sound(db) /\ KeptTables(db, db)
  BY DEF StoreInv, TypeOK, Sound, KeptTables
<1> QED
  BY <1>1, OutsideStep

LEMMA StoredFacts ==
  ASSUME StoreInv
  PROVE  /\ Sound(db) /\ KeptTables(db, db) /\ db \in Tables /\ work \in Tables
         /\ tx \in Calls \cup {None}
         /\ \A c \in Calls : merged[c] \in Entries \cup {NoRecord}
BY DEF StoreInv, TypeOK, Sound, KeptTables

\* The statements outside of a transaction.
LEMMA ReadingSteps ==
  ASSUME StoreInv, NEW c \in Calls, Query(c) \/ SourceOf(c) \/ WhoMapped(c) \/ (RequireAnime(c) /\ tx # c)
  PROVE  StoreInv' /\ db' = db
<1>0. job[c] # "none"
  BY DEF Query, SourceOf, WhoMapped, RequireAnime, IsAt, Active
<1>1. /\ job[c] \in DOMAIN Statements /\ at[c] \in 1..Len(Statements[job[c]]) /\ at[c] \in Nat
      /\ CallSound(c) /\ (tx = c <=> Begun(job[c], at[c]))
  BY <1>0, CallStands
<1>2. CASE Query(c)
  <2>1. Statements[job[c]][at[c]] = "query" /\ Executes(c, View(c))
    BY <1>2 DEF Query, IsAt
  <2>2. job[c] \in {"SaveAnime", "SaveSettings", "ListAll", "ReadOne"}
    BY <1>1, <2>1, Places
  <2>3. ~Begun(job[c], at[c]) /\ ReadSound(job[c], at[c] + 1, arg[c], db)
    BY <2>2 DEF Begun, ReadSound
  <2> QED
    BY <1>0, <1>1, <2>1, <2>3, ReadingStep DEF View
<1>3. CASE SourceOf(c)
  <2>1. /\ Statements[job[c]][at[c]] = "sourceOf"
        /\ IF View(c).source = arg[c].anime THEN Executes(c, View(c)) ELSE Returns(c, View(c))
    BY <1>3 DEF SourceOf, IsAt
  <2>2. job[c] = "SaveEpisodeMapping" /\ at[c] = 2
    BY <1>1, <2>1, Places
  <2>3. ~Begun(job[c], at[c]) /\ View(c) = db
    BY <1>1, <2>2 DEF Begun, View
  <2>4. CASE db.source = arg[c].anime
    BY <1>0, <2>1, <2>2, <2>3, <2>4, ReadingStep DEF ReadSound
  <2>5. CASE db.source # arg[c].anime
    <3>1. End(c) /\ tx # c /\ Leaves(c, db)
      BY <1>1, <2>1, <2>3, <2>5 DEF Returns
    <3>2. db' = db /\ work' = work /\ UNCHANGED <<opened, closing>>
      BY <3>1 DEF Leaves
    <3> QED
      BY <3>1, <3>2, StoredFacts, CallEnds
  <2> QED
    BY <2>4, <2>5
<1>4. CASE WhoMapped(c)
  <2>1. /\ Statements[job[c]][at[c]] = "whoMapped"
        /\ \/ arg[c].numbered /\ Executes(c, View(c))
           \/ Returns(c, View(c))
    BY <1>4 DEF WhoMapped, IsAt
  <2>2. job[c] = "SaveEpisodeMapping" /\ at[c] = 4
    BY <1>1, <2>1, Places
  <2>3. ~Begun(job[c], at[c]) /\ View(c) = db /\ db.mapping # NoMapping /\ db.source = arg[c].anime
    BY <1>1, <2>2 DEF Begun, View, CallSound, ReadSound
  <2>4. CASE arg[c].numbered /\ Executes(c, View(c))
    BY <1>0, <2>1, <2>2, <2>3, <2>4, ReadingStep DEF ReadSound
  <2>5. CASE Returns(c, View(c))
    <3>1. End(c) /\ tx # c /\ Leaves(c, db)
      BY <1>1, <2>3, <2>5 DEF Returns
    <3>2. db' = db /\ work' = work /\ UNCHANGED <<opened, closing>>
      BY <3>1 DEF Leaves
    <3> QED
      BY <3>1, <3>2, StoredFacts, CallEnds
  <2> QED
    BY <2>1, <2>4, <2>5
<1>5. CASE RequireAnime(c) /\ tx # c
  <2>1. Statements[job[c]][at[c]] = "anime" /\ Executes(c, View(c))
    BY <1>5 DEF RequireAnime, IsAt
  <2>2. ~Begun(job[c], at[c]) /\ View(c) = db
    BY <1>1, <1>5 DEF View
  <2>3. at[c] = 1
    BY <1>1, <2>1, <2>2, Places DEF Begun
  <2>4. ReadSound(job[c], at[c] + 1, arg[c], db)
    BY <2>3 DEF ReadSound
  <2> QED
    BY <1>0, <2>1, <2>2, <2>4, ReadingStep
<1> QED
  BY <1>2, <1>3, <1>4, <1>5

LEMMA WritingSteps ==
  ASSUME StoreInv, NEW c \in Calls,
         \/ ClaimSource(c) \/ InsertMapping(c) \/ PutNumber(c) \/ PutMetadata(c)
         \/ PutFollowing(c) \/ DropFollowing(c)
  PROVE  StoreInv' /\ KeptTables(db, db') /\ db'.progress = db.progress
<1>0. job[c] # "none"
  BY DEF ClaimSource, InsertMapping, PutNumber, PutMetadata, PutFollowing, DropFollowing, IsAt, Active
<1>1. /\ job[c] \in DOMAIN Statements /\ at[c] \in 1..Len(Statements[job[c]]) /\ at[c] \in Nat
      /\ CallSound(c) /\ (tx = c <=> Begun(job[c], at[c]))
  BY <1>0, CallStands
<1>2. ASSUME NEW t, Sound(t), KeptTables(db, t), t.progress = db.progress, ~Begun(job[c], at[c]),
             Statements[job[c]][at[c]] # "begin", ReadSound(job[c], at[c] + 1, arg[c], t),
             Executes(c, t) \/ Returns(c, t)
      PROVE  StoreInv' /\ KeptTables(db, db') /\ db'.progress = db.progress
  BY <1>0, <1>2, OutsideStep
<1>3. /\ Sound(db) /\ KeptTables(db, db) /\ db \in Tables /\ Agree(db)
      /\ Known \in AnimeIDs /\ Other \in AnimeIDs /\ Known \in db.library /\ Other \in db.library
      /\ None \notin AnimeIDs /\ None \notin Calls
  BY StoredFacts, Records DEF StoreInv
<1>4. CASE ClaimSource(c)
  <2>1. /\ Statements[job[c]][at[c]] = "claimSource"
        /\ Executes(c, IF View(c).source # None THEN View(c) ELSE [View(c) EXCEPT !.source = arg[c].anime])
    BY <1>4 DEF ClaimSource, IsAt
  <2>2. job[c] = "SaveSourceRef" /\ at[c] = 2
    BY <1>1, <2>1, Places
  <2>3. ~Begun(job[c], at[c]) /\ View(c) = db /\ arg[c].anime \in {Known, Other}
    BY <1>1, <2>2 DEF Begun, View, CallSound, ArgSound
  <2>4. \A t : ReadSound(job[c], at[c] + 1, arg[c], t)
    BY <2>2 DEF ReadSound
  <2>5. CASE db.source # None
    BY <1>2, <1>3, <2>1, <2>3, <2>4, <2>5
  <2>6. CASE db.source = None
    <3>1. PICK t : t = [db EXCEPT !.source = arg[c].anime]
      OBVIOUS
    <3>2. /\ t \in Tables /\ t.library = db.library /\ t.source = arg[c].anime /\ t.mapping = db.mapping
          /\ t.progress = db.progress /\ t.history = db.history /\ t.schedule = db.schedule
          /\ t.followed = db.followed
      BY <1>3, <2>3, <3>1, ClaimChanges
    <3>3. db.mapping = NoMapping
      <4>1. db.mapping = NoMapping \/ db.mapping.anime \in AnimeIDs
        BY <1>3, TableFields
      <4> QED
        BY <1>3, <2>6, <4>1 DEF Agree
    <3>4. Sound(t)
      BY <1>3, <2>3, <3>2, <3>3 DEF Sound, Agree
    <3>5. KeptTables(db, t)
      BY <2>6, <3>2, <3>3 DEF KeptTables
    <3>6. Executes(c, t)
      BY <2>1, <2>3, <2>6, <3>1
    <3> QED
      BY <1>2, <2>1, <2>3, <2>4, <3>2, <3>4, <3>5, <3>6
  <2> QED
    BY <2>5, <2>6
<1>5. CASE InsertMapping(c)
  <2>1. /\ Statements[job[c]][at[c]] = "insertMapping"
        /\ IF View(c).mapping = NoMapping
           THEN Returns(c, [View(c) EXCEPT !.mapping =
                              [anime |-> arg[c].anime, episode |-> arg[c].episode,
                               numbered |-> arg[c].numbered, seen |-> c]])
           ELSE Executes(c, View(c))
    BY <1>5 DEF InsertMapping, IsAt
  <2>2. job[c] = "SaveEpisodeMapping" /\ at[c] = 3
    BY <1>1, <2>1, Places
  <2>3. /\ ~Begun(job[c], at[c]) /\ View(c) = db /\ db.source = arg[c].anime
        /\ arg[c].anime \in AnimeIDs /\ arg[c].episode \in Calls /\ arg[c].numbered \in BOOLEAN
    BY <1>1, <2>2 DEF Begun, View, CallSound, ArgSound, ReadSound
  <2>5. CASE db.mapping # NoMapping
    <3>1. ReadSound(job[c], at[c] + 1, arg[c], db)
      BY <2>2, <2>3, <2>5 DEF ReadSound
    <3> QED
      BY <1>2, <1>3, <2>1, <2>3, <2>5, <3>1
  <2>6. CASE db.mapping = NoMapping
    <3>0. PICK m : m = [anime |-> arg[c].anime, episode |-> arg[c].episode,
                        numbered |-> arg[c].numbered, seen |-> c]
      OBVIOUS
    <3>1. m \in [anime : AnimeIDs, episode : Calls, numbered : BOOLEAN, seen : Calls] /\ m.anime = arg[c].anime
      BY <2>3, <3>0
    <3>2. PICK t : t = [db EXCEPT !.mapping = m]
      OBVIOUS
    <3>3. /\ t \in Tables /\ t.library = db.library /\ t.source = db.source /\ t.mapping = m
          /\ t.progress = db.progress /\ t.history = db.history /\ t.schedule = db.schedule
          /\ t.followed = db.followed
      BY <1>3, <3>1, <3>2, RowChanges
    <3>4. Sound(t)
      BY <1>3, <2>3, <3>1, <3>3 DEF Sound, Agree
    <3>5. KeptTables(db, t)
      BY <2>6, <3>3 DEF KeptTables
    <3>6. Returns(c, t)
      BY <2>1, <2>3, <2>6, <3>0, <3>2
    <3>7. End(c) /\ tx # c /\ Leaves(c, t) /\ tx \in Calls \cup {None} /\ work \in Tables
      BY <1>1, <2>3, <3>6, StoredFacts DEF Returns
    <3>8. tx = None /\ db' = t /\ work' = work /\ UNCHANGED <<opened, closing>>
      BY <3>7 DEF Leaves, CanExecute
    <3>9. StoreInv'
      BY <3>4, <3>5, <3>7, <3>8, CallEnds
    <3> QED
      BY <3>3, <3>5, <3>8, <3>9
  <2> QED
    BY <2>5, <2>6
<1>6. CASE PutNumber(c)
  <2>1. /\ Statements[job[c]][at[c]] = "putNumber"
        /\ Executes(c, [View(c) EXCEPT !.mapping.numbered = arg[c].numbered])
    BY <1>6 DEF PutNumber, IsAt
  <2>2. job[c] = "SaveEpisodeMapping" /\ at[c] = 5
    BY <1>1, <2>1, Places
  <2>3. /\ ~Begun(job[c], at[c]) /\ View(c) = db /\ db.mapping # NoMapping
        /\ arg[c].numbered /\ arg[c].numbered \in BOOLEAN
    BY <1>1, <2>2 DEF Begun, View, CallSound, ArgSound, ReadSound
  <2>4. \A t : ReadSound(job[c], at[c] + 1, arg[c], t) <=> t.source = arg[c].anime /\ t.mapping # NoMapping
    BY <2>2 DEF ReadSound
  <2>5. PICK m : m = [db.mapping EXCEPT !.numbered = arg[c].numbered]
    OBVIOUS
  <2>6. /\ m \in [anime : AnimeIDs, episode : Calls, numbered : BOOLEAN, seen : Calls]
        /\ m.anime = db.mapping.anime /\ m.episode = db.mapping.episode /\ m.seen = db.mapping.seen
        /\ m.numbered
    BY <1>3, <2>3, <2>5 DEF Tables
  <2>7. PICK t : t = [db EXCEPT !.mapping = m]
    OBVIOUS
  <2>8. /\ t \in Tables /\ t.library = db.library /\ t.source = db.source /\ t.mapping = m
        /\ t.progress = db.progress /\ t.history = db.history /\ t.schedule = db.schedule
        /\ t.followed = db.followed
    BY <1>3, <2>6, <2>7, RowChanges
  <2>9. m # NoMapping
    BY <1>3, <2>6, Records
  <2>10. Sound(t)
    BY <1>3, <2>3, <2>6, <2>8 DEF Sound, Agree
  <2>11. KeptTables(db, t)
    BY <2>6, <2>8, <2>9 DEF KeptTables
  <2>12. Executes(c, t)
    BY <2>1, <2>3, <2>5, <2>7
  <2>13. db.source = arg[c].anime
    BY <1>1, <2>2 DEF CallSound, ReadSound
  <2>14. ReadSound(job[c], at[c] + 1, arg[c], t)
    BY <2>4, <2>8, <2>9, <2>13
  <2> QED
    BY <1>2, <2>1, <2>3, <2>8, <2>10, <2>11, <2>12, <2>14
<1>7. CASE PutMetadata(c) \/ PutFollowing(c) \/ DropFollowing(c)
  <2>1. /\ Statements[job[c]][at[c]] \in {"putMetadata", "putFollowing", "dropFollowing"}
        /\ \/ Executes(c, View(c))
           \/ job[c] = "SaveMetadata" /\ Executes(c, [View(c) EXCEPT !.metadata = arg[c].anime])
           \/ Executes(c, [View(c) EXCEPT !.metadata = None])
           \/ View(c).followed = None /\ Executes(c, [View(c) EXCEPT !.followed = c])
           \/ Executes(c, [View(c) EXCEPT !.followed = None])
    <3>1. CASE PutMetadata(c)
      <4>1. Statements[job[c]][at[c]] = "putMetadata"
        BY <3>1 DEF PutMetadata, IsAt
      <4>2. job[c] = "SaveMetadata"
        BY <1>1, <4>1, Places
      <4> QED
        BY <3>1, <4>1, <4>2 DEF PutMetadata
    <3>2. CASE PutFollowing(c)
      BY <3>2 DEF PutFollowing, IsAt
    <3>3. CASE DropFollowing(c)
      BY <3>3 DEF DropFollowing, IsAt
    <3> QED
      BY <1>7, <3>1, <3>2, <3>3
  <2>2. job[c] \in {"SaveMetadata", "Follow", "Unfollow"}
    BY <1>1, <2>1, Places
  <2>3. ~Begun(job[c], at[c]) /\ View(c) = db /\ (job[c] = "SaveMetadata" => arg[c].anime \in AnimeIDs)
    BY <1>1, <1>3, <2>2 DEF Begun, View, CallSound, ArgSound
  <2>4. \A t : ReadSound(job[c], at[c] + 1, arg[c], t)
    BY <2>2 DEF ReadSound
  <2>5. ASSUME NEW t \in Tables, t.library = db.library, t.source = db.source, t.mapping = db.mapping,
               t.progress = db.progress, t.history = db.history, t.schedule = db.schedule,
               t.followed = db.followed \/ db.followed = None \/ t.followed = None, Executes(c, t)
        PROVE  StoreInv' /\ KeptTables(db, db') /\ db'.progress = db.progress
    <3>1. Sound(t)
      BY <1>3, <2>5 DEF Sound, Agree
    <3>2. KeptTables(db, t)
      BY <2>5 DEF KeptTables
    <3> QED
      BY <1>2, <2>1, <2>3, <2>4, <2>5, <3>1, <3>2
  <2>6. CASE Executes(c, View(c))
    BY <1>3, <2>3, <2>5, <2>6
  <2>7. ASSUME NEW a \in AnimeIDs \cup {None}, Executes(c, [db EXCEPT !.metadata = a])
        PROVE  StoreInv' /\ KeptTables(db, db') /\ db'.progress = db.progress
    <3>1. PICK t : t = [db EXCEPT !.metadata = a]
      OBVIOUS
    <3> QED
      BY <1>3, <2>5, <2>7, <3>1, RowChanges
  <2>8. ASSUME NEW f \in Calls \cup {None}, f = None \/ db.followed = None, Executes(c, [db EXCEPT !.followed = f])
        PROVE  StoreInv' /\ KeptTables(db, db') /\ db'.progress = db.progress
    <3>1. PICK t : t = [db EXCEPT !.followed = f]
      OBVIOUS
    <3>2. /\ t \in Tables /\ t.library = db.library /\ t.source = db.source /\ t.mapping = db.mapping
          /\ t.progress = db.progress /\ t.history = db.history /\ t.schedule = db.schedule
          /\ t.followed = f
      BY <1>3, <3>1, RowChanges
    <3>3. Executes(c, t)
      BY <2>8, <3>1
    <3>4. t.followed = db.followed \/ db.followed = None \/ t.followed = None
      BY <2>8, <3>2
    <3> QED
      BY <2>5, <3>2, <3>3, <3>4
  <2> QED
    BY <2>1, <2>3, <2>6, <2>7, <2>8
<1> QED
  BY <1>4, <1>5, <1>6, <1>7

LEMMA Twice == ASSUME NEW c \in Calls PROVE Append(<<c>>, c) = <<c, c>>
<1>1. /\ <<c>> \in Seq(Calls) /\ Len(<<c>>) = 1 /\ <<c>>[1] = c
      /\ <<c, c>> \in Seq(Calls) /\ Len(<<c, c>>) = 2 /\ <<c, c>>[1] = c /\ <<c, c>>[2] = c
  OBVIOUS
<1>2. PICK q : q = Append(<<c>>, c)
  OBVIOUS
<1>3. q \in Seq(Calls) /\ Len(q) = 2 /\ q[1] = c /\ q[2] = c
  BY <1>1, <1>2, AppendProperties
<1>4. PICK r : r = <<c, c>>
  OBVIOUS
<1>5. r \in Seq(Calls) /\ Len(r) = 2 /\ r[1] = c /\ r[2] = c
  BY <1>1, <1>4
<1>6. \A i \in 1..Len(q) : q[i] = r[i]
  BY <1>3, <1>5
<1>7. q = r
  BY <1>3, <1>5, <1>6, SeqEqual
<1> QED
  BY <1>2, <1>4, <1>7

\* The statements inside a transaction: nothing is committed.
LEMMA TransactionSteps ==
  ASSUME StoreInv, NEW c \in Calls,
         \/ BeginTransaction(c) \/ LoadCheckpoint(c) \/ PutProgress(c) \/ PutHistory(c)
         \/ DropHistory(c) \/ DropProgress(c) \/ PutSource(c) \/ DropSchedule(c) \/ PutSchedule(c)
         \/ RequireAnime(c) /\ tx = c
  PROVE  StoreInv' /\ db' = db
<1>0. job[c] # "none"
  BY DEF BeginTransaction, LoadCheckpoint, PutProgress, PutHistory, DropHistory, DropProgress,
         PutSource, DropSchedule, PutSchedule, RequireAnime, IsAt, Active
<1>1. /\ job[c] \in DOMAIN Statements /\ at[c] \in 1..Len(Statements[job[c]]) /\ at[c] \in Nat
      /\ CallSound(c) /\ (tx = c <=> Begun(job[c], at[c]))
  BY <1>0, CallStands
<1>2. /\ Sound(db) /\ KeptTables(db, db) /\ db \in Tables /\ work \in Tables /\ Agree(db)
      /\ tx \in Calls \cup {None} /\ merged[c] \in Entries \cup {NoRecord}
      /\ None \notin AnimeIDs /\ None \notin Calls
      /\ db.progress \in [Episodes -> Entries \cup {NoRecord}] /\ db.history = db.progress
      /\ DOMAIN merged = Calls
  BY StoredFacts, Records, TableFields DEF StoreInv, TypeOK, Agree
<1>3. tx = c => WorkSound(c, job[c], at[c], arg[c], merged[c], work)
  BY <1>2 DEF StoreInv
<1>4. ASSUME Begun(job[c], at[c]), Statements[job[c]][at[c]] \notin {"begin", "commit"},
             NEW t \in Tables, Executes(c, t),
             WorkSound(c, job[c], at[c] + 1, arg[c], merged[c], t)
      PROVE  StoreInv' /\ db' = db
  BY <1>0, <1>4, InsideStep
<1>5. CASE BeginTransaction(c)
  <2>1. /\ Statements[job[c]][at[c]] = "begin" /\ tx = None /\ tx' = c /\ work' = db
        /\ at' = [at EXCEPT ![c] = @ + 1] /\ UNCHANGED <<opened, db, job, arg, merged, closing>>
    BY <1>5 DEF BeginTransaction, IsAt
  <2>2. /\ at[c] # Len(Statements[job[c]]) /\ job[c] # "SaveEpisodeMapping"
        /\ job[c] = "SavePlaybackCheckpoint" => at[c] = 1
        /\ job[c] = "RemoveHistory" => at[c] = 2
        /\ job[c] \in {"IngestSourceAnime", "ReplaceSchedule"} => at[c] = 1
    BY <1>1, <2>1, Places
  <2>3. WorkSound(c, job[c], at[c] + 1, arg[c], merged[c], db)
    BY <2>2 DEF WorkSound, CheckpointSound, RemovalSound, IngestSound, ScheduleSound
  <2>4. ReadSound(job[c], at[c] + 1, arg[c], db)
    BY <2>2 DEF ReadSound
  <2>5. merged' = [merged EXCEPT ![c] = merged[c]] /\ work' \in Tables
    BY <1>2, <2>1 DEF StoreInv, TypeOK
  <2> QED
    BY <1>0, <1>2, <2>1, <2>2, <2>3, <2>4, <2>5, CallGoesOn
<1>6. CASE RequireAnime(c) /\ tx = c
  <2>1. Statements[job[c]][at[c]] = "anime" /\ Executes(c, work)
    BY <1>6 DEF RequireAnime, IsAt, View
  <2>2. job[c] = "SavePlaybackCheckpoint" /\ at[c] = 2 /\ Begun(job[c], at[c])
    BY <1>1, <1>6, <2>1, Places DEF Begun
  <2>3. WorkSound(c, job[c], at[c] + 1, arg[c], merged[c], work)
    BY <1>3, <1>6, <2>2 DEF WorkSound, CheckpointSound
  <2> QED
    BY <1>2, <1>4, <2>1, <2>2, <2>3
<1>7. CASE LoadCheckpoint(c)
  <2>0. Statements[job[c]][at[c]] = "load"
    BY <1>7 DEF LoadCheckpoint, IsAt
  <2>1. job[c] = "SavePlaybackCheckpoint" /\ at[c] = 3 /\ at[c] # Len(Statements[job[c]])
    BY <1>1, <2>0, Places DEF Begun
  <2>2. tx = c /\ work = db /\ arg[c].episode \in Episodes /\ arg[c].progress \in Entries
    BY <1>1, <1>3, <2>1 DEF Begun, WorkSound, CheckpointSound, CallSound, ArgSound
  <2> DEFINE e == arg[c].episode
             stored == IF db.history[e] = NoRecord THEN db.progress[e]
                       ELSE MergeCheckpoint(db.progress[e], db.history[e])
             m == MergeCheckpoint(db.progress[e], arg[c].progress)
  <2>3. db.progress[e] \in Entries \cup {NoRecord}
    BY <1>2, <2>2
  <2>4. stored = db.progress[e]
    BY <1>2, <2>3, Merging
  <2>5. m \in Entries
    BY <2>2, <2>3, Merging
  <2>6. merged' = [merged EXCEPT ![c] = MergeCheckpoint(stored, arg[c].progress)]
    BY <1>7, <2>2 DEF LoadCheckpoint, View
  <2>7. merged' = [merged EXCEPT ![c] = m]
    BY <2>4, <2>6
  <2>8. /\ at' = [at EXCEPT ![c] = @ + 1] /\ UNCHANGED <<opened, closing>> /\ UNCHANGED <<job, arg>>
        /\ db' = db /\ work' = work /\ tx' = tx
    BY <1>7 DEF LoadCheckpoint
  <2>9. WorkSound(c, job[c], at[c] + 1, arg[c], m, work)
    BY <2>1, <2>2 DEF WorkSound, CheckpointSound
  <2>10. ReadSound(job[c], at[c] + 1, arg[c], db)
    BY <2>1 DEF ReadSound
  <2> HIDE DEF m, stored
  <2>11. Statements[job[c]][at[c]] # "begin" /\ tx' = c
    BY <2>0, <2>2, <2>8
  <2> QED
    BY <1>0, <1>2, <2>1, <2>2, <2>5, <2>7, <2>8, <2>9, <2>10, <2>11, CallGoesOn
<1>8. CASE PutProgress(c) \/ PutHistory(c)
  <2>0. /\ Statements[job[c]][at[c]] \in {"putProgress", "putHistory"}
        /\ PutProgress(c) => Statements[job[c]][at[c]] = "putProgress"
        /\ PutHistory(c) => Statements[job[c]][at[c]] = "putHistory"
    BY <1>8 DEF PutProgress, PutHistory, IsAt
  <2>1. /\ job[c] = "SavePlaybackCheckpoint" /\ at[c] \in {4, 5}
        /\ PutProgress(c) => at[c] = 4
        /\ PutHistory(c) => at[c] = 5
    BY <1>1, <2>0, Places
  <2>2. tx = c /\ arg[c].episode \in Episodes
    BY <1>1, <2>1 DEF Begun, CallSound, ArgSound
  <2>3. PICK records : records = [db.progress EXCEPT ![arg[c].episode] = merged[c]]
    OBVIOUS
  <2>4. records \in [Episodes -> Entries \cup {NoRecord}]
    BY <1>2, <2>3
  <2>5. CheckpointSound(at[c], arg[c], merged[c], work)
    BY <1>3, <2>1, <2>2 DEF WorkSound
  <2>6. CASE PutProgress(c)
    <3>1. Executes(c, [work EXCEPT !.progress[arg[c].episode] = merged[c]]) /\ work = db
      BY <2>1, <2>2, <2>5, <2>6 DEF PutProgress, View, CheckpointSound
    <3>2. [work EXCEPT !.progress[arg[c].episode] = merged[c]] = [db EXCEPT !.progress = records]
      BY <2>3, <3>1
    <3>3. [db EXCEPT !.progress = records] \in Tables
      BY <1>2, <2>4, RowChanges
    <3>4. WorkSound(c, job[c], at[c] + 1, arg[c], merged[c], [db EXCEPT !.progress = records])
      BY <2>1, <2>3, <2>5, <2>6 DEF WorkSound, CheckpointSound
    <3> QED
      BY <1>1, <1>4, <2>0, <2>2, <3>1, <3>2, <3>3, <3>4
  <2>7. CASE PutHistory(c)
    <3>1. Executes(c, [work EXCEPT !.history[arg[c].episode] = merged[c]]) /\ work = [db EXCEPT !.progress = records]
      BY <2>1, <2>2, <2>3, <2>5, <2>7 DEF PutHistory, View, CheckpointSound
    <3>2. work.history = db.progress
      BY <1>2, <3>1 DEF Tables
    <3>3. PICK t : t = [db EXCEPT !.progress = records, !.history = records]
      OBVIOUS
    <3>4. [work EXCEPT !.history = records] = t
      BY <1>2, <3>1, <3>3 DEF Tables
    <3>5. [work EXCEPT !.history[arg[c].episode] = merged[c]] = [work EXCEPT !.history = records]
      BY <2>3, <3>2
    <3>6. t \in Tables
      BY <1>2, <2>4, <3>3, ProgressChanges
    <3>7. WorkSound(c, job[c], at[c] + 1, arg[c], merged[c], t)
      BY <2>1, <2>3, <2>5, <2>7, <3>3 DEF WorkSound, CheckpointSound
    <3> QED
      BY <1>1, <1>4, <2>0, <2>2, <3>1, <3>4, <3>5, <3>6, <3>7
  <2> QED
    BY <1>8, <2>6, <2>7
<1>9. CASE DropHistory(c) \/ DropProgress(c)
  <2>0. /\ Statements[job[c]][at[c]] \in {"dropHistory", "dropProgress"}
        /\ DropHistory(c) => Statements[job[c]][at[c]] = "dropHistory"
        /\ DropProgress(c) => Statements[job[c]][at[c]] = "dropProgress"
    BY <1>9 DEF DropHistory, DropProgress, IsAt
  <2>1. /\ job[c] = "RemoveHistory" /\ at[c] \in {3, 4}
        /\ DropHistory(c) => at[c] = 3
        /\ DropProgress(c) => at[c] = 4
    BY <1>1, <2>0, Places
  <2>2. tx = c /\ Begun(job[c], at[c])
    BY <1>1, <2>1 DEF Begun
  <2>3. PICK records : records = Without(db.progress, arg[c].anime)
    OBVIOUS
  <2>4. records \in [Episodes -> Entries \cup {NoRecord}]
    BY <1>2, <2>3 DEF Without
  <2>5. RemovalSound(at[c], arg[c], work)
    BY <1>3, <2>1, <2>2 DEF WorkSound
  <2>6. CASE DropHistory(c)
    <3>1. work = db /\ Executes(c, [work EXCEPT !.history = Without(work.history, arg[c].anime)])
      BY <2>1, <2>2, <2>5, <2>6 DEF DropHistory, View, RemovalSound
    <3>2. Executes(c, [db EXCEPT !.history = records])
      BY <1>2, <2>3, <3>1
    <3>3. [db EXCEPT !.history = records] \in Tables
      BY <1>2, <2>4, RowChanges
    <3>4. WorkSound(c, job[c], at[c] + 1, arg[c], merged[c], [db EXCEPT !.history = records])
      BY <2>1, <2>3, <2>6 DEF WorkSound, RemovalSound
    <3> QED
      BY <1>4, <2>0, <2>2, <3>2, <3>3, <3>4
  <2>7. CASE DropProgress(c)
    <3>1. work = [db EXCEPT !.history = records]
          /\ Executes(c, [work EXCEPT !.progress = Without(work.progress, arg[c].anime)])
      BY <2>1, <2>2, <2>3, <2>5, <2>7 DEF DropProgress, View, RemovalSound
    <3>2. work.progress = db.progress
      BY <1>2, <3>1 DEF Tables
    <3>3. PICK t : t = [db EXCEPT !.progress = records, !.history = records]
      OBVIOUS
    <3>4. [work EXCEPT !.progress = records] = t
      BY <1>2, <3>1, <3>3 DEF Tables
    <3>5. Executes(c, t)
      BY <2>3, <3>1, <3>2, <3>4
    <3>6. t \in Tables
      BY <1>2, <2>4, <3>3, ProgressChanges
    <3>7. WorkSound(c, job[c], at[c] + 1, arg[c], merged[c], t)
      BY <2>1, <2>3, <2>7, <3>3 DEF WorkSound, RemovalSound
    <3> QED
      BY <1>4, <2>0, <2>2, <3>5, <3>6, <3>7
  <2> QED
    BY <1>9, <2>6, <2>7
<1>10. CASE PutSource(c)
  <2>0. Statements[job[c]][at[c]] = "putSource"
    BY <1>10 DEF PutSource, IsAt
  <2>1. job[c] = "IngestSourceAnime" /\ at[c] = 2
    BY <1>1, <2>0, Places
  <2>2. tx = c /\ Begun(job[c], at[c])
    BY <1>1, <2>1 DEF Begun
  <2>3. work = db
    BY <1>3, <2>1, <2>2 DEF WorkSound, IngestSound
  <2>4. Executes(c, IF db.source # None THEN db ELSE [db EXCEPT !.library = @ \cup {c}, !.source = c])
    BY <1>10, <2>2, <2>3 DEF PutSource, View
  <2>5. CASE db.source # None
    <3>1. WorkSound(c, job[c], at[c] + 1, arg[c], merged[c], db)
      BY <2>1 DEF WorkSound, IngestSound
    <3> QED
      BY <1>2, <1>4, <2>0, <2>2, <2>4, <2>5, <3>1
  <2>6. CASE db.source = None
    <3>1. PICK t : t = [db EXCEPT !.library = @ \cup {c}, !.source = c]
      OBVIOUS
    <3>2. db.library \cup {c} \in SUBSET AnimeIDs /\ c \in AnimeIDs
      BY <1>2, TableFields, Records
    <3>3. t \in Tables
      BY <1>2, <3>1, <3>2, SourceChanges
    <3>4. WorkSound(c, job[c], at[c] + 1, arg[c], merged[c], t)
      BY <2>1, <2>6, <3>1 DEF WorkSound, IngestSound
    <3>5. Executes(c, t)
      BY <2>4, <2>6, <3>1
    <3> QED
      BY <1>4, <2>0, <2>2, <3>3, <3>4, <3>5
  <2> QED
    BY <2>5, <2>6
<1>11. CASE DropSchedule(c) \/ PutSchedule(c)
  <2>0. /\ Statements[job[c]][at[c]] \in {"dropSchedule", "putSchedule"}
        /\ DropSchedule(c) => Statements[job[c]][at[c]] = "dropSchedule"
        /\ PutSchedule(c) => Statements[job[c]][at[c]] = "putSchedule"
    BY <1>11 DEF DropSchedule, PutSchedule, IsAt
  <2>1. /\ job[c] = "ReplaceSchedule" /\ at[c] \in {2, 3, 4}
        /\ DropSchedule(c) => at[c] = 2
        /\ PutSchedule(c) => at[c] \in {3, 4}
    BY <1>1, <2>0, Places
  <2>2. tx = c /\ Begun(job[c], at[c])
    BY <1>1, <2>1 DEF Begun
  <2>3. ScheduleSound(c, at[c], work)
    BY <1>3, <2>1, <2>2 DEF WorkSound
  <2>4. ASSUME NEW q \in Seq(Calls), Executes(c, [db EXCEPT !.schedule = q]),
               ScheduleSound(c, at[c] + 1, [db EXCEPT !.schedule = q])
        PROVE  StoreInv' /\ db' = db
    <3>1. [db EXCEPT !.schedule = q] \in Tables
      BY <1>2, RowChanges
    <3>2. WorkSound(c, job[c], at[c] + 1, arg[c], merged[c], [db EXCEPT !.schedule = q])
      BY <2>1, <2>4 DEF WorkSound
    <3> QED
      BY <1>4, <2>0, <2>2, <2>4, <3>1, <3>2
  <2>5. CASE DropSchedule(c)
    <3>1. Executes(c, [db EXCEPT !.schedule = <<>>])
      BY <2>1, <2>2, <2>3, <2>5 DEF DropSchedule, View, ScheduleSound
    <3>2. ScheduleSound(c, at[c] + 1, [db EXCEPT !.schedule = <<>>])
      BY <2>1, <2>5 DEF ScheduleSound
    <3>3. <<>> \in Seq(Calls)
      OBVIOUS
    <3> QED
      BY <2>4, <3>1, <3>2, <3>3
  <2>6. CASE PutSchedule(c) /\ at[c] = 3
    <3>1. work = [db EXCEPT !.schedule = <<>>] /\ Executes(c, [work EXCEPT !.schedule = Append(work.schedule, c)])
      BY <2>2, <2>3, <2>6 DEF PutSchedule, View, ScheduleSound
    <3>2. work.schedule = <<>> /\ [work EXCEPT !.schedule = <<c>>] = [db EXCEPT !.schedule = <<c>>]
      BY <1>2, <3>1 DEF Tables
    <3>3. Append(<<>>, c) = <<c>> /\ <<c>> \in Seq(Calls)
      OBVIOUS
    <3>4. ScheduleSound(c, at[c] + 1, [db EXCEPT !.schedule = <<c>>])
      BY <2>6 DEF ScheduleSound
    <3>5. Executes(c, [db EXCEPT !.schedule = <<c>>])
      BY <3>1, <3>2, <3>3
    <3> QED
      BY <2>4, <3>3, <3>4, <3>5
  <2>7. CASE PutSchedule(c) /\ at[c] = 4
    <3>1. work = [db EXCEPT !.schedule = <<c>>] /\ Executes(c, [work EXCEPT !.schedule = Append(work.schedule, c)])
      BY <2>2, <2>3, <2>7 DEF PutSchedule, View, ScheduleSound
    <3>2. work.schedule = <<c>> /\ [work EXCEPT !.schedule = <<c, c>>] = [db EXCEPT !.schedule = <<c, c>>]
      BY <1>2, <3>1 DEF Tables
    <3>3. Append(<<c>>, c) = <<c, c>>
      BY Twice
    <3>4. <<c, c>> \in Seq(Calls)
      OBVIOUS
    <3>5. ScheduleSound(c, at[c] + 1, [db EXCEPT !.schedule = <<c, c>>])
      BY <2>7 DEF ScheduleSound
    <3>6. Executes(c, [db EXCEPT !.schedule = <<c, c>>])
      BY <3>1, <3>2, <3>3
    <3> QED
      BY <2>4, <3>4, <3>5, <3>6
  <2> QED
    BY <1>11, <2>1, <2>5, <2>6, <2>7
<1> QED
  BY <1>5, <1>6, <1>7, <1>8, <1>9, <1>10, <1>11

\* A commit makes the tables those of its transaction: the only step by which
\* the records of progress change.
LEMMA CommitStep ==
  ASSUME StoreInv, NEW c \in Calls, Commit(c)
  PROVE  StoreInv' /\ KeptTables(db, db') /\ (db'.progress = db.progress \/ Promised!Next)
<1>0. job[c] # "none" /\ Statements[job[c]][at[c]] = "commit" /\ tx = c
  BY DEF Commit, IsAt, Active
<1>1. /\ job[c] \in DOMAIN Statements /\ at[c] \in 1..Len(Statements[job[c]]) /\ at[c] \in Nat
      /\ CallSound(c)
  BY <1>0, CallStands
<1>2. /\ db \in Tables /\ work \in Tables /\ Agree(db) /\ merged[c] \in Entries \cup {NoRecord}
      /\ None \notin AnimeIDs /\ None \notin Calls /\ KeptTables(db, db) /\ Sound(db)
      /\ Known \in db.library /\ Other \in db.library
      /\ db.progress \in [Episodes -> Entries \cup {NoRecord}]
  BY StoredFacts, Records, TableFields DEF StoreInv
<1>3. WorkSound(c, job[c], at[c], arg[c], merged[c], work)
  BY <1>0, <1>2 DEF StoreInv
<1>4. /\ db' = work /\ work' = work /\ End(c) /\ UNCHANGED <<opened, closing>>
  BY DEF Commit
<1>5. SUFFICES Sound(work) /\ KeptTables(db, work) /\ (work.progress = db.progress \/ Promised!Next)
  BY <1>0, <1>2, <1>4, CallEnds
<1>6. ASSUME NEW p \in [Episodes -> Entries \cup {NoRecord}],
             work = [db EXCEPT !.progress = p, !.history = p]
      PROVE  Sound(work) /\ KeptTables(db, work) /\ work.progress = p
  <2>1. /\ work \in Tables /\ work.library = db.library /\ work.source = db.source /\ work.mapping = db.mapping
        /\ work.progress = p /\ work.history = p /\ work.schedule = db.schedule
        /\ work.followed = db.followed
    <3>1. PICK t : t = [db EXCEPT !.progress = p, !.history = p]
      OBVIOUS
    <3>2. /\ t \in Tables /\ t.library = db.library /\ t.source = db.source /\ t.mapping = db.mapping
          /\ t.progress = p /\ t.history = p /\ t.schedule = db.schedule
          /\ t.followed = db.followed
      <4>1. db \in Tables
        BY <1>2
      <4> QED
        BY <3>1, <4>1 DEF Tables
    <3> QED
      BY <1>6, <3>1, <3>2
  <2> QED
    BY <1>2, <2>1 DEF Sound, Agree, KeptTables
<1>7. CASE job[c] = "SavePlaybackCheckpoint"
  <2>1. CheckpointSound(at[c], arg[c], merged[c], work) /\ at[c] = 6
        /\ arg[c].episode \in Episodes /\ arg[c].progress \in Entries
    BY <1>0, <1>1, <1>3, <1>7, Places DEF WorkSound, CallSound, ArgSound
  <2>2. PICK p : p = [db.progress EXCEPT ![arg[c].episode] = merged[c]]
    OBVIOUS
  <2>3. p \in [Episodes -> Entries \cup {NoRecord}]
    BY <1>2, <2>2
  <2>4. /\ work = [db EXCEPT !.progress = p, !.history = p]
        /\ merged[c] = MergeCheckpoint(db.progress[arg[c].episode], arg[c].progress)
    BY <2>1, <2>2 DEF CheckpointSound
  <2>5. Sound(work) /\ KeptTables(db, work) /\ work.progress = p
    BY <1>6, <2>3, <2>4
  <2>6. db.progress[arg[c].episode] \in Entries \cup {NoRecord}
    BY <1>2, <2>1
  <2>7. merged[c] = Promised!Merge(db.progress[arg[c].episode], arg[c].progress)
    BY <2>1, <2>4, <2>6, Merging
  <2>8. db'.progress = [db.progress EXCEPT ![arg[c].episode] = Promised!Merge(@, arg[c].progress)]
    BY <1>4, <2>2, <2>5, <2>7
  <2>9. Promised!Entries = Entries
    BY DEF Promised!Entries, Entries
  <2>10. Promised!Next
    BY <2>1, <2>8, <2>9 DEF Promised!Next, Promised!Save
  <2> QED
    BY <2>5, <2>10
<1>8. CASE job[c] = "RemoveHistory"
  <2>1. RemovalSound(at[c], arg[c], work) /\ at[c] = 5 /\ arg[c].anime = Known
    BY <1>0, <1>1, <1>3, <1>8, Places DEF WorkSound, CallSound, ArgSound
  <2>2. PICK p : p = Without(db.progress, arg[c].anime)
    OBVIOUS
  <2>3. p \in [Episodes -> Entries \cup {NoRecord}]
    BY <1>2, <2>2 DEF Without
  <2>4. work = [db EXCEPT !.progress = p, !.history = p]
    BY <2>1, <2>2 DEF RemovalSound
  <2>5. Sound(work) /\ KeptTables(db, work) /\ work.progress = p
    BY <1>6, <2>3, <2>4
  <2>6. "known" \in Episodes /\ AnimeOf["known"] = Known
    BY DEF Episodes, AnimeOf
  <2>7. db'.progress = [e \in Episodes |-> IF AnimeOf[e] = AnimeOf["known"] THEN NoRecord ELSE db.progress[e]]
    BY <1>4, <2>1, <2>2, <2>5, <2>6 DEF Without
  <2>8. Promised!Next
    BY <2>6, <2>7 DEF Promised!Next, Promised!Remove
  <2> QED
    BY <2>5, <2>8
<1>9. CASE job[c] = "IngestSourceAnime"
  <2>1. IngestSound(c, at[c], work) /\ at[c] = 3
    BY <1>0, <1>1, <1>3, <1>9, Places DEF WorkSound
  <2>2. CASE work = db
    BY <1>2, <2>2
  <2>3. CASE db.source = None /\ work = [db EXCEPT !.library = @ \cup {c}, !.source = c]
    <3>1. db.library \cup {c} \in SUBSET AnimeIDs /\ c \in AnimeIDs
      BY <1>2, TableFields, Records
    <3>2. /\ work \in Tables /\ work.library = db.library \cup {c} /\ work.source = c
          /\ work.mapping = db.mapping /\ work.progress = db.progress /\ work.history = db.history
          /\ work.schedule = db.schedule /\ work.followed = db.followed
      <4>1. PICK t : t = [db EXCEPT !.library = db.library \cup {c}, !.source = c]
        OBVIOUS
      <4>2. /\ t \in Tables /\ t.library = db.library \cup {c} /\ t.source = c
            /\ t.mapping = db.mapping /\ t.progress = db.progress /\ t.history = db.history
            /\ t.schedule = db.schedule /\ t.followed = db.followed
        <5>1. db \in Tables
          BY <1>2
        <5> QED
          BY <3>1, <4>1, <5>1 DEF Tables
      <4> QED
        BY <2>3, <4>1, <4>2
    <3>3. db.mapping = NoMapping
      <4>1. db.mapping = NoMapping \/ db.mapping.anime \in AnimeIDs
        BY <1>2, TableFields
      <4> QED
        BY <1>2, <2>3, <4>1 DEF Agree
    <3> QED
      BY <1>2, <2>3, <3>2, <3>3 DEF Sound, Agree, KeptTables
  <2> QED
    BY <2>1, <2>2, <2>3 DEF IngestSound
<1>10. CASE job[c] = "ReplaceSchedule"
  <2>1. ScheduleSound(c, at[c], work) /\ at[c] = 5
    BY <1>0, <1>1, <1>3, <1>10, Places DEF WorkSound
  <2>2. work = [db EXCEPT !.schedule = <<c, c>>] /\ <<c, c>> \in Seq(Calls)
    BY <2>1 DEF ScheduleSound
  <2>3. /\ work \in Tables /\ work.library = db.library /\ work.source = db.source /\ work.mapping = db.mapping
        /\ work.progress = db.progress /\ work.history = db.history /\ work.schedule = <<c, c>>
        /\ work.followed = db.followed
    BY <1>2, <2>2, RowChanges
  <2> QED
    BY <1>2, <2>3 DEF Sound, Agree, KeptTables
<1> QED
  BY <1>0, <1>1, <1>7, <1>8, <1>9, <1>10, Places

-----------------------------------------------------------------------------
(* The steps of the store. *)

LEMMA SomePlaces == ASSUME NEW w \in DOMAIN Statements PROVE Len(Statements[w]) \in Nat /\ Len(Statements[w]) >= 1
<1>1. CASE w = "SavePlaybackCheckpoint"
  BY <1>1 DEF Statements, SavePlaybackCheckpoint
<1>2. CASE w = "RemoveHistory"
  BY <1>2 DEF Statements, RemoveHistory
<1>3. CASE w = "IngestSourceAnime"
  BY <1>3 DEF Statements, IngestSourceAnime
<1>4. CASE w = "SaveSourceRef"
  BY <1>4 DEF Statements, SaveSourceRef
<1>5. CASE w = "SaveEpisodeMapping"
  BY <1>5 DEF Statements, SaveEpisodeMapping
<1>6. CASE w = "SaveMetadata"
  BY <1>6 DEF Statements, SaveMetadata
<1>7. CASE w = "Follow"
  BY <1>7 DEF Statements, Follow
<1>8. CASE w = "Unfollow"
  BY <1>8 DEF Statements, Unfollow
<1>9. CASE w = "ReplaceSchedule"
  BY <1>9 DEF Statements, ReplaceSchedule
<1>10. CASE w = "SaveAnime"
  BY <1>10 DEF Statements, SaveAnime
<1>11. CASE w = "SaveSettings"
  BY <1>11 DEF Statements, SaveSettings
<1>12. CASE w = "ListAll"
  BY <1>12 DEF Statements, ListAll
<1>13. CASE w = "ReadOne"
  BY <1>13 DEF Statements, ReadOne
<1> QED
  BY NamedWork, <1>1, <1>2, <1>3, <1>4, <1>5, <1>6, <1>7, <1>8, <1>9, <1>10, <1>11, <1>12, <1>13

LEMMA BeginStep ==
  ASSUME StoreInv, NEW c \in Calls, Begin(c)
  PROVE  StoreInv' /\ db' = db
<1>0. /\ opening = "open" /\ at[c] = 0 /\ at' = [at EXCEPT ![c] = 1]
      /\ UNCHANGED <<opened, db, tx, work, merged, closing>>
      /\ \/ UNCHANGED <<job, arg>>
         \/ \E w \in Work : \E a \in Args(c, w) :
              job' = [job EXCEPT ![c] = w] /\ arg' = [arg EXCEPT ![c] = a]
  BY DEF Begin
<1>1. TypeOK /\ OpeningInv' /\ tx \in Calls \cup {None} /\ None \notin Calls /\ None \notin AnimeIDs
  BY <1>0, OpeningKeeps, Records DEF StoreInv, TypeOK
<1>2. job[c] = "none" /\ tx # c
  BY <1>0, CallStands DEF StoreInv, CallSound, Begun
<1>3. Sound(db) /\ KeptTables(db, db)
  BY StoredFacts
<1>4. at' \in [Calls -> 0..6] /\ at'[c] = 1
  BY <1>0, <1>1 DEF TypeOK
<1>5. CASE UNCHANGED <<job, arg>>
  <2>1. TypeOK'
    BY <1>0, <1>1, <1>4, <1>5 DEF TypeOK, OpeningInv
  <2>2. CallSound(c)'
    BY <1>0, <1>2, <1>4, <1>5 DEF CallSound, ArgSound, ReadSound, Begun
  <2>3. \A d \in Calls \ {c} : job'[d] = job[d] /\ at'[d] = at[d] /\ arg'[d] = arg[d] /\ merged'[d] = merged[d]
    BY <1>0, <1>1, <1>5 DEF TypeOK
  <2>4. Sound(db)' /\ KeptTables(db, db') /\ DOMAIN arg' = Calls
    BY <1>0, <1>3, <1>5 DEF Sound, Agree, StoreInv
  <2> QED
    BY <1>0, <1>1, <1>2, <2>1, <2>2, <2>3, <2>4, CallMoves
<1>6. ASSUME NEW w \in Work, NEW a \in Args(c, w), job' = [job EXCEPT ![c] = w], arg' = [arg EXCEPT ![c] = a]
      PROVE  StoreInv' /\ db' = db
  <2>1. w \in DOMAIN Statements /\ job'[c] = w /\ arg'[c] = a /\ job' \in [Calls -> Work \cup {"none"}]
    BY <1>1, <1>6, StorageAssumption DEF StoreInv, TypeOK
  <2>2. TypeOK'
    BY <1>0, <1>1, <1>4, <2>1 DEF TypeOK, OpeningInv
  <2>3. Len(Statements[w]) \in Nat /\ Len(Statements[w]) >= 1
    BY <2>1, SomePlaces
  <2>4. ArgSound(w, a)
    <3>0. Known \in AnimeIDs /\ Other \in AnimeIDs
      BY Records
    <3>1. CASE w = "SavePlaybackCheckpoint"
      <4>1. a \in [anime : {Known, Other}, episode : Episodes, numbered : {FALSE}, progress : Entries]
        BY <1>6, <3>1 DEF Args
      <4> QED
        BY <3>1, <4>1 DEF ArgSound
    <3>2. CASE w = "SaveEpisodeMapping"
      <4>1. a \in [anime : {Known, db.source} \ {None}, episode : {c, db.mapping.episode} \ {None},
                   numbered : BOOLEAN, progress : {NoRecord}]
        BY <1>6, <3>2 DEF Args
      <4>2. db.source \in AnimeIDs \cup {None} /\ db.mapping.episode \in Calls \cup {None}
        BY <1>3, TableFields, Records DEF Sound
      <4> QED
        BY <3>0, <3>2, <4>1, <4>2 DEF ArgSound
    <3>3. CASE w \in {"SaveSourceRef", "SaveMetadata"}
      <4>1. a.anime \in {Known, Other}
        BY <1>6, <3>3 DEF Args
      <4> QED
        BY <3>3, <4>1 DEF ArgSound
    <3>4. CASE w \notin {"SavePlaybackCheckpoint", "SaveEpisodeMapping", "SaveSourceRef", "SaveMetadata"}
      <4>1. a = NoArg
        BY <1>6, <3>4 DEF Args
      <4> QED
        BY <3>4, <4>1 DEF ArgSound, NoArg
    <3> QED
      BY <3>1, <3>2, <3>3, <3>4
  <2>5. CallSound(c)'
    <3>1. ~Begun(w, 1)
      BY DEF Begun
    <3>2. ReadSound(w, 1, a, db)
      BY DEF ReadSound
    <3> QED
      BY <1>0, <1>2, <1>4, <2>1, <2>3, <2>4, <3>1, <3>2 DEF CallSound
  <2>6. \A d \in Calls \ {c} : job'[d] = job[d] /\ at'[d] = at[d] /\ arg'[d] = arg[d] /\ merged'[d] = merged[d]
    BY <1>0, <1>1, <1>6 DEF TypeOK, StoreInv
  <2>7. Sound(db)' /\ KeptTables(db, db') /\ DOMAIN arg' = Calls
    BY <1>0, <1>3, <1>6 DEF Sound, Agree, StoreInv
  <2> QED
    BY <1>0, <1>1, <1>2, <2>2, <2>5, <2>6, <2>7, CallMoves
<1> QED
  BY <1>0, <1>5, <1>6

\* Every step keeps the invariant; what rows are named by stays, a foreign
\* file is left alone, and progress changes as the abstract store's does.
LEMMA StoreStep ==
  ASSUME StoreInv, [Next]_vars
  PROVE  /\ StoreInv' /\ KeptTables(db, db') /\ (db'.progress = db.progress \/ Promised!Next)
         /\ opened' = opened \/ ((~Ours(file) => file' = file) /\ file'.applied >= file.applied)
<1>0. TypeOK /\ OpeningInv /\ Sound(db) /\ KeptTables(db, db) /\ None \notin Calls
      /\ file.applied \in Nat /\ DOMAIN arg = Calls
  BY StoredFacts, Records, OpeningAssumption DEF StoreInv, TypeOK, OpeningTypeOK, Schemas
<1>2. ASSUME OpeningInv', UNCHANGED <<db, tx, work, job, at, arg, merged>>, closing' \in BOOLEAN
      PROVE  StoreInv' /\ db' = db
  <2>1. TypeOK'
    BY <1>0, <1>2 DEF TypeOK, OpeningInv
  <2>2. Agree(db)' /\ Known \in db'.library /\ Other \in db'.library /\ DOMAIN arg' = Calls
    BY <1>0, <1>2 DEF Sound, Agree
  <2>3. ASSUME NEW c \in Calls PROVE CallSound(c)'
    <3>1. CallSound(c)
      BY DEF StoreInv
    <3> QED
      BY <1>2, <3>1 DEF CallSound
  <2>4. tx' # None => WorkSound(tx, job[tx], at[tx], arg[tx], merged[tx], work)'
    <3>1. tx # None => WorkSound(tx, job[tx], at[tx], arg[tx], merged[tx], work)
      BY DEF StoreInv
    <3> QED
      BY <1>2, <3>1 DEF WorkSound, CheckpointSound, RemovalSound, IngestSound, ScheduleSound
  <2> QED
    BY <1>2, <2>1, <2>2, <2>3, <2>4 DEF StoreInv
<1>1. CASE UNCHANGED vars
  <2>1. UNCHANGED opened /\ UNCHANGED <<db, tx, work, job, at, arg, merged>> /\ closing' = closing
    BY <1>1 DEF vars, calls
  <2>2. OpeningInv' /\ closing' \in BOOLEAN
    BY <1>0, <2>1, OpeningKeeps DEF TypeOK
  <2> QED
    BY <1>0, <1>2, <2>1, <2>2
<1>3. CASE Open
  <2>1. OpeningStep /\ UNCHANGED <<db, tx, work, job, at, arg, merged, closing>>
    BY <1>3 DEF Open, calls
  <2> QED
    BY <1>0, <1>2, <2>1, OpeningSteps DEF TypeOK
<1>4. CASE CloseBegin
  <2>1. UNCHANGED opened /\ UNCHANGED <<db, tx, work, job, at, arg, merged>> /\ closing' = TRUE
    BY <1>4 DEF CloseBegin, calls
  <2> QED
    BY <1>0, <1>2, <2>1, OpeningKeeps
<1>5. CASE CloseEnd
  <2>1. opening' = "shut" /\ UNCHANGED <<file, draft, created, openings, given>>
        /\ UNCHANGED <<db, tx, work, job, at, arg, merged>> /\ closing' = FALSE
    BY <1>5 DEF CloseEnd, calls
  <2>2. OpeningInv' /\ file' = file
    BY <1>0, <2>1, OpeningEnds
  <2>3. StoreInv' /\ db' = db
    BY <1>2, <2>1, <2>2
  <2> QED
    BY <1>0, <2>2, <2>3
<1>6. CASE Killed
  <2>1. /\ OpeningKilled /\ job' = [c \in Calls |-> "none"] /\ at' = [c \in Calls |-> IF at[c] = 0 THEN 0 ELSE 1]
        /\ arg' = [c \in Calls |-> NoArg] /\ merged' = [c \in Calls |-> NoRecord]
        /\ tx' = None /\ closing' = FALSE /\ db' = db /\ work' = work
    BY <1>6 DEF Killed
  <2>2. OpeningInv' /\ file' = file
    BY <1>0, <2>1, OpeningEnds DEF OpeningKilled
  <2>3. TypeOK'
    <3>1. job' \in [Calls -> Work \cup {"none"}] /\ merged' \in [Calls -> Entries \cup {NoRecord}]
      BY <2>1
    <3>2. at' \in [Calls -> 0..6]
      BY <2>1
    <3>3. db' \in Tables /\ work' \in Tables /\ tx' \in Calls \cup {None} /\ closing' \in BOOLEAN
      BY <1>0, <2>1 DEF TypeOK
    <3> QED
      BY <2>2, <3>1, <3>2, <3>3 DEF TypeOK, OpeningInv
  <2>4. \A c \in Calls : CallSound(c)'
    BY <1>0, <2>1 DEF CallSound, ArgSound, ReadSound, Begun
  <2> QED
    BY <1>0, <2>1, <2>2, <2>3, <2>4 DEF StoreInv, Sound, Agree
<1>7. ASSUME NEW c \in Calls, Begin(c) \/ Statement(c) \/ Fails(c)
      PROVE  /\ StoreInv' /\ KeptTables(db, db') /\ (db'.progress = db.progress \/ Promised!Next)
             /\ UNCHANGED opened
  <2>1. UNCHANGED opened
    BY <1>7 DEF Begin, Statement, Fails, BeginTransaction, Commit, Query, RequireAnime, LoadCheckpoint,
       PutProgress, PutHistory, DropHistory, DropProgress, PutSource, ClaimSource, SourceOf, InsertMapping,
       WhoMapped, PutNumber, PutMetadata, PutFollowing, DropFollowing, DropSchedule, PutSchedule,
       Executes, Returns, Leaves
  <2>2. CASE Begin(c)
    BY <1>0, <2>1, <2>2, BeginStep
  <2>3. CASE Fails(c)
    <3>1. End(c) /\ UNCHANGED <<opened, db, work, closing>>
      BY <2>3 DEF Fails
    <3> QED
      BY <1>0, <2>1, <3>1, StoredFacts, CallEnds
  <2>4. CASE Commit(c)
    BY <2>1, <2>4, CommitStep
  <2>5. CASE ClaimSource(c) \/ InsertMapping(c) \/ PutNumber(c) \/ PutMetadata(c) \/ PutFollowing(c) \/ DropFollowing(c)
    BY <2>1, <2>5, WritingSteps
  <2>6. CASE Query(c) \/ SourceOf(c) \/ WhoMapped(c) \/ (RequireAnime(c) /\ tx # c)
    BY <1>0, <2>1, <2>6, ReadingSteps
  <2>7. CASE \/ BeginTransaction(c) \/ LoadCheckpoint(c) \/ PutProgress(c) \/ PutHistory(c)
             \/ DropHistory(c) \/ DropProgress(c) \/ PutSource(c) \/ DropSchedule(c) \/ PutSchedule(c)
             \/ RequireAnime(c) /\ tx = c
    BY <1>0, <2>1, <2>7, TransactionSteps
  <2> QED
    BY <1>7, <2>2, <2>3, <2>4, <2>5, <2>6, <2>7 DEF Statement
<1> QED
  BY <1>0, <1>1, <1>3, <1>4, <1>5, <1>6, <1>7, OpeningSteps DEF Next, opened, vars, CloseBegin, CloseEnd, Killed, OpeningKilled

LEMMA StoreStart == Init => StoreInv /\ Promised!Init
<1> SUFFICES ASSUME Init PROVE StoreInv /\ Promised!Init
  OBVIOUS
<1>1. /\ OpeningInit /\ tx = None /\ work = db /\ closing = FALSE
      /\ job = [c \in Calls |-> "none"] /\ at = [c \in Calls |-> 0]
      /\ arg = [c \in Calls |-> NoArg] /\ merged = [c \in Calls |-> NoRecord]
  BY DEF Init
<1>2. PICK source \in {None, Known} :
        db = [library |-> {Known, Other}, source |-> source, mapping |-> NoMapping,
              progress |-> [e \in Episodes |-> NoRecord], history |-> [e \in Episodes |-> NoRecord],
              metadata |-> None, followed |-> None, schedule |-> <<>>]
  BY DEF Init
<1>3. {Known, Other} \in SUBSET AnimeIDs /\ source \in AnimeIDs \cup {None} /\ <<>> \in Seq(Calls)
  BY Records
<1>4. [e \in Episodes |-> NoRecord] \in [Episodes -> Entries \cup {NoRecord}]
  OBVIOUS
<1>5. db \in Tables
  BY <1>2, <1>3, <1>4 DEF Tables
<1>6. /\ db.progress = [e \in Episodes |-> NoRecord] /\ db.history = db.progress /\ db.mapping = NoMapping
      /\ db.source = source /\ db.library = {Known, Other} /\ db.schedule = <<>>
  BY <1>2
<1>7. Agree(db)
  BY <1>6, Records DEF Agree
<1>8. OpeningInv
  <2>1. file \in Found /\ given = file /\ draft = NoFile /\ opening = "shut" /\ created = FALSE /\ openings = 0
    BY <1>1 DEF OpeningInit
  <2>2. openings \in 0..MaxOpenings
    BY <2>1, OpeningAssumption
  <2> QED
    BY <2>1, <2>2, FoundSchemas DEF OpeningInv, OpeningTypeOK, OwnFileOpens
<1>9. TypeOK
  <2>1. job \in [Calls -> Work \cup {"none"}] /\ merged \in [Calls -> Entries \cup {NoRecord}]
    BY <1>1
  <2>2. at \in [Calls -> 0..6]
    BY <1>1
  <2>3. db \in Tables /\ work \in Tables /\ tx \in Calls \cup {None} /\ closing \in BOOLEAN /\ OpeningTypeOK
    BY <1>1, <1>5, <1>8 DEF OpeningInv
  <2> QED
    BY <2>1, <2>2, <2>3 DEF TypeOK
<1>10. \A c \in Calls : CallSound(c)
  BY <1>1, Records DEF CallSound, ArgSound, ReadSound, Begun
<1>11. Promised!Init
  BY <1>6 DEF Promised!Init
<1> QED
  BY <1>1, <1>6, <1>7, <1>8, <1>9, <1>10, <1>11 DEF StoreInv

\* For any number of operations, openings and migrations, killed anywhere:
\* what is committed agrees, and the program's own file is never refused
\* (SQLiteStore, runMigrations).
THEOREM CommittedAgrees == Spec => []StoreAgrees
<1>1. StoreInv /\ [Next]_vars => StoreInv'
  BY StoreStep
<1>2. StoreInv => StoreAgrees
  BY DEF StoreInv, StoreAgrees, OpeningInv, TablesAgree, Agree
<1> QED
  BY <1>1, <1>2, StoreStart, PTL DEF Spec

\* A foreign file is never changed, no file loses a migration, and what other
\* rows are named by stays.
THEOREM NamesStay == Spec => OthersAreKept
<1>1. StoreInv /\ [Next]_vars => StoreInv'
  BY StoreStep
<1>2. ASSUME StoreInv, [Next]_vars
      PROVE  [/\ ~Ours(file) => UNCHANGED file
              /\ file'.applied >= file.applied]_opened
  BY <1>2, StoreStep
<1>3. ASSUME StoreInv, [Next]_vars
      PROVE  [/\ db.source # None => db'.source = db.source
              /\ db.mapping # NoMapping =>
                    /\ db'.mapping.episode = db.mapping.episode
                    /\ db'.mapping.seen = db.mapping.seen
                    /\ db.mapping.numbered => db'.mapping.numbered
              /\ db.followed # None /\ db'.followed # None => db'.followed = db.followed]_vars
  <2>1. KeptTables(db, db')
    BY <1>3, StoreStep
  <2> QED
    BY <2>1 DEF KeptTables
<1> QED
  BY <1>1, <1>2, <1>3, StoreStart, PTL DEF Spec, OthersAreKept, OthersAreUntouched, IdentitiesAreKept

\* The two tables, their statements and their transactions implement the
\* abstract store: every save merges in one step, every removal is one step.
THEOREM ProgressAsPromised == Spec => ProgressIsKept
<1>1. StoreInv /\ [Next]_vars => StoreInv' /\ [Promised!Next]_(db.progress)
  BY StoreStep
<1> QED
  BY <1>1, StoreStart, PTL DEF Spec, ProgressIsKept, Promised!Spec
=============================================================================
