--------------------------- MODULE ProgressStore ---------------------------
(* What the store promises of playback progress, apart from how SQLite does   *)
(* it: saving merges an entry into the episode's record in one step, removing *)
(* an anime's history drops all its records in one step, and nothing else --  *)
(* no crash, no failure, no other operation -- changes a record.              *)
EXTENDS Naturals

CONSTANTS
    Episodes,   \* the episodes
    AnimeOf,    \* the anime each belongs to
    Stamps,     \* the times a save may carry
    Positions,  \* the positions it may carry
    NoRecord

VARIABLE progress  \* the record of each episode

Entries == [stamp : Stamps, position : Positions, completed : BOOLEAN]

\* Two times are compared, and only of equal ones the position counts.
Newer(new, old) == \/ new.stamp > old.stamp
                   \/ new.stamp = old.stamp /\ new.position > old.position

Merge(old, new) ==
    IF old = NoRecord THEN new
    ELSE [(IF Newer(new, old) THEN new ELSE old)
             EXCEPT !.completed = old.completed \/ new.completed]

Init == progress = [e \in Episodes |-> NoRecord]

Save(e, entry) == progress' = [progress EXCEPT ![e] = Merge(@, entry)]

Remove(a) == progress' = [e \in Episodes |-> IF AnimeOf[e] = a THEN NoRecord ELSE progress[e]]

Next == \/ \E e \in Episodes, entry \in Entries : Save(e, entry)
        \/ \E e \in Episodes : Remove(AnimeOf[e])

Spec == Init /\ [][Next]_progress

TypeOK == progress \in [Episodes -> Entries \cup {NoRecord}]
=============================================================================
