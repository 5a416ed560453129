---------------------------- MODULE SettingsWriter ----------------------------
(* settingsWriter saves the settings in the background: a saver writes what  *)
(* is pending until nothing is, saves made meanwhile replace what is pending, *)
(* and close waits for the saver and reports the last write.                 *)
EXTENDS Naturals

CONSTANT MaxSaves  \* bound: the user's changes, numbered as they are made

ASSUME WriterAssumption == MaxSaves \in Nat

VARIABLES
    made,      \* changes accepted by save so far: the settings shown
    waiting,   \* pending: the change to write next, 0 for none
    saver,     \* "none", "picks", or "writes"
    writing,   \* the change being written
    failed,    \* lastErr
    row,       \* the settings row: the change it holds
    closing    \* "no", "waits" in close, "returned"

writerVars == <<made, waiting, saver, writing, failed, row, closing>>

WriterInit ==
    /\ made = 0 /\ waiting = 0 /\ saver = "none" /\ writing = 0
    /\ failed = FALSE /\ row = 0 /\ closing = "no"

\* save, which starts a saver when none is active.
Save ==
    /\ made < MaxSaves /\ closing = "no"
    /\ made' = made + 1 /\ waiting' = made + 1
    /\ saver' = IF saver = "none" THEN "picks" ELSE saver
    /\ UNCHANGED <<writing, failed, row, closing>>

\* Fault: a saver that finds the writer closed leaves what is pending.
LeavesAtOnce == waiting = 0 \/ closing # "no"
NothingWaits == waiting = 0

Pick ==
    /\ saver = "picks" /\ ~NothingWaits
    /\ saver' = "writes" /\ writing' = waiting /\ waiting' = 0
    /\ UNCHANGED <<made, failed, row, closing>>

SaverLeaves ==
    /\ saver = "picks" /\ NothingWaits
    /\ saver' = "none"
    /\ UNCHANGED <<made, waiting, writing, failed, row, closing>>

\* A write that fails may have reached the row or not.
Write ==
    /\ saver = "writes" /\ saver' = "picks"
    /\ failed' \in BOOLEAN
    /\ row' \in (IF failed' THEN {row, writing} ELSE {writing})
    /\ UNCHANGED <<made, waiting, writing, closing>>

CloseWriter ==
    /\ closing = "no" /\ closing' = "waits"
    /\ UNCHANGED <<made, waiting, saver, writing, failed, row>>

\* done is closed by a saver that leaves, or when none is active.
WriterClosed ==
    /\ closing = "waits" /\ saver = "none" /\ closing' = "returned"
    /\ UNCHANGED <<made, waiting, saver, writing, failed, row>>

WriterNext == Save \/ Pick \/ SaverLeaves \/ Write \/ CloseWriter \/ WriterClosed

WriterSpec == WriterInit /\ [][WriterNext]_writerVars

WriterFairness == WF_writerVars(Pick) /\ WF_writerVars(SaverLeaves) /\ WF_writerVars(Write) /\ WF_writerVars(WriterClosed)

\* After close the row holds the last change the user made, unless close says
\* that it could not be saved; before, what is pending or being written is
\* newer than the row, so a write never brings an older choice back.
LastChoiceIsSaved ==
    /\ closing = "returned" => waiting = 0 /\ (row = made \/ failed)
    /\ waiting # 0 => waiting = made /\ waiting > row
    /\ saver = "writes" => writing > row /\ (waiting # 0 => waiting > writing)
    /\ waiting # 0 => saver # "none"
    /\ saver # "writes" /\ waiting = 0 => row = made \/ failed
=============================================================================
