------------------------------ MODULE MCDesktop ------------------------------
(* The parts of the program around the player that share no state, each       *)
(* explored from its own initial state while the others rest: the player's    *)
(* control, its follow star, the settings writer and the refresher.           *)
EXTENDS PlayerControl, FollowStar, SettingsWriter, Refresher

\* The part that acts, and for the refresher what is waited for to end.
VARIABLE part

desktopVars == <<part, vars, starVars, writerVars, refresherVars>>

DesktopInit ==
    /\ part \in {"control", "star", "writer", "closing"} \cup Runs
    /\ Init /\ StarInit /\ WriterInit /\ RefresherInit
    /\ part # "star" => followed = {}

DesktopNext ==
    \/ part = "control" /\ Next /\ UNCHANGED <<part, starVars, writerVars, refresherVars>>
    \/ part = "star" /\ StarNext /\ UNCHANGED <<part, vars, writerVars, refresherVars>>
    \/ part = "writer" /\ WriterNext /\ UNCHANGED <<part, vars, starVars, refresherVars>>
    \/ part \in Runs \cup {"closing"} /\ RefresherNext /\ UNCHANGED <<part, vars, starVars, writerVars>>

DesktopSpec ==
    /\ DesktopInit /\ [][DesktopNext]_desktopVars
    /\ ControlFairness /\ WriterFairness /\ RefresherFairness

\* What is begun ends: the player does not stay loading (a start shows a
\* frame, fails, or is given up after its time), every run of the refresher
\* returns however its jobs, the other runs' and Close are ordered, Close of
\* the refresher returns, and so does close of the settings writer.
Begun == \/ part = "control" /\ Loads
         \/ part \in Runs /\ run[part].at # "idle"
         \/ part = "closing" /\ stopping = "closing"
         \/ part = "writer" /\ closing = "waits"
BegunEnds == Begun ~> ~Begun
=============================================================================
