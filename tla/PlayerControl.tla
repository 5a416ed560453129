---------------------------- MODULE PlayerControl ----------------------------
(***************************************************************************)
(* What the desktop program does around one player window                  *)
(* (apps/desktop/main_fltk_windows.go): starting an episode, switching,    *)
(* stopping, the watch over a start that shows nothing                     *)
(* (player_start_watch.go), and going on to the next episode               *)
(* (player_autoplay.go).                                                   *)
(*                                                                         *)
(* Three threads share the variables below.  The UI thread runs the user's *)
(* actions and the updates posted to it, each to its end.  The play queue  *)
(* (play_queue.go) runs one job at a time and may be overtaken by the UI   *)
(* thread between any two of its steps.  mpv plays, ends or fails as it    *)
(* likes; the engine tells of that by posting to the UI thread.            *)
(* Every user action takes a new number, viewGeneration; it also cancels   *)
(* the context of the job before it, so a job's context is cancelled       *)
(* exactly if its number is no longer the current one.                     *)
(***************************************************************************)
EXTENDS Naturals, Sequences, FiniteSets

CONSTANTS
    Last,        \* the episodes of the anime are 1..Last
    MaxActions   \* bound: how many actions the user takes

ASSUME ControlAssumption == Last \in Nat \ {0} /\ MaxActions \in Nat

Episodes == 1..Last
None == 0        \* no episode, no engine, no generation, no view

VARIABLES
    view,        \* viewGeneration
    actionView,  \* actionGeneration: the view of the job that plays
    expected,    \* expectedPlaybackGeneration, None while nothing is heard
    awaiting,    \* awaitingPlayback
    selection,   \* the episode selected
    known,       \* whether the player has the list of episodes
    screen,      \* the player window: shown, playing, loading
    watch,       \* playerStartWatch: the view it watches, and its timer
    handled,     \* playerAutoplay.handled
    deciding,    \* the ends whose settings are being read
    jobs,        \* the play queue
    worker,      \* the job that runs and how far it is
    engine,      \* the open session's engine: its file and generation
    active,      \* the engine activeEngine() returns
    engines,     \* how many engines there were
    updates,     \* what waits for the UI thread, in order
    actions,     \* how many actions the user took
    notices,     \* history: start -> how many failures were shown for it; a
                 \* start is named by its view
    revived      \* history: whether a failed switch has given the previous
                 \* file back after its view was over

vars == <<view, actionView, expected, awaiting, selection, known, screen, watch,
          handled, deciding, jobs, worker, engine, active, engines, updates,
          actions, notices, revived>>
ui     == <<view, expected, awaiting, selection, known, screen, watch, handled>>
player == <<engine, active, engines>>

NoEngine == [id |-> None, gen |-> None, view |-> None, ep |-> None, file |-> "none"]
NoJob    == [kind |-> "none", view |-> None, ep |-> None, before |-> None, auto |-> FALSE]
Idle     == [job |-> NoJob, step |-> "idle"]
NoWatch  == [view |-> None, armed |-> FALSE]
Hidden   == [shown |-> FALSE, playing |-> FALSE, loading |-> FALSE]

Init ==
    /\ view = 0 /\ actionView = 0 /\ expected = None /\ awaiting = FALSE
    /\ selection = None /\ known = FALSE /\ screen = Hidden
    /\ watch = NoWatch /\ handled = None /\ deciding = {}
    /\ jobs = <<>> /\ worker = Idle
    /\ engine = NoEngine /\ active = None /\ engines = 0
    /\ updates = <<>> /\ actions = 0
    /\ notices = [v \in {} |-> 0] /\ revived = FALSE

Notified(v) ==
    [x \in DOMAIN notices \cup {v} |-> IF x \in DOMAIN notices
        THEN notices[x] + (IF x = v THEN 1 ELSE 0) ELSE 1]

-----------------------------------------------------------------------------
(* What the UI thread can do to a playback; parts of the actions below.    *)

Enqueue(job) == jobs' = Append(jobs, job)

\* play
Plays(ep) ==
    /\ view' = view + 1
    /\ watch' = [view |-> view + 1, armed |-> TRUE]
    /\ expected' = None
    /\ awaiting' = TRUE
    /\ selection' = ep
    /\ known' = FALSE
    /\ screen' = [shown |-> TRUE, playing |-> FALSE, loading |-> TRUE]
    /\ Enqueue([NoJob EXCEPT !.kind = "play", !.view = view + 1, !.ep = ep])
    /\ UNCHANGED handled

\* selectEpisode; auto is autoplay's own message for a failure
Selects(ep, auto) ==
    /\ view' = view + 1
    /\ watch' = [view |-> view + 1, armed |-> TRUE]
    /\ expected' = None
    /\ awaiting' = TRUE
    /\ screen' = [screen EXCEPT !.loading = TRUE]
    /\ Enqueue([kind |-> "select", view |-> view + 1, ep |-> ep,
                before |-> expected, auto |-> auto])
    /\ UNCHANGED <<selection, known>>

\* endPlayback
EndsPlayback ==
    /\ view' = view + 1
    /\ watch' = NoWatch
    /\ expected' = None
    /\ awaiting' = TRUE
    /\ screen' = [screen EXCEPT !.playing = FALSE, !.loading = FALSE]
    /\ Enqueue([NoJob EXCEPT !.kind = "end", !.view = view + 1])
    /\ UNCHANGED <<selection, known>>

-----------------------------------------------------------------------------
(* The user.                                                               *)

Acts ==
    /\ actions < MaxActions
    /\ actions' = actions + 1
    /\ UNCHANGED <<actionView, deciding, worker, player, updates, notices, revived>>

PlayFromHome(ep) == ~screen.shown /\ Plays(ep) /\ Acts

PlayPause ==
    /\ screen.shown
    /\ ~screen.loading
    /\ active = None \/ ~screen.playing
    /\ selection # None
    /\ Plays(selection)
    /\ Acts

SelectEpisode(ep) ==
    /\ screen.shown
    /\ known
    /\ Selects(ep, FALSE)
    /\ UNCHANGED handled
    /\ Acts

\* stop: leaving the player.
Leave ==
    /\ screen.shown
    /\ view' = view + 1
    /\ watch' = NoWatch
    /\ expected' = None
    /\ awaiting' = FALSE
    /\ Enqueue([NoJob EXCEPT !.kind = "stop", !.view = view + 1])
    /\ Acts
    /\ UNCHANGED <<selection, known, screen, handled>>

\* stopInPlayer while a start is awaited; otherwise mpv only seeks.
StopInPlayer == screen.shown /\ awaiting /\ EndsPlayback /\ Acts /\ UNCHANGED handled

User == \/ \E ep \in Episodes : PlayFromHome(ep) \/ SelectEpisode(ep)
        \/ PlayPause \/ Leave \/ StopInPlayer

-----------------------------------------------------------------------------
(* The play queue.                                                         *)

Post(update) == updates' = Append(updates, update)
GoTo(step) == worker' = [worker EXCEPT !.step = step]
Current == worker.job.view = view

Skips(job) == job.kind \in {"play", "select"} /\ job.view # view

Take ==
    /\ worker.step = "idle"
    /\ jobs # <<>>
    /\ jobs' = Tail(jobs)
    /\ LET job == Head(jobs) IN
         IF Skips(job)
         THEN UNCHANGED <<worker, actionView>>
         ELSE IF job.kind \in {"play", "select"}
              THEN worker' = [job |-> job, step |-> "play"] /\ actionView' = job.view
              ELSE worker' = [job |-> job, step |-> "close"] /\ UNCHANGED actionView
    /\ UNCHANGED <<ui, deciding, player, updates, actions, notices, revived>>

\* Service.Play before anything is loaded: the episode cannot be resolved, or
\* the context is cancelled.
PlayErrs ==
    /\ worker.step = "play"
    /\ GoTo("erred")
    /\ UNCHANGED <<ui, actionView, deciding, jobs, player, updates, actions, notices, revived>>

\* A session that failed for good is closed, and Play tries a new one.
SessionDies ==
    /\ worker.step = "play"
    /\ engine.id # None
    /\ engine' = NoEngine
    /\ UNCHANGED <<ui, actionView, deciding, jobs, worker, active, engines, updates, actions, notices, revived>>

\* The player factory, when there is no session; then the load is posted, and
\* the worker waits for the UI thread.
PlayLoads ==
    /\ worker.step = "play"
    /\ IF engine.id = None
       THEN /\ engines' = engines + 1
            /\ engine' = [NoEngine EXCEPT !.id = engines + 1]
            /\ active' = engines + 1
       ELSE UNCHANGED player
    /\ Post([kind |-> "load"])
    /\ GoTo("loading")
    /\ UNCHANGED <<ui, actionView, deciding, jobs, actions, notices, revived>>

\* Play has loaded the file.  A context cancelled meanwhile makes it an error.
PlayReturns ==
    /\ worker.step = "loaded"
    /\ GoTo("returned") \/ (~Current /\ GoTo("erred"))
    /\ UNCHANGED <<ui, actionView, deciding, jobs, player, updates, actions, notices, revived>>

\* The job looks at viewGeneration, and then acts on what it saw.
Confirm ==
    /\ worker.step = "returned"
    /\ IF Current THEN GoTo("select") ELSE worker' = Idle
    /\ UNCHANGED <<ui, actionView, deciding, jobs, player, updates, actions, notices, revived>>

SetSelection ==
    /\ worker.step = "select"
    /\ selection' = worker.job.ep
    /\ GoTo("clear")
    /\ UNCHANGED <<view, expected, awaiting, known, screen, watch, handled,
                   actionView, deciding, jobs, player, updates, actions, notices, revived>>

\* A play job goes on to fetch the list of episodes.
ClearAwaiting ==
    /\ worker.step = "clear"
    /\ awaiting' = FALSE
    /\ worker' = Idle
    /\ IF worker.job.kind = "play"
       THEN Post([kind |-> "list", view |-> worker.job.view]) ELSE UNCHANGED updates
    /\ UNCHANGED <<view, expected, selection, known, screen, watch, handled,
                   actionView, deciding, jobs, player, actions, notices, revived>>

Refuse ==
    /\ worker.step = "erred"
    /\ GoTo(IF Current THEN "revert" ELSE "report")
    /\ UNCHANGED <<ui, actionView, deciding, jobs, player, updates, actions, notices, revived>>

\* A failed switch leaves the previous file playing, and is heard again.
Reverted ==
    IF worker.job.kind = "select" /\ expected = None THEN worker.job.before ELSE expected

Revert ==
    /\ worker.step = "revert"
    /\ expected' = Reverted
    /\ revived' = (revived \/ (Reverted # expected /\ ~Current))
    /\ awaiting' = FALSE
    /\ GoTo("report")
    /\ UNCHANGED <<view, selection, known, screen, watch, handled,
                   actionView, deciding, jobs, player, updates, actions, notices>>

ReportError ==
    /\ worker.step = "report"
    /\ Post([kind |-> "failed", job |-> worker.job])
    /\ worker' = Idle
    /\ UNCHANGED <<ui, actionView, deciding, jobs, player, actions, notices, revived>>

\* Service.StopPlayback
CloseSession ==
    /\ worker.step = "close"
    /\ engine' = NoEngine
    /\ GoTo(IF worker.job.kind = "end" /\ Current THEN "endClear" ELSE "deactivate")
    /\ UNCHANGED <<ui, actionView, deciding, jobs, active, engines, updates, actions, notices, revived>>

EndClears ==
    /\ worker.step = "endClear"
    /\ awaiting' = FALSE
    /\ GoTo("deactivate")
    /\ UNCHANGED <<view, expected, selection, known, screen, watch, handled,
                   actionView, deciding, jobs, player, updates, actions, notices, revived>>

Deactivate ==
    /\ worker.step = "deactivate"
    /\ active' = None
    /\ worker' = Idle
    /\ IF worker.job.kind = "stop"
       THEN Post([kind |-> "stopped", view |-> worker.job.view]) ELSE UNCHANGED updates
    /\ UNCHANGED <<ui, actionView, deciding, jobs, engine, engines, actions, notices, revived>>

PlayGoesOn == PlayErrs \/ SessionDies \/ PlayLoads

QueueGoesOn == \/ Take \/ PlayReturns
               \/ Confirm \/ SetSelection \/ ClearAwaiting
               \/ Refuse \/ Revert \/ ReportError
               \/ CloseSession \/ EndClears \/ Deactivate

-----------------------------------------------------------------------------
(* mpv and the engine, on the UI thread.                                   *)

FileGoes(from, to) ==
    /\ engine.file \in from
    /\ engine' = [engine EXCEPT !.file = to]
    /\ UNCHANGED <<ui, actionView, deciding, jobs, worker, active, engines, actions, notices, revived>>

Told(kind) == [kind |-> kind, id |-> engine.id, gen |-> engine.gen,
               view |-> engine.view, ep |-> engine.ep]

FileStarts == FileGoes({"loading"}, "playing") /\ Post(Told("start"))
FileFails  == FileGoes({"loading", "playing"}, "failed") /\ Post(Told("failure"))
FileEnds   == FileGoes({"playing"}, "ended") /\ Post(Told("end"))

\* The state handler, twice a second while a file is open.
MarksPlaying == ~awaiting

Tick ==
    /\ engine.file \in {"playing", "ended"}
    /\ MarksPlaying
    /\ screen' = [screen EXCEPT !.playing = TRUE, !.loading = FALSE]
    /\ screen' # screen
    /\ UNCHANGED <<view, expected, awaiting, selection, known, watch, handled,
                   actionView, deciding, jobs, worker, player, updates, actions, notices, revived>>

\* The watch's timer fires after 20 s.
TimerFires ==
    /\ watch.armed
    /\ watch' = [watch EXCEPT !.armed = FALSE]
    /\ Post([kind |-> "timeout", view |-> watch.view])
    /\ UNCHANGED <<view, expected, awaiting, selection, known, screen, handled,
                   actionView, deciding, jobs, worker, player, actions, notices, revived>>

-----------------------------------------------------------------------------
(* The updates posted to the UI thread.                                    *)

Next1(kind) == updates # <<>> /\ Head(updates).kind = kind /\ updates' = Tail(updates)
Update == Head(updates)

Heard == active = Update.id /\ Update.gen = expected

\* Engine.Load, on a context that is still wanted, and the load handler.  A
\* first load that is refused takes its engine with it.
RunLoad ==
    /\ Next1("load")
    /\ IF Current
       THEN /\ engine' = [engine EXCEPT !.gen = @ + 1, !.view = worker.job.view,
                                      !.ep = worker.job.ep, !.file = "loading"]
            /\ expected' = IF actionView = view THEN engine.gen + 1 ELSE expected
            /\ GoTo("loaded")
       ELSE /\ engine' = IF engine.gen = None THEN NoEngine ELSE engine
            /\ GoTo("erred")
            /\ UNCHANGED expected
    /\ UNCHANGED <<view, awaiting, selection, known, screen, watch, handled,
                   actionView, deciding, jobs, active, engines, actions, notices, revived>>

\* Fault: the first frame is heard only once Play has returned.
HeardAfterPlay == Heard /\ ~awaiting

\* The start handler, on the first frame.
StartIsHeard == Heard

RunStart ==
    /\ Next1("start")
    /\ watch' = IF StartIsHeard /\ watch.view = view THEN NoWatch ELSE watch
    /\ UNCHANGED <<view, expected, awaiting, selection, known, screen, handled,
                   actionView, deciding, jobs, worker, player, actions, notices, revived>>

\* The failure handler.
RunFailure ==
    /\ Next1("failure")
    /\ IF Heard /\ engine.id = Update.id /\ engine.gen = Update.gen /\ engine.file = "failed"
       THEN /\ watch' = NoWatch
            /\ screen' = [screen EXCEPT !.playing = FALSE, !.loading = FALSE]
            /\ notices' = Notified(Update.view)
       ELSE UNCHANGED <<watch, screen, notices>>
    /\ UNCHANGED <<view, expected, awaiting, selection, known, handled,
                   actionView, deciding, jobs, worker, player, actions, revived>>

\* The end handler, and playerAutoplay.ended.
EndIsHeard == Heard /\ ~awaiting /\ view # handled

NoNext == ~known \/ selection = Last

RunEnd ==
    /\ Next1("end")
    /\ IF ~EndIsHeard THEN UNCHANGED <<ui, deciding, jobs>>
       ELSE /\ handled' = view
            /\ IF NoNext
               THEN EndsPlayback /\ UNCHANGED deciding
               ELSE /\ deciding' = deciding \cup
                         {[view |-> view, gen |-> Update.gen, ep |-> selection, file |-> Update.ep]}
                    /\ UNCHANGED <<view, expected, awaiting, selection, known, screen, watch, jobs>>
    /\ UNCHANGED <<actionView, worker, player, actions, notices, revived>>

\* The settings are read off the UI thread.
ReadSettings(end, next) ==
    /\ end \in deciding
    /\ deciding' = deciding \ {end}
    /\ Post([kind |-> "decide", end |-> end, next |-> next])
    /\ UNCHANGED <<ui, actionView, jobs, worker, player, actions, notices, revived>>

\* Fault: the decision is checked against the selected episode only.
SameSelection(end) == ~awaiting /\ selection = end.ep

StillEnded(end) ==
    view = end.view /\ expected = end.gen /\ ~awaiting /\ selection = end.ep

RunDecide ==
    /\ Next1("decide")
    /\ IF ~StillEnded(Update.end) THEN UNCHANGED <<ui, jobs>>
       ELSE /\ IF Update.next THEN Selects(Update.end.ep + 1, TRUE) ELSE EndsPlayback
            /\ UNCHANGED handled
    /\ UNCHANGED <<actionView, deciding, worker, player, actions, notices, revived>>

Watched(v) == watch.view = v /\ view = v

RunTimeout ==
    /\ Next1("timeout")
    /\ IF Watched(Update.view)
       THEN EndsPlayback /\ notices' = Notified(view) /\ UNCHANGED handled
       ELSE UNCHANGED <<ui, jobs, notices>>
    /\ UNCHANGED <<actionView, deciding, worker, player, actions, revived>>

StopStands == Update.view = view

RunStopped ==
    /\ Next1("stopped")
    /\ screen' = IF StopStands THEN Hidden ELSE screen
    /\ UNCHANGED <<view, expected, awaiting, selection, known, watch, handled,
                   actionView, deciding, jobs, worker, player, actions, notices, revived>>

RunList ==
    /\ Next1("list")
    /\ known' = (known \/ Update.view = view)
    /\ UNCHANGED <<view, expected, awaiting, selection, screen, watch, handled,
                   actionView, deciding, jobs, worker, player, actions, notices, revived>>

\* Autoplay ends the playback first; the others only show their message.
RunFailed ==
    /\ Next1("failed")
    /\ IF Update.job.view # view THEN UNCHANGED <<ui, jobs, notices>>
       ELSE /\ notices' = Notified(view)
            /\ UNCHANGED handled
            /\ IF Update.job.auto THEN EndsPlayback
               ELSE /\ watch' = NoWatch
                    /\ screen' = [screen EXCEPT !.loading = @ /\ Update.job.kind = "play",
                                                !.shown = @ /\ Update.job.kind # "play"]
                    /\ UNCHANGED <<view, expected, awaiting, selection, known, jobs>>
    /\ UNCHANGED <<actionView, deciding, worker, player, actions, revived>>

UIThread == \/ RunLoad \/ RunStart \/ RunFailure \/ RunEnd \/ RunDecide
            \/ RunTimeout \/ RunStopped \/ RunList \/ RunFailed

Next ==
    \/ User
    \/ PlayGoesOn
    \/ QueueGoesOn
    \/ FileStarts \/ FileFails \/ FileEnds \/ Tick \/ TimerFires
    \/ \E end \in deciding, next \in BOOLEAN : ReadSettings(end, next)
    \/ UIThread

Spec == Init /\ [][Next]_vars

\* The UI thread and the timer go on, and so does the queue, except that
\* Service.Play may hang before it has anything to load, until its context is
\* cancelled.  mpv tells of an open file twice a second; the user and the file
\* need not do anything.
ControlFairness ==
    /\ WF_vars(UIThread) /\ WF_vars(TimerFires) /\ WF_vars(QueueGoesOn) /\ WF_vars(Tick)
    /\ WF_vars(PlayErrs /\ ~Current)

FairSpec == Spec /\ ControlFairness

-----------------------------------------------------------------------------
(* Properties.                                                             *)

Jobs == [kind : {"none", "play", "select", "end", "stop"}, view : Nat,
         ep : Episodes \cup {None}, before : Nat, auto : BOOLEAN]

\* Every variable has its type; the load that waits for the UI thread is the
\* worker's, and the engine heard of is the newest one or none.
TypeOK ==
    /\ {view, actionView, expected, handled, active, engines, actions} \subseteq Nat
    /\ {awaiting, known} \subseteq BOOLEAN
    /\ selection \in Episodes \cup {None}
    /\ screen \in [shown : BOOLEAN, playing : BOOLEAN, loading : BOOLEAN]
    /\ watch \in [view : Nat, armed : BOOLEAN]
    /\ deciding \subseteq [view : Nat, gen : Nat, ep : Episodes, file : Episodes]
    /\ jobs \in Seq(Jobs) /\ worker.job \in Jobs
    /\ engine.id \in {None, engines} /\ active \in {None, engines}
    /\ engine.file = "none" <=> engine.gen = None
    /\ worker.step = "loading" <=> \E i \in DOMAIN updates : updates[i].kind = "load"

\* A start is reported as failed at most once: by the failed load, by mpv (now
\* or after it played a while), by autoplay or by the watch.
ReportedOnce == \A v \in DOMAIN notices : notices[v] = 1

\* A start whose first frame has reached the UI thread is not given up for
\* showing none.
ShownIsNotGivenUp ==
    /\ engine.view = view
    /\ engine.file = "playing"
    /\ \A i \in DOMAIN updates : updates[i].kind # "start"
    => watch.view # view

\* With nothing left to do, the player that the user has left plays nothing,
\* whatever was queued before and after the user left, unless a failed switch
\* has given its file back too late.
Quiescent == jobs = <<>> /\ worker.step = "idle" /\ updates = <<>>

LeftIsSilent ==
    Quiescent /\ ~screen.shown /\ view \notin DOMAIN notices /\ ~revived => engine.file # "playing"

\* The user hears once of a start that failed, and nothing of a player that was left.
ReportsAreTrue == ReportedOnce /\ LeftIsSilent

\* The user has left, and the player does not show it yet.
Leaving(v) ==
    \/ \E i \in DOMAIN jobs : jobs[i].kind = "stop" /\ jobs[i].view = v
    \/ worker.job.kind = "stop" /\ worker.job.view = v
    \/ \E i \in DOMAIN updates : updates[i].kind = "stopped" /\ updates[i].view = v

\* An end that autoplay acts on is not one of a player that the user has left.
LeftEndDoesNothing == \A end \in deciding : ~Leaving(end.view)

\* The player shows that it loads.
Loads == screen.shown /\ screen.loading
=============================================================================
