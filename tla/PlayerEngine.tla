---------------------------- MODULE PlayerEngine ----------------------------
(***************************************************************************)
(* One player: the libmpv session (adapters/player/libmpv/libmpv.go), the  *)
(* engine under it (apps/desktop/fltkengine/engine_windows.go) and mpv.    *)
(*                                                                         *)
(* A load is known by its number, the engine's generation.  mpv tells of   *)
(* its files through a queue of events that bear no number; the engine     *)
(* reads them on the UI thread, guesses whose they are from pending and    *)
(* pendingStarted, and sends what the session should hear, marked with its *)
(* generation, down a channel that the session's own goroutine empties.    *)
(* In the model an mpv event also tells which load it really is about.     *)
(***************************************************************************)
EXTENDS Integers, Sequences, SequencesExt

CONSTANTS
  ChannelCap,   \* capacity of engine.events
  MaxLoads,     \* bound: how many loads are asked for
  MaxReports    \* bound: how often mpv tells a position or a finished seek

ASSUME EngineAssumption ==
  ChannelCap \in Nat \ {0} /\ MaxLoads \in Nat \ {0} /\ MaxReports \in Nat

Ids     == {"property", "start", "fileLoaded", "restart", "end"}
Reasons == {"eof", "error", "stop"}
Stages  == {"none", "fileLoaded", "playing"}   \* StartStage
Kinds   == {"progress", "ended", "stopped", "failed"}
Loads   == 1..MaxLoads

VARIABLES
  \* mpv
  mpv,            \* [file, stage, next]: the load it plays, how far, the one asked for
  mpvEvents,      \* its event queue
  reports,        \* how many positions and seeks it told of
  \* the engine
  generation, pending, pendingStarted, started, ended, failed,
  observed,       \* the load whose position and duration are cached, 0 for none
  position,       \* the load that engine.position is about
  channel,        \* engine.events
  \* the session
  current,        \* session.generation; its request and proxy session go with it
  loads,          \* session.nextGeneration
  loading, closed,
  asked,          \* the engine has not run the load in progress yet
  closer,         \* Close: "no", "waiting" or "done"
  open,           \* the proxy sessions that are open
  \* history
  starts,         \* the calls of onStart: generation, stage, and whose event it was
  ends, failures, \* the calls of onEnd and onFailure
  heard,          \* the last event forwarded: as which load's, and whose it was
  misled,         \* a file-loaded of a replaced file passed for the pending one's
  missed          \* the loads whose own start, file-loaded or end a refused load dropped

mpvVars     == <<mpv, mpvEvents, reports>>
engineVars  == <<generation, pending, pendingStarted, started, ended, failed, observed,
                 position, channel>>
sessionVars == <<current, loads, loading, closed, asked, closer, open>>
historyVars == <<starts, ends, failures, heard, misled, missed>>
vars == <<mpvVars, engineVars, sessionVars, historyVars>>

\* Start has returned: mpv has been asked for the first load.
Init ==
  /\ mpv = [file |-> 0, stage |-> "idle", next |-> 1]
  /\ mpvEvents = <<>>
  /\ reports = 0
  /\ generation = 1
  /\ pending = TRUE /\ pendingStarted = FALSE
  /\ started = "none"
  /\ ended = FALSE /\ failed = FALSE
  /\ observed = 0
  /\ position = 1
  /\ channel = <<>>
  /\ current = 1
  /\ loads = 1
  /\ loading = FALSE
  /\ closed = FALSE
  /\ asked = FALSE
  /\ closer = "no"
  /\ open = {1}
  /\ starts = <<>> /\ ends = <<>> /\ failures = <<>>
  /\ heard = [as |-> 1, load |-> 1]
  /\ misled = FALSE
  /\ missed = {}

-----------------------------------------------------------------------------
(* mpv.                                                                    *)

Tell(id, reason) ==
  mpvEvents' = Append(mpvEvents, [id |-> id, load |-> mpv.file, reason |-> reason])

MpvUnchanged == UNCHANGED <<engineVars, sessionVars, historyVars>>

MpvStart ==
  /\ mpv.stage = "idle" /\ mpv.next # 0
  /\ mpv' = [file |-> mpv.next, stage |-> "opening", next |-> 0]
  /\ mpvEvents' = Append(mpvEvents, [id |-> "start", load |-> mpv.next, reason |-> "none"])
  /\ UNCHANGED reports
  /\ MpvUnchanged

\* Also late, when the file is to be replaced already.
MpvLoaded ==
  /\ mpv.stage = "opening"
  /\ mpv' = [mpv EXCEPT !.stage = "loaded"]
  /\ Tell("fileLoaded", "none")
  /\ UNCHANGED reports
  /\ MpvUnchanged

\* Playback begins, or goes on after a seek.
MpvRestart ==
  /\ mpv.stage \in {"loaded", "playing"} /\ mpv.next = 0
  /\ mpv.stage = "playing" => reports < MaxReports
  /\ reports' = IF mpv.stage = "playing" THEN reports + 1 ELSE reports
  /\ mpv' = [mpv EXCEPT !.stage = "playing"]
  /\ Tell("restart", "none")
  /\ MpvUnchanged

\* A position or duration; reports not read yet are replaced by newer ones.
MpvReport ==
  /\ mpv.stage \in {"opening", "loaded", "playing"}
  /\ reports < MaxReports
  /\ reports' = reports + 1
  /\ Tell("property", "none")
  /\ UNCHANGED mpv
  /\ MpvUnchanged

MpvEnd(reason) ==
  /\ mpv.stage # "idle"
  /\ reason = "eof" => mpv.stage = "playing"
  /\ reason = "stop" => mpv.next # 0
  /\ mpv' = [mpv EXCEPT !.stage = "idle"]
  /\ Tell("end", reason)
  /\ UNCHANGED reports
  /\ MpvUnchanged

Mpv == MpvStart \/ MpvLoaded \/ MpvRestart \/ MpvReport \/ \E reason \in Reasons : MpvEnd(reason)

-----------------------------------------------------------------------------
(* The engine, on the UI thread.                                           *)

\* Its select drops what the channel has no room for.
Sent(event) == IF Len(channel) < ChannelCap THEN Append(channel, event) ELSE channel

\* Engine.Load, once dispatch has it run: first what mpv told is dropped, but for the
\* properties, which are cached.
Dropped == ToSet(mpvEvents)
Emptied ==
  /\ asked
  /\ asked' = FALSE
  /\ mpvEvents' = <<>>
  /\ UNCHANGED <<reports, channel, current, loads, loading, closed, closer, open>>

\* Then mpv takes the command; what was cached is forgotten.
EngineLoad ==
  /\ Emptied
  /\ mpv' = [mpv EXCEPT !.next = loads]
  /\ generation' = loads
  /\ position' = loads
  /\ pending' = TRUE /\ pendingStarted' = FALSE
  /\ ended' = FALSE /\ failed' = FALSE
  /\ started' = "none"
  /\ observed' = 0
  /\ UNCHANGED historyVars

LastProperty(i) ==
  /\ mpvEvents[i].id = "property"
  /\ \A j \in DOMAIN mpvEvents : mpvEvents[j].id = "property" => j <= i

\* Or mpv refuses it: nothing else changes, and the load that goes on, which may be
\* pending still, has lost what was told of it.
Milestones == {"start", "fileLoaded", "end"}
MissedNow == {generation} \cap {e.load : e \in {d \in Dropped : d.id \in Milestones}}
EngineRefuses ==
  /\ Emptied
  /\ \/ \E i \in DOMAIN mpvEvents : LastProperty(i) /\ observed' = mpvEvents[i].load
     \/ (\A e \in Dropped : e.id # "property") /\ UNCHANGED observed
  /\ missed' = missed \cup MissedNow
  /\ UNCHANGED <<mpv, generation, pending, pendingStarted, started, ended, failed, position,
                 starts, ends, failures, heard, misled>>

\* pollEvents, one event at a time.
Polled(id) ==
  /\ mpvEvents # <<>>
  /\ Head(mpvEvents).id = id
  /\ closer # "done"
  /\ mpvEvents' = Tail(mpvEvents)
  /\ UNCHANGED <<mpv, reports, generation, sessionVars>>

About == Head(mpvEvents).load

PollProperty ==
  /\ Polled("property")
  /\ observed' = About
  /\ UNCHANGED <<pending, pendingStarted, started, ended, failed, position, channel,
                 historyVars>>

\* Properties of the previous file may have come after the load.
KeptAtStart == observed   \* fault: not forgotten again
ForgottenAtStart == IF pending THEN 0 ELSE observed

StartCounts == pendingStarted \/ pending

PollStart ==
  /\ Polled("start")
  /\ pendingStarted' = StartCounts
  /\ observed' = ForgottenAtStart
  /\ UNCHANGED <<pending, started, ended, failed, position, channel, historyVars>>

\* The stage that a file-loaded, or a restart, brings the current load to.
LoadedStage == IF pending /\ pendingStarted THEN "fileLoaded" ELSE "none"
RestartStage == IF started = "fileLoaded" THEN "playing" ELSE "none"

Reach(stage) ==
  IF stage # "none"
  THEN started' = stage /\ starts' = Append(starts, <<generation, stage, About>>)
  ELSE UNCHANGED <<started, starts>>

PollLoaded ==
  /\ Polled("fileLoaded")
  /\ Reach(LoadedStage)
  /\ pending' = FALSE /\ pendingStarted' = FALSE
  /\ misled' = (misled \/ (pending /\ About # generation))
  /\ UNCHANGED <<ended, failed, observed, position, channel, ends, failures, heard, missed>>

PollRestart ==
  /\ Polled("restart")
  /\ Reach(RestartStage)
  /\ UNCHANGED <<pending, pendingStarted, ended, failed, observed, position, channel, ends,
                 failures, heard, misled, missed>>

\* Whether the end of a file is the current load's: while it is pending, only an
\* error after its start is.
EndAlwaysCounts(reason) == TRUE   \* fault
EndCounts(reason) == ~pending \/ (pendingStarted /\ reason = "error")

PendingKeptOnError(reason) == pending   \* fault: a load that fails stays pending
PendingAfterEnd(reason) == pending /\ ~(pendingStarted /\ reason = "error")

\* endsNormally and endsEarly: an eof close to the known end, or far from it.
EndKinds(reason) ==
  IF reason = "error" THEN {"failed"} ELSE IF reason = "eof" THEN {"ended", "failed"} ELSE {"stopped"}

PollEnd ==
  /\ Polled("end")
  /\ LET reason == Head(mpvEvents).reason
     IN /\ pending' = PendingAfterEnd(reason)
        /\ pendingStarted' = (pendingStarted /\ pending')
        /\ IF EndCounts(reason)
           THEN \E kind \in EndKinds(reason) :
                  /\ channel' = Sent([gen |-> generation, kind |-> kind, load |-> About])
                  /\ ended' = (ended \/ kind = "ended")
                  /\ ends' = IF kind = "ended" THEN Append(ends, generation) ELSE ends
                  /\ failed' = (failed \/ kind = "failed")
                  /\ failures' = IF kind = "failed" /\ ~failed
                                 THEN Append(failures, generation) ELSE failures
           ELSE UNCHANGED <<channel, ended, ends, failed, failures>>
  /\ UNCHANGED <<started, observed, position, starts, heard, misled, missed>>

Poll == PollProperty \/ PollStart \/ PollLoaded \/ PollRestart \/ PollEnd

\* tick, which polls first: progress of a load that is neither pending nor failed.
\* A file that ended keeps its own end as its position.
Tick ==
  /\ closer # "done"
  /\ mpvEvents = <<>>
  /\ ~pending /\ ~failed
  /\ position' = IF observed # 0 /\ ~ended THEN observed ELSE position
  /\ channel' = Sent([gen |-> generation, kind |-> "progress", load |-> position'])
  /\ UNCHANGED <<mpvVars, generation, pending, pendingStarted, started, ended, failed,
                 observed, sessionVars, historyVars>>

-----------------------------------------------------------------------------
(* The session.                                                            *)

BeginLoad ==
  /\ ~loading
  /\ ~closed
  /\ loads < MaxLoads
  /\ loads' = loads + 1
  /\ open' = open \cup {loads + 1}
  /\ loading' = TRUE
  /\ asked' = TRUE
  /\ UNCHANGED <<mpvVars, engineVars, current, closed, closer, historyVars>>

LoadEnds ==
  /\ loading
  /\ loading' = FALSE
  /\ UNCHANGED <<mpvVars, engineVars, loads, closed, closer, historyVars>>

\* bridge.Load returned without an error: the engine ran it.
LoadReturns ==
  /\ LoadEnds
  /\ generation = loads
  /\ ~closed
  /\ UNCHANGED asked
  /\ open' = open \ {current}
  /\ current' = loads

CandidateClosed == open \ {loads}

\* Its context ended before the engine ran it, or after; or mpv refused it, or the
\* session was closed meanwhile: the candidate's proxy session is closed.
LoadFails ==
  /\ LoadEnds
  /\ asked' = FALSE
  /\ open' = CandidateClosed
  /\ UNCHANGED current

\* forwardEvent, called by runEvents with what it takes from the channel.
Forwardable(event) == ~closed /\ ~loading /\ event.gen = current

Forward ==
  /\ channel # <<>>
  /\ channel' = Tail(channel)
  /\ heard' = IF Forwardable(Head(channel))
              THEN [as |-> current, load |-> Head(channel).load] ELSE heard
  /\ UNCHANGED <<mpvVars, generation, pending, pendingStarted, started, ended, failed,
                 observed, position, sessionVars, starts, ends, failures, misled,
                 missed>>

BeginClose ==
  /\ ~closed
  /\ closed' = TRUE
  /\ closer' = "waiting"
  /\ UNCHANGED <<mpvVars, engineVars, current, loads, loading, asked, open, historyVars>>

\* Close has opMu: the load in progress has returned.
FinishClose ==
  /\ closer = "waiting"
  /\ ~loading
  /\ open' = open \ {current}
  /\ closer' = "done"
  /\ UNCHANGED <<mpvVars, engineVars, current, loads, loading, closed, asked, historyVars>>

Session == BeginLoad \/ LoadReturns \/ LoadFails \/ Forward \/ BeginClose \/ FinishClose

-----------------------------------------------------------------------------
Next == Mpv \/ EngineLoad \/ EngineRefuses \/ Poll \/ Tick \/ Session

Spec == Init /\ [][Next]_vars

\* mpv gets on with the file it was asked for, and the UI thread with its queue.
FairSpec ==
  /\ Spec
  /\ WF_vars(MpvStart) /\ WF_vars(MpvLoaded) /\ WF_vars(MpvEnd("stop")) /\ WF_vars(Poll)

-----------------------------------------------------------------------------
(* Properties.                                                             *)

\* Each variable has its type; a load is pending started only while it is pending,
\* and the session knows only loads that the engine was asked for.
TypeOK ==
  /\ mpv \in [file : 0..MaxLoads, stage : {"idle", "opening", "loaded", "playing"},
              next : 0..MaxLoads]
  /\ mpvEvents \in Seq([id : Ids, load : Loads, reason : Reasons \cup {"none"}])
  /\ reports \in 0..MaxReports
  /\ {generation, current, loads, position} \subseteq Loads
  /\ observed \in 0..MaxLoads
  /\ generation <= loads /\ current <= generation
  /\ {pending, pendingStarted, ended, failed, loading, closed, asked, misled} \subseteq BOOLEAN
  /\ pendingStarted => pending
  /\ asked => loading /\ generation < loads
  /\ missed \subseteq 1..generation
  /\ started \in Stages
  /\ channel \in Seq([gen : Loads, kind : Kinds, load : Loads])
  /\ Len(channel) <= ChannelCap
  /\ closer \in {"no", "waiting", "done"} /\ (closed <=> closer # "no")
  /\ open \subseteq Loads

\* Loads of which mpv told the engine nothing wrong, and of which nothing was dropped.
Faithful(load) == ~misled /\ load \notin missed

\* What is sent for a load is about its own file: replacing a file never ends or fails
\* the new one, and the old position is never the new one's progress.
EventsAreOwn ==
  \A i \in DOMAIN channel : Faithful(channel[i].gen) => channel[i].load = channel[i].gen

\* What the session reports for its current request is of that request's file.
HeardIsCurrent == Faithful(heard.as) => heard.load = heard.as

\* What is sent, and what the session makes of it, is of the file it is taken for.
NewsIsOwn == TypeOK /\ EventsAreOwn /\ HeardIsCurrent

\* The start handler is called once per stage and load, of that load's own events,
\* and never for a load after a newer one's (SetStartHandler).
StartsOnce ==
  /\ \A i \in DOMAIN starts : starts[i][1] = starts[i][3]
  /\ \A i, j \in DOMAIN starts : i < j =>
       \/ starts[i][1] < starts[j][1]
       \/ starts[i][1] = starts[j][1] /\ starts[i][2] = "fileLoaded" /\ starts[j][2] = "playing"

\* The end and failure handlers are called at most once per load, and not both.
EndsOnce == ~misled => IsInjective(ends \o failures)

\* Outside a load only the current file's proxy session is open; none after Close.
NoLeakedStream ==
  /\ ~loading => open \subseteq {current}
  /\ closer = "done" => open = {}

\* Each load is told to have started and ended as often as it did, and its stream is closed.
LoadsAreAccounted == StartsOnce /\ EndsOnce /\ NoLeakedStream

\* A pending load does not stay pending: its file is loaded or fails, unless a refused
\* load dropped the news of it.
LoadSettles == pending ~> (~pending \/ generation \in missed \/ closer = "done")
=============================================================================
