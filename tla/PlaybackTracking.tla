-------------------------- MODULE PlaybackTracking --------------------------
(***************************************************************************)
(* The tracked playback session (core/playback_tracking.go) between the    *)
(* window, the libmpv player and the progress store.                       *)
(*                                                                         *)
(* Three goroutines share it: "op", a caller of Load, switchEpisode or     *)
(* Snapshot (opGate admits one); "run", which records the player's events  *)
(* and saves on a ticker; and "close".  Each may checkpoint: capture the   *)
(* state under stateMu, write the store without it, note what was written. *)
(* persistGate admits one of them to that.                                 *)
(*                                                                         *)
(* A position is a step towards Late, the 90% mark.  The player is         *)
(* adapters/player/libmpv over apps/desktop/fltkengine, in as much detail  *)
(* as tells which file an event or a snapshot is about.                    *)
(***************************************************************************)
EXTENDS Integers, Sequences, SequencesExt

CONSTANTS
  Episodes,   \* the episodes of the anime being watched
  First,      \* the episode the session starts with
  Late,       \* the position from which an episode counts as completed
  EventCap,   \* capacity of the player's event channel
  StageCap,   \* trackedEventQueueCapacity, of the events staged by a load
  MaxLoads,   \* bound: how many loads the player is asked for
  MaxEvents   \* bound: how many events the player emits

ASSUME TrackingAssumption ==
  /\ First \in Episodes
  /\ Late \in Nat \ {0}
  /\ EventCap \in Nat \ {0} /\ StageCap \in Nat \ {0}
  /\ MaxLoads \in Nat /\ MaxEvents \in Nat

Positions == 0..Late
Threads   == {"op", "run", "close"}

ThresholdReached(pos) == pos >= Late

Kinds         == {"progress", "paused", "ended", "failed"}
TerminalKinds == {"ended", "failed"}
\* isCheckpointBoundary
BoundaryKinds == {"paused", "ended", "failed"}

VARIABLES
  \* the player
  file,        \* [ep, pos, over]: what mpv has loaded and where it is
  current,     \* the episode the libmpv session attributes events to
  loading,     \* a load is in progress: events are dropped
  replaced,    \* the load in progress has replaced mpv's file
  deaf,        \* mpv's file is not the one the session knows: events are dropped
  loads,       \* how many loads were asked for
  rawEvents,   \* the session's event channel
  emitted,     \* how many events were emitted
  rawClosed,
  \* the tracked session
  tracked,     \* [ep, pos, of, completed, terminal, owner]
  generation, persisted,
  pending,     \* None, or [playback, events, checkpoint] of the load in progress
  closing, stop, runDone, closeDone, closeErr,
  opGate,      \* "free" or the thread that holds it
  persistGate,
  pc,
  snapshot,    \* the raw snapshot the holder of opGate read
  capture,     \* [thread -> the checkpoint it is writing]
  op,          \* [kind, phase, target, start]: the operation in progress
  lastRun,     \* run's next checkpoint is its last
  acquired,    \* close got the opGate
  \* the store
  store,       \* [episode -> [pos, completed, of]]
  \* history
  relayed,     \* [owner, terminal] of what was last published to the relay
  reached,     \* episodes whose file came to the 90% mark
  seen,        \* generation when the operation in progress resolved its request
  strayed,     \* a load was reported failed after the player had replaced the file
  blurred      \* a checkpoint finished after its episode had been replaced

playerVars  == <<file, current, loading, replaced, deaf, loads, rawEvents, emitted,
                 rawClosed>>
stateVars   == <<tracked, generation, persisted, pending>>
closeVars   == <<closing, stop, runDone, closeDone, closeErr, acquired>>
threadVars  == <<pc, snapshot, capture, op, lastRun>>
historyVars == <<relayed, reached, seen, strayed, blurred>>
vars == <<playerVars, stateVars, closeVars, opGate, persistGate, threadVars,
          store, historyVars>>

None == [none |-> TRUE]

\* newTrackedPlayback; "of" is the episode whose file the position was read from.
NewPlayback(ep, start, owner) ==
  [ep |-> ep, pos |-> start, of |-> ep,
   completed |-> FALSE, terminal |-> FALSE, owner |-> owner]

NoSnapshot == [pos |-> 0, of |-> First]
NoCapture  == [gen |-> 0, ep |-> First, pos |-> 0, of |-> First, completed |-> FALSE,
               owner |-> 0]
NoOp       == [kind |-> "none", phase |-> 0, target |-> First, start |-> 0]

Init ==
  /\ file = [ep |-> First, pos |-> 0, over |-> FALSE]
  /\ current = First
  /\ loading = FALSE /\ replaced = FALSE /\ deaf = FALSE
  /\ loads = 0
  /\ rawEvents = <<>>
  /\ emitted = 0
  /\ rawClosed = FALSE
  /\ tracked = NewPlayback(First, 0, 1)
  /\ generation = 1
  /\ persisted = 0
  /\ pending = None
  /\ closing = FALSE /\ stop = FALSE /\ runDone = FALSE
  /\ closeDone = FALSE /\ closeErr = FALSE /\ acquired = FALSE
  /\ opGate = "free"
  /\ persistGate = "free"
  /\ pc = [t \in Threads |-> IF t = "close" THEN "off" ELSE "idle"]
  /\ snapshot = NoSnapshot
  /\ capture = [t \in Threads |-> NoCapture]
  /\ op = NoOp
  /\ lastRun = FALSE
  /\ store = [e \in Episodes |-> [pos |-> 0, completed |-> FALSE, of |-> e]]
  /\ relayed = [owner |-> 0, terminal |-> FALSE]
  /\ reached = {}
  /\ seen = 0
  /\ strayed = FALSE
  /\ blurred = FALSE

Goto(t, where) == pc' = [pc EXCEPT ![t] = where]

-----------------------------------------------------------------------------
(* The player.                                                             *)

Play ==
  /\ ~rawClosed /\ ~file.over /\ file.pos < Late
  /\ file' = [file EXCEPT !.pos = @ + 1]
  /\ reached' = IF file.pos + 1 = Late THEN reached \cup {file.ep} ELSE reached
  /\ UNCHANGED <<current, loading, replaced, deaf, loads, rawEvents, emitted, rawClosed,
                 stateVars, closeVars, opGate, persistGate, threadVars, store, relayed,
                 seen, strayed, blurred>>

\* forwardEvent: a full channel drops progress, or its oldest event for another.
Forwarded(event) ==
  CASE Len(rawEvents) < EventCap -> Append(rawEvents, event)
    [] Len(rawEvents) >= EventCap /\ event.kind = "progress" -> rawEvents
    [] OTHER -> Append(Tail(rawEvents), event)

\* An event of the file the session knows, outside a load, is queued as one of the
\* current request.  A file that ended still reports its end as progress.  (One
\* that ends during a load, or unknown to the session, does so without an event.)
Emit(kind) ==
  /\ ~rawClosed /\ ~loading /\ ~deaf /\ emitted < MaxEvents
  /\ kind \in TerminalKinds => ~file.over
  /\ kind = "ended" => file.pos = Late
  /\ rawEvents' = Forwarded([ep |-> current, kind |-> kind, pos |-> file.pos])
  /\ emitted' = emitted + 1
  /\ file' = [file EXCEPT !.over = @ \/ kind \in TerminalKinds]
  /\ UNCHANGED <<current, loading, replaced, deaf, loads, rawClosed, stateVars, closeVars,
                 opGate, persistGate, threadVars, store, historyVars>>

-----------------------------------------------------------------------------
(* refreshSnapshot, for op and close.                                      *)

AfterRefresh(t) ==
  IF t = "op" /\ op.kind = "snapshot" THEN "end" ELSE "checkpoint"

RefreshFailed(t) ==
  IF t = "op" THEN Goto(t, "end") /\ UNCHANGED closeErr
              ELSE Goto(t, "checkpoint") /\ closeErr' = TRUE

\* After a terminal event, before the raw snapshot or after it failed, the cached
\* snapshot is the answer.
SkipRefresh(t) ==
  /\ pc[t] = "refresh"
  /\ tracked.terminal
  /\ Goto(t, AfterRefresh(t))
  /\ UNCHANGED <<playerVars, stateVars, closeVars, opGate, persistGate, snapshot,
                 capture, op, lastRun, store, historyVars>>

ReadSnapshot(t) ==
  /\ pc[t] = "refresh"
  /\ ~tracked.terminal
  /\ ~rawClosed
  /\ snapshot' = [pos |-> file.pos, of |-> file.ep]
  /\ Goto(t, "snapped")
  /\ UNCHANGED <<playerVars, stateVars, closeVars, opGate, persistGate, capture, op,
                 lastRun, store, historyVars>>

\* The raw snapshot fails: closed, cancelled, timed out or still seeking.
SnapshotFails(t) ==
  /\ pc[t] = "refresh"
  /\ ~tracked.terminal
  /\ RefreshFailed(t)
  /\ UNCHANGED <<playerVars, stateVars, closing, stop, runDone, closeDone, acquired,
                 opGate, persistGate, snapshot, capture, op, lastRun, store,
                 historyVars>>

\* Back under stateMu with a snapshot.
UseSnapshot(t) ==
  /\ pc[t] = "snapped"
  /\ LET differs == ~tracked.terminal /\ snapshot.pos # tracked.pos
     IN /\ tracked' = IF differs
                      THEN [tracked EXCEPT !.pos = snapshot.pos, !.of = snapshot.of,
                                           !.completed = @ \/ ThresholdReached(snapshot.pos)]
                      ELSE tracked
        /\ generation' = IF differs THEN generation + 1 ELSE generation
  /\ snapshot' = NoSnapshot
  /\ Goto(t, AfterRefresh(t))
  /\ UNCHANGED <<playerVars, persisted, pending, closeVars, opGate, persistGate, capture,
                 op, lastRun, store, historyVars>>

-----------------------------------------------------------------------------
(* checkpoint, for every thread.                                           *)

\* Where a checkpoint leaves its thread, when it succeeds and when it fails.
AfterCheckpoint(t) ==
  CASE t = "run"   -> IF lastRun THEN "exit" ELSE "idle"
    [] t = "close" -> IF acquired THEN "release" ELSE "join"
    [] t = "op"    -> CASE op.phase = 1 -> "resolve"
                        [] op.phase = 2 -> "begin"
                        [] op.phase = 3 -> "end"

CheckpointFailed(t) ==
  /\ Goto(t, IF t = "op" THEN "end" ELSE AfterCheckpoint(t))
  /\ closeErr' = (closeErr \/ t = "close")

\* persistGate is free; a generation that is already saved needs no write.
GateIsFree == persistGate = "free"

\* What a checkpoint captures under stateMu.
Captured == [gen |-> generation, ep |-> tracked.ep, pos |-> tracked.pos,
             of |-> tracked.of, completed |-> tracked.completed \/ ThresholdReached(tracked.pos),
             owner |-> tracked.owner]

CheckpointClean(t) ==
  /\ pc[t] = "checkpoint"
  /\ GateIsFree
  /\ generation = persisted
  /\ Goto(t, AfterCheckpoint(t))
  /\ UNCHANGED <<playerVars, stateVars, closeVars, opGate, persistGate, snapshot,
                 capture, op, lastRun, store, historyVars>>

Capture(t) ==
  /\ pc[t] = "checkpoint"
  /\ GateIsFree
  /\ generation # persisted
  /\ persistGate' = t
  /\ capture' = [capture EXCEPT ![t] = Captured]
  /\ Goto(t, "saving")
  /\ UNCHANGED <<playerVars, stateVars, closeVars, opGate, snapshot, op, lastRun,
                 store, historyVars>>

\* The context ends before the gate is free: a caller's at any time, one with a
\* timeout of its own only while another thread holds the gate.
CheckpointCancelled(t) ==
  /\ pc[t] = "checkpoint"
  /\ (t = "op" /\ op.phase # 3) \/ ~GateIsFree
  /\ CheckpointFailed(t)
  /\ UNCHANGED <<playerVars, stateVars, closing, stop, runDone, closeDone, acquired,
                 opGate, persistGate, snapshot, capture, op, lastRun, store,
                 historyVars>>

\* SavePlaybackCheckpoint's transaction: the newest entry wins, completed stays.
Save(t) ==
  /\ pc[t] = "saving"
  /\ LET c == capture[t]
     IN store' = [store EXCEPT ![c.ep] = [pos |-> c.pos, of |-> c.of,
                                          completed |-> @.completed \/ c.completed]]
  /\ Goto(t, "saved")
  /\ UNCHANGED <<playerVars, stateVars, closeVars, opGate, persistGate, snapshot,
                 capture, op, lastRun, historyVars>>

SaveFails(t) ==
  /\ pc[t] = "saving"
  /\ persistGate' = "free"
  /\ capture' = [capture EXCEPT ![t] = NoCapture]
  /\ CheckpointFailed(t)
  /\ UNCHANGED <<playerVars, stateVars, closing, stop, runDone, closeDone, acquired,
                 opGate, snapshot, op, lastRun, store, historyVars>>

\* What a saved checkpoint adds to persisted.
PersistedNow(c) == generation   \* fault: not the generation that was captured
PersistedUpTo(c) == c.gen

\* Back under stateMu after the write.
Saved(t) ==
  /\ pc[t] = "saved"
  /\ LET c == capture[t]
     IN /\ persisted' = IF PersistedUpTo(c) > persisted THEN PersistedUpTo(c) ELSE persisted
        /\ tracked' = [tracked EXCEPT !.completed = @ \/ c.completed]
        /\ blurred' = (blurred \/ (c.completed /\ c.owner # tracked.owner))
  /\ persistGate' = "free"
  /\ capture' = [capture EXCEPT ![t] = NoCapture]
  /\ Goto(t, AfterCheckpoint(t))
  /\ UNCHANGED <<playerVars, generation, pending, closeVars, opGate, snapshot, op,
                 lastRun, store, relayed, reached, seen, strayed>>

Checkpoint(t) ==
  \/ CheckpointClean(t) \/ Capture(t) \/ CheckpointCancelled(t)
  \/ Save(t) \/ SaveFails(t) \/ Saved(t)

Refresh(t) == SkipRefresh(t) \/ ReadSnapshot(t) \/ SnapshotFails(t) \/ UseSnapshot(t)

-----------------------------------------------------------------------------
(* Load, switchEpisode and Snapshot.                                       *)

OpUnchanged ==
  UNCHANGED <<closeVars, persistGate, snapshot, capture, lastRun, store>>

BeginOp(kind, target) ==
  /\ pc["op"] = "idle"
  /\ ~closing
  /\ opGate = "free"
  /\ kind = "switch" => loads < MaxLoads
  /\ opGate' = "op"
  /\ op' = [kind |-> kind, phase |-> 1, target |-> target, start |-> 0]
  /\ Goto("op", "refresh")
  /\ UNCHANGED <<playerVars, stateVars, historyVars>>
  /\ OpUnchanged

\* playbackResumePosition, when the caller names no position.
ResumePosition(e) ==
  IF store[e].completed \/ ThresholdReached(store[e].pos) THEN 0 ELSE store[e].pos

\* What follows the resolved request: the current episode is saved once more.
CheckpointAgainForgotten == "begin"   \* fault: the second checkpoint left out
CheckpointAgain == "refresh"

\* preparePlayRequest or prepareDirectRequest; resuming may be switched off.
Resolve ==
  /\ pc["op"] = "resolve"
  /\ \E start \in {0, ResumePosition(op.target)} :
       op' = [op EXCEPT !.phase = 2, !.start = start]
  /\ seen' = generation
  /\ Goto("op", CheckpointAgain)
  /\ UNCHANGED <<playerVars, stateVars, opGate, relayed, reached, strayed, blurred>>
  /\ OpUnchanged

ResolveFails ==
  /\ pc["op"] = "resolve"
  /\ Goto("op", "end")
  /\ UNCHANGED <<playerVars, stateVars, opGate, op, historyVars>>
  /\ OpUnchanged

\* beginPending, and the player's load up to the dispatch to the UI thread; a
\* closed player refuses it.
BeginPending ==
  /\ pc["op"] = "begin"
  /\ pending' = [playback   |-> NewPlayback(op.target, op.start, tracked.owner + 1),
                 events     |-> <<>>,
                 checkpoint |-> FALSE]
  /\ IF rawClosed
     THEN Goto("op", "discard") /\ UNCHANGED <<loading, loads>>
     ELSE Goto("op", "loading") /\ loading' = TRUE /\ loads' = loads + 1
  /\ UNCHANGED <<file, current, replaced, deaf, rawEvents, emitted, rawClosed, tracked,
                 generation, persisted, opGate, op, historyVars>>
  /\ OpUnchanged

\* dispatch runs Engine.Load on the UI thread: mpv replaces the file.
EngineReplaces ==
  /\ pc["op"] = "loading"
  /\ ~replaced
  /\ replaced' = TRUE
  /\ file' = [ep |-> op.target, pos |-> op.start, over |-> FALSE]
  /\ UNCHANGED <<current, loading, deaf, loads, rawEvents, emitted, rawClosed, stateVars,
                 opGate, pc, op, historyVars>>
  /\ OpUnchanged

LoadSucceeds ==
  /\ pc["op"] = "loading"
  /\ replaced
  /\ current' = op.target
  /\ loading' = FALSE /\ replaced' = FALSE /\ deaf' = FALSE
  /\ Goto("op", "commit")
  /\ UNCHANGED <<file, loads, rawEvents, emitted, rawClosed, stateVars, opGate, op,
                 historyVars>>
  /\ OpUnchanged

\* The load is refused, or its context ends: before mpv was told, or after, when
\* dispatch answers with the context's error although its action ran.
LoadFails ==
  /\ pc["op"] = "loading"
  /\ loading' = FALSE /\ replaced' = FALSE
  /\ deaf' = (deaf \/ replaced)
  /\ strayed' = (strayed \/ replaced)
  /\ Goto("op", "discard")
  /\ UNCHANGED <<file, current, loads, rawEvents, emitted, rawClosed, stateVars, opGate,
                 op, relayed, reached, seen, blurred>>
  /\ OpUnchanged

Discard ==
  /\ pc["op"] = "discard"
  /\ pending' = None
  /\ Goto("op", "end")
  /\ UNCHANGED <<playerVars, tracked, generation, persisted, opGate, op, historyVars>>
  /\ OpUnchanged

\* What is handed to the relay for an owner, in a call of publish for each event.
Relay(owner, kinds) ==
  relayed' = IF kinds = <<>> THEN relayed
             ELSE [owner    |-> owner,
                   terminal |-> \E i \in DOMAIN kinds : kinds[i] \in TerminalKinds]

\* The tracked playback a committed load leaves, and its generation.
CommittedGeneration == generation + 1

Commit ==
  /\ pc["op"] = "commit"
  /\ tracked' = pending.playback
  /\ generation' = CommittedGeneration
  /\ pending' = None
  /\ Relay(pending.playback.owner, pending.events)
  /\ IF pending.checkpoint
     THEN Goto("op", "checkpoint") /\ op' = [op EXCEPT !.phase = 3]
     ELSE Goto("op", "end") /\ op' = op
  /\ UNCHANGED <<playerVars, persisted, opGate, reached, seen, strayed, blurred>>
  /\ OpUnchanged

EndOp ==
  /\ pc["op"] = "end"
  /\ opGate' = "free"
  /\ op' = NoOp
  /\ seen' = 0
  /\ Goto("op", "idle")
  /\ UNCHANGED <<playerVars, stateVars, relayed, reached, strayed, blurred>>
  /\ OpUnchanged

Operation ==
  \/ Refresh("op") \/ Checkpoint("op")
  \/ Resolve \/ ResolveFails \/ BeginPending \/ EngineReplaces
  \/ LoadSucceeds \/ LoadFails \/ Discard \/ Commit \/ EndOp

-----------------------------------------------------------------------------
(* run.                                                                    *)

Applied(playback, event) ==
  [playback EXCEPT !.pos = event.pos, !.of = event.ep,
                   !.completed = @ \/ event.kind = "ended" \/ ThresholdReached(event.pos),
                   !.terminal = event.kind \in TerminalKinds]

\* appendPendingPlaybackEvent: progress replaces progress; a full list drops its
\* first progress, else what is not terminal, else its oldest event.
Staged(kinds, kind) ==
  LET progress == SelectInSeq(kinds, LAMBDA k : k = "progress")
  IN IF kinds # <<>> /\ kind = "progress" /\ Last(kinds) = "progress" THEN kinds
     ELSE IF Len(kinds) < StageCap THEN Append(kinds, kind)
     ELSE IF progress # 0 THEN Append(RemoveAt(kinds, progress), kind)
     ELSE IF kind \in TerminalKinds THEN Append(Tail(kinds), kind)
     ELSE kinds

TerminalIsFinal(playback) == ~playback.terminal

ForPending(event) == pending # None /\ event.ep = pending.playback.ep
ForAnyEpisode(event) == ~ForPending(event)   \* fault: the ids are not compared
ForCurrent(event) == ~ForPending(event) /\ event.ep = tracked.ep

ObserveUnchanged ==
  UNCHANGED <<file, current, loading, replaced, deaf, loads, emitted, rawClosed,
              persisted, closeVars, opGate, persistGate, snapshot, capture, op,
              lastRun, store, reached, seen, strayed, blurred>>

ObservePending ==
  /\ pc["run"] = "idle"
  /\ rawEvents # <<>>
  /\ LET event == Head(rawEvents)
     IN /\ ForPending(event)
        /\ TerminalIsFinal(pending.playback)
        /\ pending' = [playback   |-> Applied(pending.playback, event),
                       events     |-> Staged(pending.events, event.kind),
                       checkpoint |-> pending.checkpoint \/ event.kind \in BoundaryKinds]
  /\ rawEvents' = Tail(rawEvents)
  /\ UNCHANGED <<tracked, generation, pc, relayed>>
  /\ ObserveUnchanged

ObserveCurrent ==
  /\ pc["run"] = "idle"
  /\ rawEvents # <<>>
  /\ LET event == Head(rawEvents)
     IN /\ ForCurrent(event)
        /\ TerminalIsFinal(tracked)
        /\ tracked' = Applied(tracked, event)
        /\ Relay(tracked.owner, <<event.kind>>)
        /\ Goto("run", IF event.kind \in BoundaryKinds THEN "checkpoint" ELSE "idle")
  /\ generation' = generation + 1
  /\ rawEvents' = Tail(rawEvents)
  /\ UNCHANGED pending
  /\ ObserveUnchanged

ObserveNothing ==
  /\ pc["run"] = "idle"
  /\ rawEvents # <<>>
  /\ LET event == Head(rawEvents)
     IN /\ ForPending(event) => ~TerminalIsFinal(pending.playback)
        /\ ForCurrent(event) => ~TerminalIsFinal(tracked)
  /\ rawEvents' = Tail(rawEvents)
  /\ UNCHANGED <<tracked, generation, pending, pc, relayed>>
  /\ ObserveUnchanged

RunUnchanged ==
  UNCHANGED <<playerVars, stateVars, closing, closeDone, closeErr, acquired, opGate,
              persistGate, snapshot, capture, op, store, historyVars>>

Tick ==
  /\ pc["run"] = "idle"
  /\ Goto("run", "checkpoint")
  /\ UNCHANGED <<stop, runDone, lastRun>>
  /\ RunUnchanged

EventsClosed ==
  /\ pc["run"] = "idle"
  /\ rawClosed
  /\ rawEvents = <<>>
  /\ lastRun' = TRUE
  /\ Goto("run", "checkpoint")
  /\ UNCHANGED <<stop, runDone>>
  /\ RunUnchanged

Stopped ==
  /\ pc["run"] = "idle"
  /\ stop
  /\ Goto("run", "exit")
  /\ UNCHANGED <<stop, runDone, lastRun>>
  /\ RunUnchanged

ExitRunUnannounced ==   \* fault: runDone is never closed
  /\ pc["run"] = "exit"
  /\ stop' = TRUE
  /\ Goto("run", "done")
  /\ UNCHANGED <<runDone, lastRun>>
  /\ RunUnchanged
ExitRun ==
  /\ pc["run"] = "exit"
  /\ stop' = TRUE
  /\ runDone' = TRUE
  /\ Goto("run", "done")
  /\ UNCHANGED <<lastRun>>
  /\ RunUnchanged

Run == \/ ObservePending \/ ObserveCurrent \/ ObserveNothing
       \/ EventsClosed \/ Stopped \/ ExitRun \/ Checkpoint("run")

-----------------------------------------------------------------------------
(* close.                                                                  *)

CloseUnchanged ==
  UNCHANGED <<file, current, loading, replaced, deaf, loads, rawEvents, emitted, stateVars,
              persistGate, snapshot, capture, op, lastRun, store, historyVars>>

BeginClose ==
  /\ pc["close"] = "off"
  /\ closing' = TRUE
  /\ stop' = TRUE
  /\ Goto("close", "stopping")
  /\ UNCHANGED <<rawClosed, runDone, closeDone, closeErr, acquired, opGate>>
  /\ CloseUnchanged

\* stopRun, which gives up after a timeout.
StopRun ==
  /\ pc["close"] = "stopping"
  /\ closeErr' = (closeErr \/ ~runDone)
  /\ Goto("close", "acquire")
  /\ UNCHANGED <<rawClosed, closing, stop, runDone, closeDone, acquired, opGate>>
  /\ CloseUnchanged

Acquire ==
  /\ pc["close"] = "acquire"
  /\ opGate = "free"
  /\ opGate' = "close"
  /\ acquired' = TRUE
  /\ Goto("close", "refresh")
  /\ UNCHANGED <<rawClosed, closing, stop, runDone, closeDone, closeErr>>
  /\ CloseUnchanged

AcquireTimesOut ==
  /\ pc["close"] = "acquire"
  /\ opGate # "free"
  /\ closeErr' = TRUE
  /\ Goto("close", "rawClose")
  /\ UNCHANGED <<rawClosed, closing, stop, runDone, closeDone, acquired, opGate>>
  /\ CloseUnchanged

Release ==
  /\ pc["close"] = "release"
  /\ opGate' = "free"
  /\ Goto("close", "rawClose")
  /\ UNCHANGED <<rawClosed, closing, stop, runDone, closeDone, closeErr, acquired>>
  /\ CloseUnchanged

\* raw.Close waits for the load in progress (opMu), whose context is cancelled.
RawClose ==
  /\ pc["close"] = "rawClose"
  /\ ~loading
  /\ rawClosed' = TRUE
  /\ Goto("close", IF acquired THEN "join" ELSE "checkpoint")
  /\ UNCHANGED <<closing, stop, runDone, closeDone, closeErr, acquired, opGate>>
  /\ CloseUnchanged

Join ==
  /\ pc["close"] = "join"
  /\ runDone
  /\ closeDone' = TRUE
  /\ Goto("close", "done")
  /\ UNCHANGED <<rawClosed, closing, stop, runDone, closeErr, acquired, opGate>>
  /\ CloseUnchanged

Close == \/ Refresh("close") \/ Checkpoint("close")
         \/ StopRun \/ Acquire \/ AcquireTimesOut \/ Release \/ RawClose \/ Join

-----------------------------------------------------------------------------
Next ==
  \/ Play \/ \E kind \in Kinds : Emit(kind)
  \/ \E e \in Episodes : BeginOp("switch", e)
  \/ BeginOp("snapshot", First)
  \/ Operation
  \/ Tick \/ Run
  \/ BeginClose \/ Close

Spec == Init /\ [][Next]_vars

\* A goroutine that can step does: store and player calls return, at the latest
\* when their context ends.  run's select takes each ready channel in the end, so
\* ticks and events do not keep it from a closed stop.  Nobody is obliged to call,
\* to tick or to close.
FairSpec ==
  Spec /\ WF_vars(Operation) /\ WF_vars(Run) /\ WF_vars(Close) /\ SF_vars(Stopped)

-----------------------------------------------------------------------------
(* Properties.                                                             *)

Playback == [ep : Episodes, pos : Positions, of : Episodes, completed : BOOLEAN,
             terminal : BOOLEAN, owner : Nat]
Event    == [ep : Episodes, kind : Kinds, pos : Positions]
Entry    == [pos : Positions, completed : BOOLEAN, of : Episodes]

Holding(t) == pc[t] \in {"saving", "saved"}

\* The player's part of the type invariant.
PlayerTypes ==
  /\ file \in [ep : Episodes, pos : Positions, over : BOOLEAN]
  /\ current \in Episodes
  /\ {loading, replaced, deaf, rawClosed} \subseteq BOOLEAN
  /\ loads \in Nat /\ emitted \in Nat
  /\ rawEvents \in Seq(Event) /\ Len(rawEvents) <= EventCap
  /\ reached \subseteq Episodes

\* The session's, of the records that a load, a checkpoint and an operation fill in.
SessionTypes ==
  /\ tracked \in Playback
  /\ generation \in Nat /\ persisted \in Nat /\ seen \in Nat
  /\ pending # None =>
       pending \in [playback : Playback, events : Seq(Kinds), checkpoint : BOOLEAN]
  /\ pending # None => Len(pending.events) <= StageCap
  /\ snapshot \in [pos : Positions, of : Episodes]
  /\ capture \in [Threads -> [gen : Nat, ep : Episodes, pos : Positions, of : Episodes,
                              completed : BOOLEAN, owner : Nat]]
  /\ op \in [kind : {"none", "switch", "snapshot"}, phase : 0..3, target : Episodes,
             start : Positions]
  /\ store \in [Episodes -> Entry]

\* Who does what: a load is pending exactly from beginPending to commit or discard,
\* opGate is held exactly by the thread in its section, persistGate by the one that
\* writes.
Sections ==
  /\ {closing, stop, runDone, closeDone, closeErr, acquired, lastRun} \subseteq BOOLEAN
  /\ loading <=> pc["op"] = "loading"
  /\ pending # None <=> pc["op"] \in {"loading", "commit", "discard"}
  /\ opGate \in {"free", "op", "close"}
  /\ opGate = "op" <=> pc["op"] # "idle"
  /\ persistGate \in Threads \cup {"free"}
  /\ \A t \in Threads : Holding(t) <=> persistGate = t

\* Each variable has its type, and the parts of the session agree on who does what.
TypeOK == PlayerTypes /\ SessionTypes /\ Sections

\* "Nothing to save" is never a lie: while no change is unsaved, the store has the
\* current episode's position and, if it is completed, that it is.
CleanMeansSaved ==
  generation = persisted =>
    /\ store[tracked.ep].pos = tracked.pos
    /\ tracked.completed => store[tracked.ep].completed

\* A checkpoint in progress is newer than every checkpoint that finished: a slow
\* write of an old state never lands on top of a newer one.
NeverSavesOlder ==
  \A t \in Threads : Holding(t) => capture[t].gen > persisted

\* What counts as saved is saved, whoever wrote it and however slowly.
SavesAreTrue == TypeOK /\ CleanMeansSaved /\ NeverSavesOlder

\* The player is told to load the next episode only after everything recorded of
\* the current one by the time the request was resolved is saved.
SwitchSavesFirst ==
  pc["op"] \in {"begin", "loading", "commit"} => persisted >= seen

\* A close that reports no error has saved everything the session recorded, and
\* nothing is recorded afterwards.
CloseSavesFinal ==
  closeDone /\ ~closeErr =>
    generation = persisted /\ store[tracked.ep].pos = tracked.pos

\* Nothing watched is lost on the way out of an episode, by a switch or by closing.
MovesOnSaved == SwitchSavesFirst /\ CloseSavesFinal

\* A position is saved only for the episode whose file it was read from, unless a
\* load was reported failed after it replaced the file.
SavedForItsEpisode ==
  ~strayed => \A e \in Episodes : store[e].of = e

\* Only an episode that came to its 90% mark is saved as completed, unless a
\* checkpoint of another episode finished after the switch, or a load strayed.
CompletedIsEarned ==
  ~blurred /\ ~strayed => \A e \in Episodes : store[e].completed => e \in reached

\* What the store says of an episode is of that episode, but for the two losses above.
SavedIsEarned == SavedForItsEpisode /\ CompletedIsEarned

\* What is published goes owner by owner, and ends with the owner's terminal
\* event: what the relay (EventRelay) takes for granted.
RelayedInOrder ==
  [][relayed' # relayed =>
       /\ relayed'.owner >= relayed.owner
       /\ relayed.terminal => relayed'.owner > relayed.owner]_vars

\* Close returns, whatever the operation in progress, the ticker, the store and
\* the player do.
CloseReturns == closing ~> closeDone

\* docs/01_PRODUCT.md: "An episode counts as completed at 90% or more."
CompletedAtThreshold ==
  ~strayed => \A e \in Episodes : store[e].completed => e \in reached
=============================================================================
