----------------------- MODULE PlaybackTrackingProofs -----------------------
(***************************************************************************)
(* The tracked session's safety, for any episodes, capacities and number   *)
(* of loads and events.  The argument: only the holder of persistGate      *)
(* writes, what it captured is newer than what is saved and not newer than *)
(* what is tracked, and if it is as new, it is the same; and a close       *)
(* without an error has outlived everybody who records.                    *)
(***************************************************************************)
EXTENDS PlaybackTracking, SequenceTheorems, WellFoundedInduction, TLAPS

Places == {"idle", "refresh", "snapped", "checkpoint", "saving", "saved",
           "resolve", "begin", "loading", "commit", "discard", "end",
           "exit", "done",
           "off", "stopping", "acquire", "release", "rawClose", "join"}

Working == {"refresh", "snapped", "checkpoint", "saving", "saved"}

\* What TypeOK needs to be inductive: an operation that refreshes or saves is in one
\* of its three phases, and close has opGate exactly from acquiring it to its release.
Phases ==
  /\ pc \in [Threads -> Places]
  /\ pc["op"] \in Working => op.phase \in 1..3
  /\ pc["close"] \in {"refresh", "snapped", "release"} => acquired
  /\ opGate = "close" <=> acquired /\ pc["close"] \in Working \cup {"release"}

Typed == TypeOK /\ Phases

-----------------------------------------------------------------------------
(* The operators keep their types.                                         *)

LEMMA ThresholdType == \A pos : ThresholdReached(pos) \in BOOLEAN
  BY DEF ThresholdReached

LEMMA AppliedType ==
  ASSUME NEW playback \in Playback, NEW event \in Event
  PROVE  Applied(playback, event) \in Playback
<1>1. /\ event.pos \in Positions /\ event.ep \in Episodes
      /\ (event.kind \in TerminalKinds) \in BOOLEAN
      /\ (playback.completed \/ event.kind = "ended" \/ ThresholdReached(event.pos))
           \in BOOLEAN
  BY DEF Event
<1> QED
  BY <1>1 DEF Applied, Playback

LEMMA TakenType ==
  ASSUME rawEvents \in Seq(Event), Len(rawEvents) <= EventCap, rawEvents # <<>>
  PROVE  /\ Head(rawEvents) \in Event
         /\ Tail(rawEvents) \in Seq(Event) /\ Len(Tail(rawEvents)) <= EventCap
<1>1. /\ Head(rawEvents) \in Event /\ Tail(rawEvents) \in Seq(Event)
      /\ Len(Tail(rawEvents)) = Len(rawEvents) - 1 /\ Len(rawEvents) \in Nat
  OBVIOUS
<1> HIDE DEF Event
<1> QED
  BY <1>1, TrackingAssumption

LEMMA NotNone ==
  \A playback, events, checkpoint :
    [playback |-> playback, events |-> events, checkpoint |-> checkpoint] # None
  BY DEF None

LEMMA ForwardedType ==
  ASSUME rawEvents \in Seq(Event), Len(rawEvents) <= EventCap, NEW event \in Event
  PROVE  Forwarded(event) \in Seq(Event) /\ Len(Forwarded(event)) <= EventCap
  BY TrackingAssumption DEF Forwarded

\* A nonempty set of naturals has a least element.
LEMMA LeastOf ==
  ASSUME NEW S, S \subseteq Nat, S # {}
  PROVE  \E i \in S : \A j \in S : i <= j
<1>1. PICK i \in S : \A j \in S : <<j, i>> \notin OpToRel(<, Nat)
  BY NatLessThanWellFounded, WFMin, Zenon
<1>2. ASSUME NEW j \in S PROVE ~(j < i)
  BY <1>1, Zenon DEF OpToRel
<1> QED
  BY <1>2

\* A list without one of its elements.
LEMMA RemoveAtType ==
  ASSUME NEW S, NEW s \in Seq(S), NEW i \in 1..Len(s)
  PROVE  RemoveAt(s, i) \in Seq(S) /\ Len(RemoveAt(s, i)) = Len(s) - 1
<1> DEFINE a == SubSeq(s, 1, i - 1)
           b == SubSeq(s, i + 1, Len(s))
<1>1. a \in Seq(S) /\ Len(a) = i - 1
  OBVIOUS
<1>2. b \in Seq(S) /\ Len(b) = Len(s) - i
  OBVIOUS
<1>3. RemoveAt(s, i) = a \o b
  BY DEF RemoveAt
<1> HIDE DEF a, b
<1> QED
  BY <1>1, <1>2, <1>3

\* The place of the first progress event in a list that has one.
LEMMA FirstProgressType ==
  ASSUME NEW kinds \in Seq(Kinds)
  PROVE  SelectInSeq(kinds, LAMBDA k : k = "progress") \in 0..Len(kinds)
<1> DEFINE I == {i \in 1..Len(kinds) : kinds[i] = "progress"}
<1>1. CASE I = {}
  BY <1>1 DEF SelectInSeq
<1>2. CASE I # {}
  <2>1. Min(I) \in I
    <3>1. \E i \in I : \A j \in I : i <= j
      <4>1. I \subseteq Nat
        OBVIOUS
      <4> HIDE DEF I
      <4> QED
        BY <4>1, <1>2, LeastOf
    <3> HIDE DEF I
    <3> QED
      BY <3>1, Zenon DEF Min
  <2> QED
    BY <1>2, <2>1 DEF SelectInSeq
<1> QED
  BY <1>1, <1>2

LEMMA StagedType ==
  ASSUME NEW kinds \in Seq(Kinds), Len(kinds) <= StageCap, NEW kind \in Kinds
  PROVE  Staged(kinds, kind) \in Seq(Kinds) /\ Len(Staged(kinds, kind)) <= StageCap
<1> DEFINE progress == SelectInSeq(kinds, LAMBDA k : k = "progress")
           shorter  == RemoveAt(kinds, progress)
<1>1. progress \in 0..Len(kinds)
  BY FirstProgressType
<1>2. Staged(kinds, kind) \in
        {kinds, IF Len(kinds) < StageCap THEN Append(kinds, kind) ELSE kinds,
         IF progress # 0 THEN Append(shorter, kind) ELSE kinds,
         IF kinds # <<>> THEN Append(Tail(kinds), kind) ELSE kinds}
  BY TrackingAssumption DEF Staged
<1>3. progress # 0 => shorter \in Seq(Kinds) /\ Len(shorter) = Len(kinds) - 1
  BY <1>1, RemoveAtType
<1> HIDE DEF progress, shorter
<1>4. CASE progress # 0 /\ Staged(kinds, kind) = Append(shorter, kind)
  BY <1>1, <1>3, <1>4, TrackingAssumption
<1>5. CASE kinds # <<>> /\ Staged(kinds, kind) = Append(Tail(kinds), kind)
  <2>1. Tail(kinds) \in Seq(Kinds) /\ Len(Tail(kinds)) = Len(kinds) - 1
    BY <1>5
  <2> QED
    BY <1>5, <2>1, TrackingAssumption
<1>6. CASE Staged(kinds, kind) = Append(kinds, kind) /\ Len(kinds) < StageCap
  BY <1>6, TrackingAssumption
<1> QED
  BY <1>2, <1>4, <1>5, <1>6

-----------------------------------------------------------------------------
(* Type correctness.                                                       *)

LEMMA Empties ==
  /\ NoCapture \in [gen : Nat, ep : Episodes, pos : Positions, of : Episodes,
                    completed : BOOLEAN, owner : Nat]
  /\ NoSnapshot \in [pos : Positions, of : Episodes]
  /\ NoOp \in [kind : {"none", "switch", "snapshot"}, phase : 0..3, target : Episodes,
               start : Positions]
  BY TrackingAssumption DEF NoCapture, NoSnapshot, NoOp, Positions

LEMMA InitTyped == Init => Typed
<1> SUFFICES ASSUME Init PROVE Typed
  OBVIOUS
<1> USE TrackingAssumption DEF Init, NewPlayback, NoCapture, NoSnapshot, NoOp
<1>1. PlayerTypes
  <2>1. rawEvents \in Seq(Event) /\ Len(rawEvents) <= EventCap
    OBVIOUS
  <2>2. file \in [ep : Episodes, pos : Positions, over : BOOLEAN]
    BY DEF Positions
  <2> QED
    BY <2>1, <2>2 DEF PlayerTypes
<1>2. SessionTypes
  BY DEF SessionTypes, Playback, Positions, Entry
<1>3. Sections
  BY DEF Sections, Holding, Threads
<1>4. Phases
  BY DEF Phases, Working, Places, Threads
<1> QED
  BY <1>1, <1>2, <1>3, <1>4 DEF Typed, TypeOK

\* Where a checkpoint can leave its thread.
LEMMA AfterCheckpointPlace ==
  ASSUME Typed, NEW t \in Threads, pc[t] \in Working
  PROVE  /\ t = "op"    => AfterCheckpoint(t) \in {"resolve", "begin", "end"}
         /\ t = "run"   => AfterCheckpoint(t) \in {"exit", "idle"}
         /\ t = "close" => AfterCheckpoint(t) = IF acquired THEN "release" ELSE "join"
<1> USE DEF Typed, TypeOK, Phases, Threads
<1>1. CASE t = "op"
  <2>1. op.phase \in 1..3
    BY <1>1
  <2>2. CASE op.phase = 1
    BY <1>1, <2>2 DEF AfterCheckpoint
  <2>3. CASE op.phase = 2
    BY <1>1, <2>3 DEF AfterCheckpoint
  <2>4. CASE op.phase = 3
    BY <1>1, <2>4 DEF AfterCheckpoint
  <2> QED
    BY <1>1, <2>1, <2>2, <2>3, <2>4
<1>2. CASE t = "run"
  BY <1>2 DEF AfterCheckpoint
<1>3. CASE t = "close"
  BY <1>3 DEF AfterCheckpoint
<1> QED
  BY <1>1, <1>2, <1>3

\* A thread that leaves its checkpoint, letting go of persistGate if it has it.
LEMMA LeavingSections ==
  ASSUME Typed, NEW t \in Threads, pc[t] \in Working, NEW where,
         t = "op" => where \in {"resolve", "begin", "end"},
         t = "run" => where \in {"exit", "idle"},
         t = "close" => where \in {"release", "join"},
         Goto(t, where),
         UNCHANGED <<closing, stop, runDone, closeDone, acquired, lastRun, loading,
                     pending, opGate>>,
         closeErr' \in BOOLEAN,
         persistGate' = IF persistGate = t THEN "free" ELSE persistGate
  PROVE  Sections'
<1> USE DEF Typed, TypeOK, Phases, Threads, Working, Goto
<1>1. /\ pc'[t] = where
      /\ \A u \in Threads \ {t} : pc'[u] = pc[u]
  OBVIOUS
<1>2. /\ pc["op"] \notin {"loading", "commit", "discard", "idle"} \/ t # "op"
      /\ pc'["op"] \notin {"loading", "commit", "discard", "idle"} \/ t # "op"
  BY <1>1
<1>3. /\ loading' <=> pc'["op"] = "loading"
      /\ pending' # None <=> pc'["op"] \in {"loading", "commit", "discard"}
      /\ opGate' = "op" <=> pc'["op"] # "idle"
  BY <1>1, <1>2 DEF Sections
<1>4. \A u \in Threads : Holding(u)' <=> persistGate' = u
  BY <1>1 DEF Sections, Holding
<1>5. {closing, stop, runDone, closeDone, closeErr, acquired, lastRun}' \subseteq BOOLEAN
  BY DEF Sections
<1> QED
  BY <1>3, <1>4, <1>5 DEF Sections

LEMMA RefreshTyped ==
  ASSUME Typed, NEW t \in {"op", "close"}, Refresh(t)
  PROVE  Typed'
<1> USE DEF Typed, TypeOK, playerVars, stateVars, closeVars, threadVars, historyVars
<1> USE DEF Threads, Holding, Working, Places, Goto
<1>1. CASE SkipRefresh(t)
  <2> USE <1>1 DEF SkipRefresh, AfterRefresh
  <2>1. PlayerTypes'
    BY DEF PlayerTypes
  <2>2. SessionTypes'
    BY DEF SessionTypes
  <2>3. Sections'
    BY DEF Sections, Phases
  <2>4. Phases'
    BY DEF Phases
  <2> QED
    BY <2>1, <2>2, <2>3, <2>4
<1>2. CASE ReadSnapshot(t)
  <2> USE <1>2 DEF ReadSnapshot
  <2>1. PlayerTypes'
    BY DEF PlayerTypes
  <2>2. SessionTypes'
    <3>1. snapshot' \in [pos : Positions, of : Episodes]
      BY DEF PlayerTypes
    <3> QED
      BY <3>1 DEF SessionTypes
  <2>3. Sections'
    BY DEF Sections, Phases
  <2>4. Phases'
    BY DEF Phases
  <2> QED
    BY <2>1, <2>2, <2>3, <2>4
<1>3. CASE SnapshotFails(t)
  <2> USE <1>3 DEF SnapshotFails, RefreshFailed
  <2>1. PlayerTypes'
    BY DEF PlayerTypes
  <2>2. SessionTypes'
    BY DEF SessionTypes
  <2>3. Sections'
    <3>1. closeErr' \in BOOLEAN
      BY DEF Sections
    <3> QED
      BY <3>1 DEF Sections, Phases
  <2>4. Phases'
    BY DEF Phases
  <2> QED
    BY <2>1, <2>2, <2>3, <2>4
<1>4. CASE UseSnapshot(t)
  <2> USE <1>4 DEF UseSnapshot, AfterRefresh
  <2>1. PlayerTypes'
    BY DEF PlayerTypes
  <2>2. SessionTypes'
    <3>1. tracked' \in Playback /\ generation' \in Nat
      <4>1. snapshot.pos \in Positions /\ snapshot.of \in Episodes
        BY DEF SessionTypes
      <4>2. (tracked.completed \/ ThresholdReached(snapshot.pos)) \in BOOLEAN
        OBVIOUS
      <4>3. tracked \in Playback /\ generation \in Nat
        BY DEF SessionTypes
      <4>4. [tracked EXCEPT !.pos = snapshot.pos, !.of = snapshot.of,
                            !.completed = @ \/ ThresholdReached(snapshot.pos)]
              \in Playback
        BY <4>1, <4>2, <4>3 DEF Playback
      <4> QED
        BY <4>3, <4>4
    <3> QED
      BY <3>1, Empties DEF SessionTypes
  <2>3. Sections'
    BY DEF Sections, Phases
  <2>4. Phases'
    BY DEF Phases
  <2> QED
    BY <2>1, <2>2, <2>3, <2>4
<1> QED
  BY <1>1, <1>2, <1>3, <1>4 DEF Refresh

LEMMA CapturedType ==
  ASSUME SessionTypes
  PROVE  Captured \in [gen : Nat, ep : Episodes, pos : Positions, of : Episodes,
                       completed : BOOLEAN, owner : Nat]
<1>1. (tracked.completed \/ ThresholdReached(tracked.pos)) \in BOOLEAN
  OBVIOUS
<1> QED
  BY <1>1 DEF Captured, SessionTypes, Playback

LEMMA CheckpointTyped ==
  ASSUME Typed, NEW t \in Threads, Checkpoint(t)
  PROVE  Typed'
<1> USE DEF Typed, TypeOK, playerVars, stateVars, closeVars, threadVars, historyVars
<1>1. CASE CheckpointClean(t)
  <2> USE <1>1 DEF CheckpointClean
  <2>1. PlayerTypes'
    BY DEF PlayerTypes
  <2>2. SessionTypes'
    BY DEF SessionTypes
  <2>3. Sections'
    <3>1. persistGate # t
      BY DEF Sections, Threads, GateIsFree
    <3> QED
      BY <3>1, AfterCheckpointPlace, LeavingSections DEF Working, Sections
  <2>4. Phases'
    BY AfterCheckpointPlace DEF Phases, Working, Places, Threads, Goto
  <2> QED
    BY <2>1, <2>2, <2>3, <2>4
<1>2. CASE Capture(t)
  <2> USE <1>2 DEF Capture
  <2>1. PlayerTypes'
    BY DEF PlayerTypes
  <2>2. SessionTypes'
    BY CapturedType DEF SessionTypes
  <2>3. Sections'
    BY DEF Sections, Phases, Holding, Goto, Threads, GateIsFree
  <2>4. Phases'
    BY DEF Phases, Working, Places, Threads, Goto
  <2> QED
    BY <2>1, <2>2, <2>3, <2>4
<1>3. CASE CheckpointCancelled(t)
  <2> USE <1>3 DEF CheckpointCancelled, CheckpointFailed
  <2>1. PlayerTypes'
    BY DEF PlayerTypes
  <2>2. SessionTypes'
    BY DEF SessionTypes
  <2>3. Sections'
    <3>1. persistGate # t /\ closeErr' \in BOOLEAN
      BY DEF Sections, Threads, Holding
    <3> QED
      BY <3>1, AfterCheckpointPlace, LeavingSections DEF Working, Sections, Threads
  <2>4. Phases'
    BY AfterCheckpointPlace DEF Phases, Working, Places, Threads, Goto
  <2> QED
    BY <2>1, <2>2, <2>3, <2>4
<1>4. CASE Save(t)
  <2> USE <1>4 DEF Save
  <2>1. PlayerTypes'
    BY DEF PlayerTypes
  <2>2. SessionTypes'
    <3> DEFINE c == capture[t]
    <3>1. c.ep \in Episodes /\ c.pos \in Positions /\ c.of \in Episodes
      BY DEF SessionTypes
    <3>2. (store[c.ep].completed \/ c.completed) \in BOOLEAN
      OBVIOUS
    <3>3. store' \in [Episodes -> Entry]
      BY <3>1, <3>2 DEF SessionTypes, Entry
    <3> QED
      BY <3>3 DEF SessionTypes
  <2>3. Sections'
    BY DEF Sections, Phases, Holding, Goto, Threads
  <2>4. Phases'
    BY DEF Phases, Working, Places, Threads, Goto
  <2> QED
    BY <2>1, <2>2, <2>3, <2>4
<1>5. CASE SaveFails(t)
  <2> USE <1>5 DEF SaveFails, CheckpointFailed
  <2>1. PlayerTypes'
    BY DEF PlayerTypes
  <2>2. SessionTypes'
    BY Empties DEF SessionTypes
  <2>3. Sections'
    <3>1. persistGate = t /\ closeErr' \in BOOLEAN
      BY DEF Sections, Threads, Holding
    <3> QED
      BY <3>1, AfterCheckpointPlace, LeavingSections DEF Working, Sections, Threads
  <2>4. Phases'
    BY AfterCheckpointPlace DEF Phases, Working, Places, Threads, Goto
  <2> QED
    BY <2>1, <2>2, <2>3, <2>4
<1>6. CASE Saved(t)
  <2> USE <1>6 DEF Saved
  <2>1. PlayerTypes'
    BY DEF PlayerTypes
  <2>2. SessionTypes'
    <3>1. persisted' \in Nat
      BY DEF SessionTypes, PersistedUpTo
    <3>2. tracked' \in Playback
      <4>1. (tracked.completed \/ capture[t].completed) \in BOOLEAN
        OBVIOUS
      <4> QED
        BY <4>1 DEF SessionTypes, Playback
    <3> QED
      BY <3>1, <3>2, Empties DEF SessionTypes
  <2>3. Sections'
    <3>1. persistGate = t
      BY DEF Sections, Threads, Holding
    <3> QED
      BY <3>1, AfterCheckpointPlace, LeavingSections DEF Working, Sections
  <2>4. Phases'
    BY AfterCheckpointPlace DEF Phases, Working, Places, Threads, Goto
  <2> QED
    BY <2>1, <2>2, <2>3, <2>4
<1> QED
  BY <1>1, <1>2, <1>3, <1>4, <1>5, <1>6 DEF Checkpoint

LEMMA PlayerTyped ==
  ASSUME Typed, Play \/ \E kind \in Kinds : Emit(kind)
  PROVE  Typed'
<1> USE DEF Typed, TypeOK, playerVars, stateVars, closeVars, threadVars, historyVars
<1>1. CASE Play
  <2> USE <1>1 DEF Play
  <2>1. PlayerTypes'
    <3>1. file.pos + 1 \in Positions /\ file.ep \in Episodes
      BY TrackingAssumption DEF PlayerTypes, Positions
    <3> QED
      BY <3>1 DEF PlayerTypes
  <2>2. SessionTypes'
    BY DEF SessionTypes
  <2>3. Sections'
    BY DEF Sections, Holding
  <2>4. Phases'
    BY DEF Phases
  <2> QED
    BY <2>1, <2>2, <2>3, <2>4
<1>2. ASSUME NEW kind \in Kinds, Emit(kind) PROVE Typed'
  <2> USE <1>2 DEF Emit
  <2>1. PlayerTypes'
    <3>1. [ep |-> current, kind |-> kind, pos |-> file.pos] \in Event
      BY DEF PlayerTypes, Event
    <3>2. rawEvents' \in Seq(Event) /\ Len(rawEvents') <= EventCap
      BY <3>1, ForwardedType DEF PlayerTypes
    <3>3. (file.over \/ kind \in TerminalKinds) \in BOOLEAN
      OBVIOUS
    <3>4. \A over \in BOOLEAN :
            [file EXCEPT !.over = over] \in [ep : Episodes, pos : Positions, over : BOOLEAN]
      BY DEF PlayerTypes
    <3>5. file' \in [ep : Episodes, pos : Positions, over : BOOLEAN]
      BY <3>3, <3>4, Zenon
    <3>6. emitted' \in Nat
      BY DEF PlayerTypes
    <3> QED
      BY <3>2, <3>5, <3>6 DEF PlayerTypes
  <2>2. SessionTypes'
    BY DEF SessionTypes
  <2>3. Sections'
    BY DEF Sections, Holding
  <2>4. Phases'
    BY DEF Phases
  <2> QED
    BY <2>1, <2>2, <2>3, <2>4
<1> QED
  BY <1>1, <1>2

LEMMA RunTyped ==
  ASSUME Typed, Tick \/ Run
  PROVE  Typed'
<1> USE DEF Typed, TypeOK, playerVars, stateVars, closeVars, threadVars, historyVars,
            ObserveUnchanged, RunUnchanged
<1>1. CASE ObservePending
  <2> USE <1>1 DEF ObservePending
  <2> DEFINE event == Head(rawEvents)
  <2>0. /\ event \in Event /\ event.kind \in Kinds
        /\ rawEvents' \in Seq(Event) /\ Len(rawEvents') <= EventCap
    <3>1. /\ event \in Event
          /\ rawEvents' \in Seq(Event) /\ Len(rawEvents') <= EventCap
      BY TakenType DEF PlayerTypes
    <3> QED
      BY <3>1 DEF Event
  <2>1. PlayerTypes'
    BY <2>0 DEF PlayerTypes
  <2>2. SessionTypes'
    <3>1. /\ pending.playback \in Playback /\ pending.events \in Seq(Kinds)
          /\ Len(pending.events) <= StageCap
      BY DEF SessionTypes, ForPending
    <3>2. Applied(pending.playback, event) \in Playback
      BY <2>0, <3>1, AppliedType
    <3>3. /\ Staged(pending.events, event.kind) \in Seq(Kinds)
          /\ Len(Staged(pending.events, event.kind)) <= StageCap
      BY <2>0, <3>1, StagedType
    <3>4. (pending.checkpoint \/ event.kind \in BoundaryKinds) \in BOOLEAN
      OBVIOUS
    <3> QED
      BY <3>2, <3>3, <3>4 DEF SessionTypes
  <2>3. Sections'
    <3>1. pending' # None /\ pending # None
      BY NotNone DEF ForPending
    <3> QED
      BY <3>1 DEF Sections, Holding
  <2>4. Phases'
    BY DEF Phases
  <2> QED
    BY <2>1, <2>2, <2>3, <2>4
<1>2. CASE ObserveCurrent
  <2> USE <1>2 DEF ObserveCurrent
  <2>0. /\ Head(rawEvents) \in Event
        /\ rawEvents' \in Seq(Event) /\ Len(rawEvents') <= EventCap
    BY TakenType DEF PlayerTypes
  <2>1. PlayerTypes'
    BY <2>0 DEF PlayerTypes
  <2>2. SessionTypes'
    BY <2>0, AppliedType DEF SessionTypes
  <2>3. Sections'
    BY DEF Sections, Phases, Holding, Goto, Threads
  <2>4. Phases'
    BY DEF Phases, Working, Places, Threads, Goto
  <2> QED
    BY <2>1, <2>2, <2>3, <2>4
<1>3. CASE ObserveNothing
  <2> USE <1>3 DEF ObserveNothing
  <2>1. PlayerTypes'
    <3>1. rawEvents' \in Seq(Event) /\ Len(rawEvents') <= EventCap
      BY TakenType DEF PlayerTypes
    <3> QED
      BY <3>1 DEF PlayerTypes
  <2>2. SessionTypes'
    BY DEF SessionTypes
  <2>3. Sections'
    BY DEF Sections, Holding
  <2>4. Phases'
    BY DEF Phases
  <2> QED
    BY <2>1, <2>2, <2>3, <2>4
<1>4. CASE Tick \/ EventsClosed \/ Stopped \/ ExitRun
  <2> USE <1>4 DEF Tick, EventsClosed, Stopped, ExitRun
  <2>1. PlayerTypes'
    BY DEF PlayerTypes
  <2>2. SessionTypes'
    BY DEF SessionTypes
  <2>3. Sections'
    <3>1. {closing, stop, runDone, closeDone, closeErr, acquired, lastRun}' \subseteq BOOLEAN
      BY DEF Sections
    <3>2. /\ pc'["op"] = pc["op"] /\ pc'["close"] = pc["close"]
          /\ pc'["run"] \notin {"saving", "saved"} /\ pc["run"] \notin {"saving", "saved"}
      BY DEF Phases, Goto, Threads
    <3>3. \A t \in Threads : Holding(t)' <=> Holding(t)
      BY <3>2 DEF Holding, Threads
    <3> QED
      BY <3>1, <3>2, <3>3 DEF Sections
  <2>4. Phases'
    BY DEF Phases, Working, Places, Threads, Goto
  <2> QED
    BY <2>1, <2>2, <2>3, <2>4
<1>5. CASE Checkpoint("run")
  BY <1>5, CheckpointTyped DEF Threads
<1> QED
  BY <1>1, <1>2, <1>3, <1>4, <1>5 DEF Run

LEMMA ResumePositionType ==
  ASSUME SessionTypes, NEW e \in Episodes
  PROVE  {0, ResumePosition(e)} \subseteq Positions
<1>1. 0 \in Positions
  BY TrackingAssumption DEF Positions
<1> QED
  BY <1>1 DEF ResumePosition, SessionTypes, Entry

LEMMA ResolvedType ==
  ASSUME NEW o \in [kind : {"none", "switch", "snapshot"}, phase : 0..3,
                    target : Episodes, start : Positions],
         NEW start \in Positions
  PROVE  [o EXCEPT !.phase = 2, !.start = start] \in
           [kind : {"none", "switch", "snapshot"}, phase : 0..3,
            target : Episodes, start : Positions]
<1> DEFINE R == [kind : {"none", "switch", "snapshot"}, phase : 0..3,
                 target : Episodes, start : Positions]
           p == [o EXCEPT !.phase = 2]
<1>1. p \in R
  OBVIOUS
<1>2. \A q \in R : [q EXCEPT !.start = start] \in R
  OBVIOUS
<1>3. [o EXCEPT !.phase = 2, !.start = start] = [p EXCEPT !.start = start]
  OBVIOUS
<1> HIDE DEF p
<1> QED
  BY <1>1, <1>2, <1>3, Zenon

LEMMA OperationTyped ==
  ASSUME Typed,
         \/ \E e \in Episodes : BeginOp("switch", e)
         \/ BeginOp("snapshot", First)
         \/ Operation
  PROVE  Typed'
<1> USE DEF Typed, TypeOK, playerVars, stateVars, closeVars, threadVars, historyVars,
            OpUnchanged
<1>1. ASSUME NEW kind \in {"switch", "snapshot"}, NEW target \in Episodes,
             BeginOp(kind, target)
      PROVE  Typed'
  <2> USE <1>1 DEF BeginOp
  <2>1. PlayerTypes'
    BY DEF PlayerTypes
  <2>2. SessionTypes'
    <3>1. 0 \in Positions
      BY TrackingAssumption DEF Positions
    <3> QED
      BY <3>1 DEF SessionTypes
  <2>3. Sections'
    BY DEF Sections, Phases, Holding, Goto, Threads
  <2>4. Phases'
    BY DEF Phases, Working, Places, Threads, Goto
  <2> QED
    BY <2>1, <2>2, <2>3, <2>4
<1>2. CASE Resolve
  <2> USE <1>2 DEF Resolve, CheckpointAgain
  <2>1. PlayerTypes'
    BY DEF PlayerTypes
  <2>2. SessionTypes'
    <3>1. PICK start \in {0, ResumePosition(op.target)} :
                 op' = [op EXCEPT !.phase = 2, !.start = start]
      OBVIOUS
    <3>2. start \in Positions
      BY <3>1, ResumePositionType DEF SessionTypes
    <3>3. op' \in [kind : {"none", "switch", "snapshot"}, phase : 0..3, target : Episodes,
                   start : Positions]
      BY <3>1, <3>2, ResolvedType, Zenon DEF SessionTypes
    <3>4. seen' \in Nat
      BY DEF SessionTypes
    <3> QED
      BY <3>3, <3>4 DEF SessionTypes
  <2>3. Sections'
    BY DEF Sections, Phases, Holding, Goto, Threads
  <2>4. Phases'
    <3>1. op'.phase = 2
      BY DEF SessionTypes
    <3> QED
      BY <3>1 DEF Phases, Working, Places, Threads, Goto
  <2> QED
    BY <2>1, <2>2, <2>3, <2>4
<1>3. CASE ResolveFails
  <2> USE <1>3 DEF ResolveFails
  <2>1. PlayerTypes'
    BY DEF PlayerTypes
  <2>2. SessionTypes'
    BY DEF SessionTypes
  <2>3. Sections'
    BY DEF Sections, Phases, Holding, Goto, Threads
  <2>4. Phases'
    BY DEF Phases, Working, Places, Threads, Goto
  <2> QED
    BY <2>1, <2>2, <2>3, <2>4
<1>4. CASE BeginPending
  <2> USE <1>4 DEF BeginPending
  <2>1. PlayerTypes'
    <3>1. loading \in BOOLEAN /\ loads \in Nat
      BY DEF PlayerTypes
    <3>2. CASE rawClosed
      BY <3>1, <3>2 DEF PlayerTypes
    <3>3. CASE ~rawClosed
      BY <3>1, <3>3 DEF PlayerTypes
    <3> QED
      BY <3>2, <3>3
  <2>2. SessionTypes'
    <3>1. NewPlayback(op.target, op.start, tracked.owner + 1) \in Playback
      BY DEF SessionTypes, NewPlayback, Playback
    <3>2. /\ <<>> \in Seq(Kinds) /\ Len(<<>>) <= StageCap
      BY TrackingAssumption
    <3> QED
      BY <3>1, <3>2 DEF SessionTypes
  <2>3. Sections'
    <3>1. pending' # None
      BY NotNone
    <3> QED
      BY <3>1 DEF Sections, Phases, Holding, Goto, Threads
  <2>4. Phases'
    BY DEF Phases, Working, Places, Threads, Goto
  <2> QED
    BY <2>1, <2>2, <2>3, <2>4
<1>5. CASE EngineReplaces
  <2> USE <1>5 DEF EngineReplaces
  <2>1. PlayerTypes'
    <3>1. op.target \in Episodes /\ op.start \in Positions
      BY DEF SessionTypes
    <3> QED
      BY <3>1 DEF PlayerTypes
  <2>2. SessionTypes'
    BY DEF SessionTypes
  <2>3. Sections'
    BY DEF Sections, Phases, Holding, Goto, Threads
  <2>4. Phases'
    BY DEF Phases, Working, Places, Threads, Goto
  <2> QED
    BY <2>1, <2>2, <2>3, <2>4
<1>6. CASE LoadSucceeds
  <2> USE <1>6 DEF LoadSucceeds
  <2>1. PlayerTypes'
    BY DEF PlayerTypes, SessionTypes
  <2>2. SessionTypes'
    BY DEF SessionTypes
  <2>3. Sections'
    BY DEF Sections, Phases, Holding, Goto, Threads
  <2>4. Phases'
    BY DEF Phases, Working, Places, Threads, Goto
  <2> QED
    BY <2>1, <2>2, <2>3, <2>4
<1>7. CASE LoadFails
  <2> USE <1>7 DEF LoadFails
  <2>1. PlayerTypes'
    <3>1. (deaf \/ replaced) \in BOOLEAN
      OBVIOUS
    <3> QED
      BY <3>1 DEF PlayerTypes
  <2>2. SessionTypes'
    BY DEF SessionTypes
  <2>3. Sections'
    BY DEF Sections, Phases, Holding, Goto, Threads
  <2>4. Phases'
    BY DEF Phases, Working, Places, Threads, Goto
  <2> QED
    BY <2>1, <2>2, <2>3, <2>4
<1>8. CASE Discard
  <2> USE <1>8 DEF Discard
  <2>1. PlayerTypes'
    BY DEF PlayerTypes
  <2>2. SessionTypes'
    BY DEF SessionTypes
  <2>3. Sections'
    BY DEF Sections, Phases, Holding, Goto, Threads
  <2>4. Phases'
    BY DEF Phases, Working, Places, Threads, Goto
  <2> QED
    BY <2>1, <2>2, <2>3, <2>4
<1>9. CASE Commit
  <2> USE <1>9 DEF Commit, CommittedGeneration
  <2>1. PlayerTypes'
    BY DEF PlayerTypes
  <2>2. SessionTypes'
    <3>1. pending # None
      BY DEF Sections
    <3>2. tracked' \in Playback /\ generation' \in Nat
      BY <3>1 DEF SessionTypes
    <3>3. op' \in [kind : {"none", "switch", "snapshot"}, phase : 0..3, target : Episodes,
                   start : Positions]
      <4>1. [op EXCEPT !.phase = 3] \in [kind : {"none", "switch", "snapshot"},
                  phase : 0..3, target : Episodes, start : Positions]
        BY DEF SessionTypes
      <4> QED
        BY <4>1 DEF SessionTypes
    <3> QED
      BY <3>2, <3>3 DEF SessionTypes
  <2>3. Sections'
    BY DEF Sections, Phases, Holding, Goto, Threads
  <2>4. Phases'
    <3>1. pc'["op"] = "end" \/ op'.phase = 3
      BY DEF SessionTypes, Phases, Threads, Goto
    <3> QED
      BY <3>1 DEF Phases, Working, Places, Threads, Goto
  <2> QED
    BY <2>1, <2>2, <2>3, <2>4
<1>10. CASE EndOp
  <2> USE <1>10 DEF EndOp
  <2>1. PlayerTypes'
    BY DEF PlayerTypes
  <2>2. SessionTypes'
    BY Empties DEF SessionTypes
  <2>3. Sections'
    BY DEF Sections, Phases, Holding, Goto, Threads
  <2>4. Phases'
    BY DEF Sections, Phases, Working, Places, Threads, Goto
  <2> QED
    BY <2>1, <2>2, <2>3, <2>4
<1>11. CASE Refresh("op") \/ Checkpoint("op")
  BY <1>11, RefreshTyped, CheckpointTyped DEF Threads
<1> QED
  BY TrackingAssumption, <1>1, <1>2, <1>3, <1>4, <1>5, <1>6, <1>7, <1>8, <1>9, <1>10,
     <1>11 DEF Operation

LEMMA CloseTyped ==
  ASSUME Typed, BeginClose \/ Close
  PROVE  Typed'
<1> USE DEF Typed, TypeOK, playerVars, stateVars, closeVars, threadVars, historyVars,
            CloseUnchanged
<1>1. CASE BeginClose
  <2> USE <1>1 DEF BeginClose
  <2>1. PlayerTypes'
    BY DEF PlayerTypes
  <2>2. SessionTypes'
    BY DEF SessionTypes
  <2>3. Sections'
    <3>1. {closing, stop, runDone, closeDone, closeErr, acquired, lastRun}' \subseteq BOOLEAN
      BY DEF Sections
    <3>2. /\ pc'["op"] = pc["op"] /\ pc'["run"] = pc["run"]
          /\ pc'["close"] \notin {"saving", "saved"} /\ pc["close"] \notin {"saving", "saved"}
      BY DEF Phases, Goto, Threads
    <3>3. \A t \in Threads : Holding(t)' <=> Holding(t)
      BY <3>2 DEF Holding, Threads
    <3> QED
      BY <3>1, <3>2, <3>3 DEF Sections, Phases
  <2>4. Phases'
    BY DEF Phases, Working, Places, Threads, Goto
  <2> QED
    BY <2>1, <2>2, <2>3, <2>4
<1>2. CASE StopRun
  <2> USE <1>2 DEF StopRun
  <2>1. PlayerTypes'
    BY DEF PlayerTypes
  <2>2. SessionTypes'
    BY DEF SessionTypes
  <2>3. Sections'
    <3>1. {closing, stop, runDone, closeDone, closeErr, acquired, lastRun}' \subseteq BOOLEAN
      BY DEF Sections
    <3>2. /\ pc'["op"] = pc["op"] /\ pc'["run"] = pc["run"]
          /\ pc'["close"] \notin {"saving", "saved"} /\ pc["close"] \notin {"saving", "saved"}
      BY DEF Phases, Goto, Threads
    <3>3. \A t \in Threads : Holding(t)' <=> Holding(t)
      BY <3>2 DEF Holding, Threads
    <3> QED
      BY <3>1, <3>2, <3>3 DEF Sections, Phases
  <2>4. Phases'
    BY DEF Phases, Working, Places, Threads, Goto
  <2> QED
    BY <2>1, <2>2, <2>3, <2>4
<1>3. CASE Acquire
  <2> USE <1>3 DEF Acquire
  <2>1. PlayerTypes'
    BY DEF PlayerTypes
  <2>2. SessionTypes'
    BY DEF SessionTypes
  <2>3. Sections'
    <3>1. {closing, stop, runDone, closeDone, closeErr, acquired, lastRun}' \subseteq BOOLEAN
      BY DEF Sections
    <3>2. /\ pc'["op"] = pc["op"] /\ pc'["run"] = pc["run"]
          /\ pc'["close"] \notin {"saving", "saved"} /\ pc["close"] \notin {"saving", "saved"}
      BY DEF Phases, Goto, Threads
    <3>3. \A t \in Threads : Holding(t)' <=> Holding(t)
      BY <3>2 DEF Holding, Threads
    <3> QED
      BY <3>1, <3>2, <3>3 DEF Sections, Phases
  <2>4. Phases'
    BY DEF Phases, Working, Places, Threads, Goto
  <2> QED
    BY <2>1, <2>2, <2>3, <2>4
<1>4. CASE AcquireTimesOut
  <2> USE <1>4 DEF AcquireTimesOut
  <2>1. PlayerTypes'
    BY DEF PlayerTypes
  <2>2. SessionTypes'
    BY DEF SessionTypes
  <2>3. Sections'
    <3>1. {closing, stop, runDone, closeDone, closeErr, acquired, lastRun}' \subseteq BOOLEAN
      BY DEF Sections
    <3>2. /\ pc'["op"] = pc["op"] /\ pc'["run"] = pc["run"]
          /\ pc'["close"] \notin {"saving", "saved"} /\ pc["close"] \notin {"saving", "saved"}
      BY DEF Phases, Goto, Threads
    <3>3. \A t \in Threads : Holding(t)' <=> Holding(t)
      BY <3>2 DEF Holding, Threads
    <3> QED
      BY <3>1, <3>2, <3>3 DEF Sections, Phases
  <2>4. Phases'
    BY DEF Phases, Working, Places, Threads, Goto
  <2> QED
    BY <2>1, <2>2, <2>3, <2>4
<1>5. CASE Release
  <2> USE <1>5 DEF Release
  <2>1. PlayerTypes'
    BY DEF PlayerTypes
  <2>2. SessionTypes'
    BY DEF SessionTypes
  <2>3. Sections'
    <3>1. {closing, stop, runDone, closeDone, closeErr, acquired, lastRun}' \subseteq BOOLEAN
      BY DEF Sections
    <3>2. /\ pc'["op"] = pc["op"] /\ pc'["run"] = pc["run"]
          /\ pc'["close"] \notin {"saving", "saved"} /\ pc["close"] \notin {"saving", "saved"}
      BY DEF Phases, Goto, Threads
    <3>3. \A t \in Threads : Holding(t)' <=> Holding(t)
      BY <3>2 DEF Holding, Threads
    <3> QED
      BY <3>1, <3>2, <3>3 DEF Sections, Phases
  <2>4. Phases'
    BY DEF Phases, Working, Places, Threads, Goto
  <2> QED
    BY <2>1, <2>2, <2>3, <2>4
<1>6. CASE RawClose
  <2> USE <1>6 DEF RawClose
  <2>1. PlayerTypes'
    BY DEF PlayerTypes
  <2>2. SessionTypes'
    BY DEF SessionTypes
  <2>3. Sections'
    <3>1. {closing, stop, runDone, closeDone, closeErr, acquired, lastRun}' \subseteq BOOLEAN
      BY DEF Sections
    <3>2. /\ pc'["op"] = pc["op"] /\ pc'["run"] = pc["run"]
          /\ pc'["close"] \notin {"saving", "saved"} /\ pc["close"] \notin {"saving", "saved"}
      BY DEF Phases, Goto, Threads
    <3>3. \A t \in Threads : Holding(t)' <=> Holding(t)
      BY <3>2 DEF Holding, Threads
    <3> QED
      BY <3>1, <3>2, <3>3 DEF Sections, Phases
  <2>4. Phases'
    BY DEF Phases, Working, Places, Threads, Goto
  <2> QED
    BY <2>1, <2>2, <2>3, <2>4
<1>7. CASE Join
  <2> USE <1>7 DEF Join
  <2>1. PlayerTypes'
    BY DEF PlayerTypes
  <2>2. SessionTypes'
    BY DEF SessionTypes
  <2>3. Sections'
    <3>1. {closing, stop, runDone, closeDone, closeErr, acquired, lastRun}' \subseteq BOOLEAN
      BY DEF Sections
    <3>2. /\ pc'["op"] = pc["op"] /\ pc'["run"] = pc["run"]
          /\ pc'["close"] \notin {"saving", "saved"} /\ pc["close"] \notin {"saving", "saved"}
      BY DEF Phases, Goto, Threads
    <3>3. \A t \in Threads : Holding(t)' <=> Holding(t)
      BY <3>2 DEF Holding, Threads
    <3> QED
      BY <3>1, <3>2, <3>3 DEF Sections, Phases
  <2>4. Phases'
    BY DEF Phases, Working, Places, Threads, Goto
  <2> QED
    BY <2>1, <2>2, <2>3, <2>4
<1>8. CASE Refresh("close") \/ Checkpoint("close")
  BY <1>8, RefreshTyped, CheckpointTyped DEF Threads
<1> QED
  BY <1>1, <1>2, <1>3, <1>4, <1>5, <1>6, <1>7, <1>8 DEF Close

LEMMA NextTyped == Typed /\ [Next]_vars => Typed'
<1> SUFFICES ASSUME Typed, [Next]_vars PROVE Typed'
  OBVIOUS
<1>1. CASE UNCHANGED vars
  BY <1>1 DEF vars, playerVars, stateVars, closeVars, threadVars, historyVars, Typed,
     TypeOK, PlayerTypes, SessionTypes, Sections, Phases, Holding
<1> QED
  BY <1>1, PlayerTyped, OperationTyped, RunTyped, CloseTyped DEF Next

\* Whatever the window, the ticker, the player and the store do, the session's gates
\* and its pending load belong to the thread that works with them.
THEOREM TypeCorrect == Spec => []TypeOK
<1>1. Typed => TypeOK
  BY DEF Typed
<1> QED
  BY <1>1, InitTyped, NextTyped, PTL DEF Spec

-----------------------------------------------------------------------------
(* Saving.                                                                 *)

\* What a thread is writing is newer than what is saved, and no newer than what is
\* tracked.
Newer(t) == persisted < capture[t].gen /\ capture[t].gen <= generation

\* What a thread captured is still what is tracked.
UpToDate(t) ==
  /\ capture[t].ep = tracked.ep /\ capture[t].pos = tracked.pos
  /\ tracked.completed => capture[t].completed

\* The store has what a thread captured.
Stored(t) ==
  /\ store[capture[t].ep].pos = capture[t].pos
  /\ capture[t].completed => store[capture[t].ep].completed

Counters ==
  /\ persisted <= generation /\ seen <= generation
  /\ \A t \in Threads : Holding(t) => Newer(t)

Written ==
  \A t \in Threads : Holding(t) =>
    /\ capture[t].gen = generation => UpToDate(t)
    /\ pc[t] = "saved" => Stored(t)

\* The checkpoint of an operation that resolved its request covers what was recorded
\* by then.
Covered ==
  /\ pc["op"] \in {"begin", "loading", "commit"} => persisted >= seen
  /\ Holding("op") /\ op.phase = 2 => capture["op"].gen >= seen

IInv == Typed /\ Counters /\ Written /\ CleanMeansSaved /\ Covered

LEMMA Numbers ==
  ASSUME Typed
  PROVE  /\ generation \in Nat /\ persisted \in Nat /\ seen \in Nat
         /\ \A t \in Threads : capture[t].gen \in Nat
  BY DEF Typed, TypeOK, SessionTypes

LEMMA OneWriter ==
  ASSUME Typed, NEW t \in Threads, Holding(t), NEW u \in Threads, Holding(u)
  PROVE  u = t
  BY DEF Typed, TypeOK, Sections

LEMMA InitIInv == Init => IInv
<1> SUFFICES ASSUME Init PROVE IInv
  OBVIOUS
<1> USE DEF Init
<1>1. \A t \in Threads : ~Holding(t)
  BY DEF Threads, Holding
<1>2. Counters
  BY <1>1 DEF Counters
<1>3. Written
  BY <1>1 DEF Written
<1>4. CleanMeansSaved
  BY DEF CleanMeansSaved
<1>5. Covered
  BY <1>1 DEF Covered, Threads
<1> QED
  BY InitTyped, <1>2, <1>3, <1>4, <1>5 DEF IInv

\* A step that neither records nor saves.
LEMMA QuietStep ==
  ASSUME IInv, UNCHANGED <<tracked, generation, persisted, store, capture>>,
         seen' \in {seen, 0, generation},
         \A t \in Threads : pc'[t] \in {"saving", "saved"} => pc'[t] = pc[t]
  PROVE  Counters' /\ Written' /\ CleanMeansSaved'
<1> USE DEF IInv
<1>1. \A t \in Threads : Holding(t)' => Holding(t) /\ pc'[t] = pc[t]
  BY DEF Holding
<1>2. Counters'
  BY <1>1, Numbers DEF Counters, Newer
<1>3. Written'
  BY <1>1 DEF Written, UpToDate, Stored
<1>4. CleanMeansSaved'
  BY DEF CleanMeansSaved
<1> QED
  BY <1>2, <1>3, <1>4

\* A step that records a change: what is being written is out of date.
LEMMA RecordingStep ==
  ASSUME IInv, UNCHANGED <<persisted, store, capture, seen>>, generation' = generation + 1,
         \A t \in Threads : pc'[t] \in {"saving", "saved"} => pc'[t] = pc[t]
  PROVE  Counters' /\ Written' /\ CleanMeansSaved'
<1> USE DEF IInv
<1>1. \A t \in Threads : Holding(t)' => Holding(t) /\ pc'[t] = pc[t]
  BY DEF Holding
<1>2. Counters'
  BY <1>1, Numbers DEF Counters, Newer
<1>3. \A t \in Threads : Holding(t) => capture'[t].gen # generation'
  BY Numbers DEF Counters, Newer
<1>4. Written'
  BY <1>1, <1>3 DEF Written, Stored
<1>5. generation' # persisted'
  BY Numbers DEF Counters
<1>6. CleanMeansSaved'
  BY <1>5 DEF CleanMeansSaved
<1> QED
  BY <1>2, <1>4, <1>6

\* A step of another thread than op.
LEMMA OthersCover ==
  ASSUME IInv, pc'["op"] = pc["op"], capture'["op"] = capture["op"], UNCHANGED <<op, seen>>,
         persisted' \in Nat, persisted' >= persisted
  PROVE  Covered'
  BY Numbers DEF IInv, Covered, Holding, Threads

LEMMA RefreshIInv ==
  ASSUME IInv, NEW t \in {"op", "close"}, Refresh(t)
  PROVE  IInv'
<1> USE DEF stateVars, threadVars, historyVars, Goto
<1>1. Typed /\ Typed'
  BY RefreshTyped DEF IInv
<1>2. /\ \A u \in Threads : pc'[u] \in {"saving", "saved"} => pc'[u] = pc[u]
      /\ pc["op"] = "idle" => pc'["op"] = "idle"
      /\ pc'["op"] \notin {"begin", "loading", "commit"} \/ pc'["op"] = pc["op"]
      /\ Holding("op")' => Holding("op")
  BY <1>1 DEF Refresh, SkipRefresh, ReadSnapshot, SnapshotFails, UseSnapshot, AfterRefresh,
     RefreshFailed, Typed, Phases, Threads, Holding
<1>3. UNCHANGED <<persisted, store, capture, seen, op>>
  BY DEF Refresh, SkipRefresh, ReadSnapshot, SnapshotFails, UseSnapshot
<1>4. Covered'
  BY <1>2, <1>3 DEF IInv, Covered
<1>5. \/ UNCHANGED <<tracked, generation>>
      \/ generation' = generation + 1
  BY DEF Refresh, SkipRefresh, ReadSnapshot, SnapshotFails, UseSnapshot
<1>6. Counters' /\ Written' /\ CleanMeansSaved'
  BY <1>2, <1>3, <1>5, QuietStep, RecordingStep
<1> QED
  BY <1>1, <1>4, <1>6 DEF IInv

\* Where a checkpoint leaves op, and with what saved.
LEMMA LeavingCovers ==
  ASSUME Typed, Typed', Covered, NEW t \in Threads, pc[t] \in Working,
         Goto(t, AfterCheckpoint(t)), UNCHANGED <<op, seen>>,
         \A u \in Threads \ {t} : capture'[u] = capture[u],
         persisted' >= persisted,
         t = "op" /\ op.phase = 2 => persisted' >= seen
  PROVE  Covered'
<1>1. CASE t = "op"
  <2>1. pc'["op"] = AfterCheckpoint("op")
    BY <1>1 DEF Typed, Phases, Goto
  <2>2. AfterCheckpoint("op") = "begin" => op.phase = 2
    BY <1>1 DEF AfterCheckpoint, Typed, Phases
  <2>3. AfterCheckpoint("op") \in {"resolve", "begin", "end"}
    BY <1>1, AfterCheckpointPlace
  <2> QED
    BY <1>1, <2>1, <2>2, <2>3 DEF Covered, Holding
<1>2. CASE t # "op"
  <2>1. pc'["op"] = pc["op"] /\ capture'["op"] = capture["op"]
    BY <1>2 DEF Typed, Phases, Goto, Threads
  <2> QED
    <3>1. persisted' \in Nat /\ persisted \in Nat /\ seen \in Nat
      BY Numbers DEF Typed, TypeOK, SessionTypes
    <3> QED
      BY <1>2, <2>1, <3>1 DEF Covered, Holding
<1> QED
  BY <1>1, <1>2

LEMMA CheckpointIInv ==
  ASSUME IInv, NEW t \in Threads, Checkpoint(t)
  PROVE  IInv'
<1> USE DEF stateVars, threadVars, historyVars
<1>0. Typed /\ Typed'
  BY CheckpointTyped DEF IInv
<1>1. CASE CheckpointClean(t)
  <2> USE <1>1 DEF CheckpointClean
  <2>1. \A u \in Threads : pc'[u] \in {"saving", "saved"} => pc'[u] = pc[u]
    BY <1>0, AfterCheckpointPlace DEF Typed, Phases, Goto, Working, Threads
  <2>2. Counters' /\ Written' /\ CleanMeansSaved'
    BY <2>1, QuietStep
  <2>3. persisted >= seen
    BY <1>0, Numbers DEF IInv, Counters
  <2>4. Covered'
    BY <1>0, <2>3, Numbers, LeavingCovers DEF IInv, Working
  <2> QED
    BY <1>0, <2>2, <2>4 DEF IInv
<1>2. CASE Capture(t)
  <2> USE <1>2 DEF Capture
  <2>1. \A u \in Threads : ~Holding(u)
    BY <1>0 DEF Typed, TypeOK, Sections, GateIsFree, Threads
  <2>2. /\ \A u \in Threads : Holding(u)' => u = t
        /\ pc'[t] = "saving"
        /\ pc'["op"] \in {"begin", "loading", "commit"} => pc["op"] = pc'["op"]
    BY <1>0, <2>1 DEF Holding, Goto, Typed, Phases, Threads
  <2>3. /\ capture'[t] = Captured
        /\ Captured.gen = generation /\ Captured.ep = tracked.ep
        /\ Captured.pos = tracked.pos
        /\ tracked.completed => Captured.completed
    BY <1>0 DEF Captured, Typed, TypeOK, SessionTypes
  <2>4. Counters'
    BY <1>0, <2>2, <2>3, Numbers DEF IInv, Counters, Newer
  <2>5. Written'
    BY <2>2, <2>3 DEF Written, UpToDate
  <2>6. CleanMeansSaved'
    BY DEF IInv, CleanMeansSaved
  <2>7. Covered'
    <3>1. Holding("op")' => capture'["op"].gen >= seen
      BY <2>2, <2>3, Numbers, <1>0 DEF IInv, Counters, Threads
    <3> QED
      BY <2>2, <3>1 DEF IInv, Covered
  <2> QED
    BY <1>0, <2>4, <2>5, <2>6, <2>7 DEF IInv
<1>3. CASE CheckpointCancelled(t) \/ SaveFails(t)
  <2> DEFINE after == IF t = "op" THEN "end" ELSE AfterCheckpoint(t)
  <2>1. /\ pc[t] \in Working /\ Goto(t, after)
        /\ UNCHANGED <<tracked, generation, persisted, store, op, seen>>
        /\ \A u \in Threads \ {t} : capture'[u] = capture[u]
    BY <1>0, <1>3 DEF CheckpointCancelled, SaveFails, CheckpointFailed, Working, Typed,
       TypeOK, SessionTypes
  <2>2. pc'[t] \notin {"saving", "saved", "begin", "loading", "commit"}
    BY <1>0, <2>1, AfterCheckpointPlace DEF Typed, Phases, Goto, Threads
  <2>3. \A u \in Threads \ {t} : pc'[u] = pc[u]
    BY <1>0, <2>1 DEF Typed, Phases, Goto
  <2>4. \A u \in Threads : Holding(u)' => Holding(u) /\ pc'[u] = pc[u]
                                        /\ capture'[u] = capture[u]
    BY <2>1, <2>2, <2>3 DEF Holding
  <2>5. Counters'
    BY <2>1, <2>4 DEF IInv, Counters, Newer
  <2>6. Written'
    BY <2>1, <2>4 DEF IInv, Written, UpToDate, Stored
  <2>7. CleanMeansSaved'
    BY <2>1 DEF IInv, CleanMeansSaved
  <2>8. Covered'
    BY <2>1, <2>2, <2>3, <2>4 DEF IInv, Covered, Threads
  <2> QED
    BY <1>0, <2>5, <2>6, <2>7, <2>8 DEF IInv
<1>4. CASE Save(t)
  <2> USE <1>4 DEF Save
  <2>1. \A u \in Threads : Holding(u)' => u = t
    BY <1>0, OneWriter DEF Holding, Goto, Typed, Phases
  <2>2. Holding(t) /\ pc'[t] = "saved"
    BY <1>0 DEF Holding, Goto, Typed, Phases
  <2>3. Stored(t)'
    <3> DEFINE c == capture[t]
    <3>1. c.ep \in Episodes /\ store \in [Episodes -> Entry]
      BY <1>0 DEF Typed, TypeOK, SessionTypes
    <3>2. store'[c.ep] = [pos |-> c.pos, of |-> c.of,
                          completed |-> store[c.ep].completed \/ c.completed]
      BY <3>1
    <3>3. /\ store'[c.ep].pos = c.pos
          /\ store'[c.ep].completed = (store[c.ep].completed \/ c.completed)
      <4> HIDE <1>4 DEF Save, c
      <4> QED
        BY <3>2
    <3> HIDE <1>4
    <3>4. capture' = capture
      BY <1>4
    <3> QED
      BY <3>3, <3>4, Zenon DEF Stored
  <2>4. Newer(t) /\ (capture[t].gen = generation => UpToDate(t))
    BY <2>2 DEF IInv, Counters, Written
  <2>5. Counters'
    BY <2>1, <2>4 DEF IInv, Counters, Newer
  <2>6. Written'
    BY <2>1, <2>3, <2>4 DEF Written, UpToDate
  <2>7. CleanMeansSaved'
    BY <1>0, <2>4, Numbers DEF Newer, CleanMeansSaved
  <2>8. Covered'
    BY <1>0, <2>2 DEF IInv, Covered, Holding, Goto, Typed, Phases, Threads
  <2> QED
    BY <1>0, <2>5, <2>6, <2>7, <2>8 DEF IInv
<1>5. CASE Saved(t)
  <2> USE <1>5 DEF Saved
  <2>1. /\ Holding(t)
        /\ Newer(t) /\ (capture[t].gen = generation => UpToDate(t)) /\ Stored(t)
    BY DEF IInv, Counters, Written, Holding
  <2>2. persisted' = capture[t].gen
    BY <1>0, <2>1, Numbers DEF Newer, PersistedUpTo
  <2>3. \A u \in Threads : ~Holding(u)'
    BY <1>0, <2>1, OneWriter, AfterCheckpointPlace
    DEF Holding, Goto, Typed, Phases, Working, Threads
  <2>4. Counters'
    BY <1>0, <2>1, <2>2, <2>3, Numbers DEF IInv, Counters, Newer
  <2>5. Written'
    BY <2>3 DEF Written
  <2>6. CleanMeansSaved'
    <3>1. /\ tracked'.ep = tracked.ep /\ tracked'.pos = tracked.pos
          /\ tracked'.completed <=> tracked.completed \/ capture[t].completed
      BY <1>0 DEF Typed, TypeOK, SessionTypes, Playback
    <3> QED
      BY <2>1, <2>2, <3>1 DEF CleanMeansSaved, UpToDate, Stored
  <2>7. t = "op" /\ op.phase = 2 => persisted' >= seen
    BY <2>1, <2>2 DEF IInv, Covered
  <2>8. Covered'
    BY <1>0, <2>1, <2>2, <2>7, Numbers, LeavingCovers
    DEF IInv, Newer, Working, Typed, TypeOK, SessionTypes
  <2> QED
    BY <1>0, <2>4, <2>5, <2>6, <2>8 DEF IInv
<1> QED
  BY <1>1, <1>2, <1>3, <1>4, <1>5 DEF Checkpoint

LEMMA PlayerIInv ==
  ASSUME IInv, Play \/ \E kind \in Kinds : Emit(kind)
  PROVE  IInv'
<1>1. Typed /\ Typed'
  BY PlayerTyped DEF IInv
<1>2. UNCHANGED <<tracked, generation, persisted, store, capture, seen, pc, op>>
  BY DEF Play, Emit, stateVars, threadVars, historyVars
<1>3. Counters' /\ Written' /\ CleanMeansSaved'
  BY <1>2, QuietStep
<1>4. Covered'
  BY <1>1, <1>2, Numbers, OthersCover
<1> QED
  BY <1>1, <1>3, <1>4 DEF IInv

LEMMA OperationIInv ==
  ASSUME IInv,
         \/ \E e \in Episodes : BeginOp("switch", e)
         \/ BeginOp("snapshot", First)
         \/ Operation
  PROVE  IInv'
<1> USE DEF OpUnchanged, stateVars, historyVars
<1>1. Typed /\ Typed'
  BY OperationTyped DEF IInv
<1>2. CASE Refresh("op") \/ Checkpoint("op")
  BY <1>2, RefreshIInv, CheckpointIInv DEF Threads
<1>3. CASE Commit
  <2> USE <1>3 DEF Commit
  <2>1. /\ pc'["op"] \in {"checkpoint", "end"}
        /\ \A t \in Threads \ {"op"} : pc'[t] = pc[t]
    <3>1. Goto("op", "checkpoint") \/ Goto("op", "end")
      BY Zenon
    <3> HIDE <1>3
    <3> QED
      BY <1>1, <3>1 DEF Goto, Typed, Phases, Threads
  <2>2. UNCHANGED <<persisted, store, capture, seen>> /\ generation' = generation + 1
    BY DEF CommittedGeneration
  <2>3. Counters' /\ Written' /\ CleanMeansSaved'
    BY <2>1, <2>2, RecordingStep
  <2>4. Covered'
    BY <2>1 DEF Covered, Holding
  <2> QED
    BY <1>1, <2>3, <2>4 DEF IInv
<1>4. CASE \/ \E e \in Episodes : BeginOp("switch", e)
           \/ BeginOp("snapshot", First)
           \/ Resolve \/ ResolveFails \/ BeginPending \/ EngineReplaces
           \/ LoadSucceeds \/ LoadFails \/ Discard \/ EndOp
  <2> USE <1>4 DEF BeginOp, Resolve, CheckpointAgain, ResolveFails, BeginPending,
                   EngineReplaces, LoadSucceeds, LoadFails, Discard, EndOp
  <2>1. UNCHANGED <<tracked, generation, persisted, store, capture>>
    OBVIOUS
  <2>2. seen' \in {seen, 0, generation}
    OBVIOUS
  <2>3. /\ pc'["op"] \notin {"saving", "saved"}
        /\ \A t \in Threads \ {"op"} : pc'[t] = pc[t]
    BY <1>1 DEF Goto, Typed, Phases, Threads
  <2>4. pc'["op"] \in {"begin", "loading", "commit"} =>
          pc["op"] \in {"begin", "loading", "commit"} /\ seen' = seen
    BY <1>1 DEF Goto, Typed, Phases, Threads
  <2>5. Counters' /\ Written' /\ CleanMeansSaved'
    BY <2>1, <2>2, <2>3, QuietStep
  <2>6. Covered'
    BY <2>1, <2>3, <2>4 DEF IInv, Covered, Holding
  <2> QED
    BY <1>1, <2>5, <2>6 DEF IInv
<1> QED
  BY <1>2, <1>3, <1>4 DEF Operation

LEMMA RunIInv ==
  ASSUME IInv, Tick \/ Run
  PROVE  IInv'
<1> USE DEF ObserveUnchanged, RunUnchanged, stateVars, threadVars, historyVars
<1>1. Typed /\ Typed'
  BY RunTyped DEF IInv
<1>2. CASE Checkpoint("run")
  BY <1>2, CheckpointIInv DEF Threads
<1>3. CASE ObserveCurrent
  <2> USE <1>3 DEF ObserveCurrent
  <2>1. /\ pc'["run"] \in {"checkpoint", "idle"}
        /\ \A t \in Threads \ {"run"} : pc'[t] = pc[t]
    BY <1>1 DEF Goto, Typed, Phases
  <2>2. /\ UNCHANGED <<persisted, store, capture, seen, op>>
        /\ generation' = generation + 1
    OBVIOUS
  <2>3. Counters' /\ Written' /\ CleanMeansSaved'
    BY <2>1, <2>2, RecordingStep
  <2>4. Covered'
    BY <1>1, <2>1, <2>2, Numbers, OthersCover DEF Threads
  <2> QED
    BY <1>1, <2>3, <2>4 DEF IInv
<1>4. CASE \/ ObservePending \/ ObserveNothing \/ Tick \/ EventsClosed
           \/ Stopped \/ ExitRun
  <2> USE <1>4 DEF ObservePending, ObserveNothing, Tick, EventsClosed, Stopped, ExitRun
  <2>1. UNCHANGED <<tracked, generation, persisted, store, capture, seen, op>>
    OBVIOUS
  <2>2. /\ pc'["run"] \notin {"saving", "saved"}
        /\ \A t \in Threads \ {"run"} : pc'[t] = pc[t]
    BY <1>1 DEF Goto, Typed, Phases, Threads
  <2>3. Counters' /\ Written' /\ CleanMeansSaved'
    BY <2>1, <2>2, QuietStep
  <2>4. Covered'
    BY <1>1, <2>1, <2>2, Numbers, OthersCover DEF Threads
  <2> QED
    BY <1>1, <2>3, <2>4 DEF IInv
<1> QED
  BY <1>2, <1>3, <1>4 DEF Run

LEMMA CloseIInv ==
  ASSUME IInv, BeginClose \/ Close
  PROVE  IInv'
<1>1. Typed /\ Typed'
  BY CloseTyped DEF IInv
<1>2. CASE Refresh("close") \/ Checkpoint("close")
  BY <1>2, RefreshIInv, CheckpointIInv DEF Threads
<1>3. CASE \/ BeginClose \/ StopRun \/ Acquire \/ AcquireTimesOut \/ Release
           \/ RawClose \/ Join
  <2> USE <1>3 DEF BeginClose, StopRun, Acquire, AcquireTimesOut, Release, RawClose, Join,
                   CloseUnchanged, stateVars, historyVars
  <2>1. UNCHANGED <<tracked, generation, persisted, store, capture, seen, op>>
    OBVIOUS
  <2>2. /\ pc'["close"] \notin {"saving", "saved"}
        /\ \A t \in Threads \ {"close"} : pc'[t] = pc[t]
    BY <1>1 DEF Goto, Typed, Phases, Threads
  <2>3. Counters' /\ Written' /\ CleanMeansSaved'
    BY <2>1, <2>2, QuietStep
  <2>4. Covered'
    BY <1>1, <2>1, <2>2, Numbers, OthersCover DEF Threads
  <2> QED
    BY <1>1, <2>3, <2>4 DEF IInv
<1> QED
  BY <1>2, <1>3 DEF Close

LEMMA NextIInv == IInv /\ [Next]_vars => IInv'
<1> SUFFICES ASSUME IInv, [Next]_vars PROVE IInv'
  OBVIOUS
<1>1. CASE UNCHANGED vars
  <2>1. UNCHANGED <<tracked, generation, persisted, store, capture, seen, pc, op>>
    BY <1>1 DEF vars, stateVars, threadVars, historyVars
  <2>2. Typed /\ Typed'
    BY <1>1, NextTyped DEF IInv
  <2>3. Counters' /\ Written' /\ CleanMeansSaved'
    BY <2>1, QuietStep
  <2>4. Covered'
    BY <2>1, <2>2, Numbers, OthersCover
  <2> QED
    BY <2>2, <2>3, <2>4 DEF IInv
<1> QED
  BY <1>1, PlayerIInv, OperationIInv, RunIInv, CloseIInv DEF Next

\* checkpoint's early return is sound: with nothing unsaved, the store has the current
\* episode's position and completion, whichever of the three goroutines wrote it.
THEOREM CleanCheckpointIsSaved == Spec => []CleanMeansSaved
<1>1. IInv => CleanMeansSaved
  BY DEF IInv
<1> QED
  BY <1>1, InitIInv, NextIInv, PTL DEF Spec

\* persistGate and the generation taken under stateMu keep a slow write of an old
\* state from landing on a newer one.
THEOREM WritesAdvance == Spec => []NeverSavesOlder
<1>1. IInv => NeverSavesOlder
  <2> SUFFICES ASSUME IInv PROVE NeverSavesOlder
    OBVIOUS
  <2> QED
    BY Numbers DEF IInv, Counters, Newer, NeverSavesOlder
<1> QED
  BY <1>1, InitIInv, NextIInv, PTL DEF Spec

\* switchEpisode's second checkpoint: the player is told to load only after what was
\* recorded by the time the request was resolved is saved.
THEOREM SwitchSaves == Spec => []SwitchSavesFirst
<1>1. IInv => SwitchSavesFirst
  BY DEF IInv, Covered, SwitchSavesFirst
<1> QED
  BY <1>1, InitIInv, NextIInv, PTL DEF Spec

-----------------------------------------------------------------------------
(* Closing.                                                                *)

\* As long as close has met no error, it has outlived run, then taken opGate for good,
\* and from its checkpoint on nobody is left to record anything.
Finality ==
  /\ closing <=> pc["close"] # "off"
  /\ runDone => pc["run"] = "done"
  /\ acquired => closing /\ pc["op"] = "idle"
  /\ closeDone => pc["close"] = "done"
  /\ ~closeErr /\ pc["close"] \notin {"off", "stopping"} => runDone
  /\ ~closeErr /\ pc["close"] \notin {"off", "stopping", "acquire"} => acquired
  /\ ~closeErr /\ Holding("close") => capture["close"].gen = generation
  /\ ~closeErr /\ pc["close"] \in {"release", "rawClose", "join", "done"} =>
       generation = persisted

LEMMA OperationFinality ==
  ASSUME IInv, Finality,
         \/ \E e \in Episodes : BeginOp("switch", e)
         \/ BeginOp("snapshot", First)
         \/ Operation
  PROVE  Finality'
<1> USE DEF OpUnchanged, closeVars, Goto
<1> USE DEF Operation, BeginOp, Resolve, ResolveFails, BeginPending, EngineReplaces,
        LoadSucceeds, LoadFails, Discard, Commit, EndOp, Refresh, SkipRefresh, ReadSnapshot,
        SnapshotFails, RefreshFailed, UseSnapshot, Checkpoint, CheckpointClean, Capture,
        CheckpointCancelled, CheckpointFailed, Save, SaveFails, Saved
<1>1. closeErr \in BOOLEAN /\ acquired \in BOOLEAN /\ pc \in [Threads -> Places]
  BY DEF IInv, Typed, TypeOK, Sections, Phases
<1>2. ~acquired
  <2>1. pc["op"] # "idle" \/ ~closing
    OBVIOUS
  <2> QED
    BY <2>1 DEF Finality
<1>3. UNCHANGED <<closing, runDone, closeDone, closeErr, acquired>>
  BY <1>1
<1>4. pc'["close"] = pc["close"] /\ pc'["run"] = pc["run"]
  BY <1>1 DEF Threads
<1> QED
  BY <1>2, <1>3, <1>4, Zenon DEF Finality, Holding

LEMMA RunFinality ==
  ASSUME IInv, Finality, Tick \/ Run
  PROVE  Finality'
<1> USE DEF ObserveUnchanged, RunUnchanged, closeVars, Goto
<1> USE DEF Run, Tick, ObservePending, ObserveCurrent, ObserveNothing, EventsClosed, Stopped,
        ExitRun, Checkpoint, CheckpointClean, Capture, CheckpointCancelled, CheckpointFailed,
        Save, SaveFails, Saved
<1>1. closeErr \in BOOLEAN /\ runDone \in BOOLEAN /\ pc \in [Threads -> Places]
  BY DEF IInv, Typed, TypeOK, Sections, Phases
<1>2. ~runDone
  <2>1. pc["run"] # "done"
    OBVIOUS
  <2> QED
    BY <2>1 DEF Finality
<1>3. UNCHANGED <<closing, closeDone, closeErr, acquired>>
  BY <1>1
<1>4. runDone' => pc'["run"] = "done"
  BY <1>1, <1>2 DEF Threads
<1>5. pc'["close"] = pc["close"] /\ pc'["op"] = pc["op"]
  BY <1>1 DEF Threads
<1> QED
  BY <1>2, <1>3, <1>4, <1>5, Zenon DEF Finality, Holding

LEMMA CloseFinality ==
  ASSUME IInv, Finality, BeginClose \/ Close
  PROVE  Finality'
<1> USE DEF CloseUnchanged, stateVars, closeVars, Goto
<1>0. Typed /\ pc \in [Threads -> Places]
  BY DEF IInv, Typed, Phases
<1>1. CASE BeginClose
  BY <1>0, <1>1 DEF BeginClose, Finality, Holding, Threads
<1>2. CASE StopRun
  BY <1>0, <1>2 DEF StopRun, Finality, Holding, Threads
<1>3. CASE Acquire
  <2>1. pc["op"] = "idle" /\ closing
    BY <1>0, <1>3 DEF Acquire, Typed, TypeOK, Sections, Finality
  <2> QED
    BY <1>0, <1>3, <2>1 DEF Acquire, Finality, Holding, Threads
<1>4. CASE AcquireTimesOut
  BY <1>0, <1>4 DEF AcquireTimesOut, Finality, Holding, Threads
<1>5. CASE Release
  BY <1>0, <1>5 DEF Release, Finality, Holding, Threads
<1>6. CASE RawClose
  BY <1>0, <1>6 DEF RawClose, Finality, Holding, Threads
<1>7. CASE Join
  BY <1>0, <1>7 DEF Join, Finality, Holding, Threads
<1>8. CASE Refresh("close")
  BY <1>0, <1>8 DEF Refresh, SkipRefresh, ReadSnapshot, SnapshotFails, RefreshFailed,
     UseSnapshot, AfterRefresh, Finality, Holding, Threads
<1>9. CASE Checkpoint("close")
  <2>1. AfterCheckpoint("close") = IF acquired THEN "release" ELSE "join"
    BY DEF AfterCheckpoint
  <2>2. CASE CheckpointClean("close")
    BY <1>0, <2>1, <2>2 DEF CheckpointClean, Finality, Holding, Threads
  <2>3. CASE Capture("close")
    BY <1>0, <2>3 DEF Capture, Captured, Finality, Holding, Threads, Typed, TypeOK,
       SessionTypes
  <2>4. CASE CheckpointCancelled("close") \/ SaveFails("close")
    <3>1. /\ closeErr'
          /\ UNCHANGED <<closing, runDone, closeDone, acquired>>
      BY <2>4 DEF CheckpointCancelled, SaveFails, CheckpointFailed
    <3>2. /\ pc["close"] \in {"checkpoint", "saving"}
          /\ pc'["close"] \in {"release", "join"}
          /\ pc'["op"] = pc["op"] /\ pc'["run"] = pc["run"]
      BY <1>0, <2>1, <2>4 DEF CheckpointCancelled, SaveFails, CheckpointFailed, Threads
    <3> QED
      BY <3>1, <3>2 DEF Finality
  <2>5. CASE Save("close")
    BY <1>0, <2>5 DEF Save, Finality, Holding, Threads
  <2>6. CASE Saved("close")
    <3>1. capture["close"].gen > persisted
      BY <1>0, <2>6, Numbers DEF Saved, Holding, IInv, Counters, Newer, Threads
    <3>2. persisted' = capture["close"].gen
      BY <2>6, <3>1 DEF Saved, PersistedUpTo
    <3> QED
      BY <1>0, <2>1, <2>6, <3>2 DEF Saved, Finality, Holding, Threads
  <2> QED
    BY <1>9, <2>2, <2>3, <2>4, <2>5, <2>6 DEF Checkpoint
<1> QED
  BY <1>1, <1>2, <1>3, <1>4, <1>5, <1>6, <1>7, <1>8, <1>9 DEF Close

LEMMA NextFinality == IInv /\ Finality /\ [Next]_vars => Finality'
<1> SUFFICES ASSUME IInv, Finality, [Next]_vars PROVE Finality'
  OBVIOUS
<1>1. CASE Play \/ (\E kind \in Kinds : Emit(kind)) \/ UNCHANGED vars
  <2>1. UNCHANGED <<closing, runDone, closeDone, closeErr, acquired, pc, capture,
                    generation, persisted>>
    BY <1>1 DEF Play, Emit, vars, stateVars, closeVars, threadVars, historyVars
  <2> QED
    BY <2>1 DEF Finality, Holding
<1> QED
  BY <1>1, OperationFinality, RunFinality, CloseFinality DEF Next

\* A close that reports no error leaves nothing unsaved behind: it outlived run, took
\* opGate from any operation, and its own checkpoint was the last.
THEOREM CloseSaves == Spec => []CloseSavesFinal
<1>1. Init => IInv /\ Finality
  BY InitIInv DEF Init, Finality, Threads, Holding
<1>2. IInv /\ Finality /\ [Next]_vars => (IInv /\ Finality)'
  BY NextIInv, NextFinality
<1>3. IInv /\ Finality => CloseSavesFinal
  BY DEF IInv, Finality, CleanMeansSaved, CloseSavesFinal
<1> QED
  BY <1>1, <1>2, <1>3, PTL DEF Spec

\* What counts as saved is saved, in every interleaving of operations, run and close.
THEOREM CountedAsSavedIsSaved == Spec => []SavesAreTrue
<1>1. TypeOK /\ CleanMeansSaved /\ NeverSavesOlder => SavesAreTrue
  BY DEF SavesAreTrue
<1> QED
  BY <1>1, TypeCorrect, CleanCheckpointIsSaved, WritesAdvance, PTL

\* Neither a switch nor a close that reports no error leaves anything unsaved.
THEOREM LeavingSaves == Spec => []MovesOnSaved
<1>1. SwitchSavesFirst /\ CloseSavesFinal => MovesOnSaved
  BY DEF MovesOnSaved
<1> QED
  BY <1>1, SwitchSaves, CloseSaves, PTL

-----------------------------------------------------------------------------
(* What is handed to the relay.                                            *)

\* Each of what is left of a list without one of its elements was there before.
LEMMA RemoveAtMembers ==
  ASSUME NEW S, NEW s \in Seq(S), NEW i \in 1..Len(s), NEW j \in 1..(Len(s) - 1)
  PROVE  RemoveAt(s, i)[j] \in {s[j], s[j + 1]}
<1> DEFINE a == SubSeq(s, 1, i - 1)
           b == SubSeq(s, i + 1, Len(s))
<1>0. Len(s) \in Nat
  OBVIOUS
<1>1. /\ a \in Seq(S) /\ Len(a) = i - 1
      /\ \A k \in 1..(i - 1) : a[k] = s[k]
  BY <1>0, SubSeqProperties
<1>2. /\ b \in Seq(S) /\ Len(b) = Len(s) - i
      /\ \A k \in 1..(Len(s) - i) : b[k] = s[i + k]
  <2>1. /\ i + 1 \in 1..(Len(s) + 1) /\ Len(s) \in 0..Len(s)
    BY <1>0
  <2>2. /\ b \in Seq(S)
        /\ Len(b) = IF i + 1 <= Len(s) THEN Len(s) - (i + 1) + 1 ELSE 0
        /\ \A k \in 1..(Len(s) - (i + 1) + 1) : b[k] = s[i + 1 + k - 1]
    BY <1>0, <2>1, SubSeqProperties
  <2> HIDE DEF b
  <2>3. Len(b) = Len(s) - i /\ Len(s) - (i + 1) + 1 = Len(s) - i
    BY <1>0, <2>2
  <2>4. ASSUME NEW k \in 1..(Len(s) - i) PROVE b[k] = s[i + k]
    <3>1. i + 1 + k - 1 = i + k
      BY <1>0
    <3> QED
      BY <2>2, <2>3, <3>1
  <2> QED
    BY <2>2, <2>3, <2>4
<1>3. RemoveAt(s, i) = a \o b
  BY DEF RemoveAt
<1> HIDE DEF a, b
<1>4. /\ Len(a \o b) = Len(s) - 1
      /\ (a \o b)[j] = IF j <= Len(a) THEN a[j] ELSE b[j - Len(a)]
  <2>0. Len(a \o b) = Len(a) + Len(b)
    BY <1>1, <1>2, ConcatProperties
  <2>1. Len(a \o b) = Len(s) - 1
    BY <1>0, <1>1, <1>2, <2>0
  <2> QED
    BY <1>0, <1>1, <1>2, <2>1, ConcatProperties
<1>5. CASE j <= i - 1
  BY <1>0, <1>1, <1>3, <1>4, <1>5
<1>6. CASE j > i - 1
  <2>1. j - (i - 1) \in 1..(Len(s) - i) /\ i + (j - (i - 1)) = j + 1
    BY <1>0, <1>6
  <2>2. b[j - (i - 1)] = s[j + 1]
    BY <1>2, <2>1
  <2> QED
    BY <1>0, <1>1, <1>3, <1>4, <1>6, <2>2
<1> QED
  BY <1>0, <1>5, <1>6

\* A list of staged events has the ones it had and the new one.
LEMMA StagedMembers ==
  ASSUME NEW kinds \in Seq(Kinds), Len(kinds) <= StageCap, NEW kind \in Kinds,
         NEW i \in DOMAIN Staged(kinds, kind)
  PROVE  \/ Staged(kinds, kind)[i] = kind
         \/ \E j \in DOMAIN kinds : Staged(kinds, kind)[i] = kinds[j]
<1> DEFINE progress == SelectInSeq(kinds, LAMBDA k : k = "progress")
           shorter  == RemoveAt(kinds, progress)
<1>0. Len(kinds) \in Nat /\ DOMAIN kinds = 1..Len(kinds)
  OBVIOUS
<1>1. progress \in 0..Len(kinds)
  BY FirstProgressType
<1>2. Staged(kinds, kind) \in
        {kinds, Append(kinds, kind),
         IF progress # 0 THEN Append(shorter, kind) ELSE kinds,
         IF kinds # <<>> THEN Append(Tail(kinds), kind) ELSE kinds}
  BY TrackingAssumption DEF Staged
<1>3. progress # 0 =>
        /\ shorter \in Seq(Kinds) /\ Len(shorter) = Len(kinds) - 1
        /\ \A k \in 1..(Len(kinds) - 1) : shorter[k] \in {kinds[k], kinds[k + 1]}
  <2> SUFFICES ASSUME progress # 0
               PROVE  /\ shorter \in Seq(Kinds) /\ Len(shorter) = Len(kinds) - 1
                      /\ \A k \in 1..(Len(kinds) - 1) : shorter[k] \in {kinds[k], kinds[k + 1]}
    OBVIOUS
  <2>1. progress \in 1..Len(kinds)
    BY <1>0, <1>1
  <2> HIDE DEF progress
  <2> QED
    BY <2>1, RemoveAtType, RemoveAtMembers
<1> HIDE DEF progress, shorter
<1>4. CASE progress # 0 /\ Staged(kinds, kind) = Append(shorter, kind)
  <2>1. /\ i \in 1..Len(kinds)
        /\ Append(shorter, kind)[i] = IF i = Len(kinds) THEN kind ELSE shorter[i]
    BY <1>0, <1>3, <1>4
  <2>2. i # Len(kinds) => i \in DOMAIN kinds /\ i + 1 \in DOMAIN kinds
    BY <1>0, <2>1
  <2>3. i # Len(kinds) => shorter[i] \in {kinds[i], kinds[i + 1]}
    BY <1>0, <1>3, <1>4, <2>1
  <2> QED
    BY <1>4, <2>1, <2>2, <2>3
<1>5. CASE kinds # <<>> /\ Staged(kinds, kind) = Append(Tail(kinds), kind)
  <2>1. /\ Tail(kinds) \in Seq(Kinds) /\ Len(Tail(kinds)) = Len(kinds) - 1
        /\ \A k \in 1..(Len(kinds) - 1) : Tail(kinds)[k] = kinds[k + 1]
    BY <1>5
  <2>2. /\ i \in 1..Len(kinds)
        /\ Append(Tail(kinds), kind)[i] = IF i = Len(kinds) THEN kind ELSE Tail(kinds)[i]
    BY <1>0, <1>5, <2>1
  <2>3. i # Len(kinds) => i + 1 \in DOMAIN kinds
    BY <1>0, <2>2
  <2> QED
    BY <1>0, <1>5, <2>1, <2>2, <2>3
<1>6. CASE Staged(kinds, kind) = kinds
  BY <1>6
<1>7. CASE Staged(kinds, kind) = Append(kinds, kind)
  <2>1. i \in 1..(Len(kinds) + 1)
    BY <1>0, <1>7
  <2>2. Append(kinds, kind)[i] = IF i = Len(kinds) + 1 THEN kind ELSE kinds[i]
    BY <1>0, <2>1
  <2> QED
    BY <1>0, <1>7, <2>1, <2>2
<1> QED
  BY <1>2, <1>4, <1>5, <1>6, <1>7

\* What was published is the current owner's or an earlier one's; the owner's terminal
\* event was recorded; a pending load has a newer owner, and what is staged for it ends
\* with its terminal event.
Relaying ==
  /\ relayed \in [owner : Nat, terminal : BOOLEAN]
  /\ relayed.owner <= tracked.owner
  /\ relayed.terminal /\ relayed.owner = tracked.owner => tracked.terminal
  /\ pending # None =>
       /\ pending.playback.owner > tracked.owner
       /\ \A i \in DOMAIN pending.events :
            pending.events[i] \in TerminalKinds => pending.playback.terminal

\* A step that publishes nothing and keeps what is tracked of the owner.
LEMMA SilentStep ==
  ASSUME Relaying, UNCHANGED <<relayed, pending>>,
         tracked'.owner = tracked.owner, tracked'.terminal = tracked.terminal
  PROVE  Relaying' /\ relayed' = relayed
  BY DEF Relaying

LEMMA CheckpointRelays ==
  ASSUME Typed, Relaying, NEW t \in Threads, Refresh(t) \/ Checkpoint(t)
  PROVE  Relaying' /\ relayed' = relayed
<1>1. tracked \in Playback
  BY DEF Typed, TypeOK, SessionTypes
<1>2. UNCHANGED <<relayed, pending>>
  BY DEF Refresh, SkipRefresh, ReadSnapshot, SnapshotFails, UseSnapshot, Checkpoint,
     CheckpointClean, Capture, CheckpointCancelled, CheckpointFailed, Save, SaveFails, Saved,
     stateVars, historyVars
<1>3. CASE UseSnapshot(t)
  <2>1. \/ tracked' = tracked
        \/ \E completed :
             tracked' = [tracked EXCEPT !.pos = snapshot.pos, !.of = snapshot.of,
                                        !.completed = completed]
    BY <1>3 DEF UseSnapshot
  <2>2. tracked'.owner = tracked.owner /\ tracked'.terminal = tracked.terminal
    BY <1>1, <2>1 DEF Playback
  <2> QED
    BY <1>2, <2>2, SilentStep
<1>4. CASE Saved(t)
  <2>1. \E completed : tracked' = [tracked EXCEPT !.completed = completed]
    BY <1>4 DEF Saved
  <2>2. tracked'.owner = tracked.owner /\ tracked'.terminal = tracked.terminal
    BY <1>1, <2>1 DEF Playback
  <2> QED
    BY <1>2, <2>2, SilentStep
<1>5. CASE ~UseSnapshot(t) /\ ~Saved(t)
  <2>1. UNCHANGED tracked
    BY <1>5 DEF Refresh, SkipRefresh, ReadSnapshot, SnapshotFails, Checkpoint,
       CheckpointClean, Capture, CheckpointCancelled, Save, SaveFails, stateVars
  <2> QED
    BY <1>2, <2>1, SilentStep
<1> QED
  BY <1>3, <1>4, <1>5

InOrder ==
  relayed' # relayed =>
    /\ relayed'.owner >= relayed.owner
    /\ relayed.terminal => relayed'.owner > relayed.owner

LEMMA OperationRelays ==
  ASSUME Typed, Relaying, Operation
  PROVE  Relaying' /\ InOrder
<1> USE DEF stateVars, historyVars
<1>1. /\ tracked.owner \in Nat
      /\ pending # None => pending.playback.owner \in Nat /\ pending.playback.terminal \in BOOLEAN
      /\ relayed.owner \in Nat /\ relayed.terminal \in BOOLEAN
  BY DEF Typed, TypeOK, SessionTypes, Playback, Relaying
<1>2. CASE Refresh("op") \/ Checkpoint("op")
  BY <1>2, CheckpointRelays DEF InOrder, Threads
<1>3. CASE Resolve \/ ResolveFails \/ EngineReplaces \/ LoadSucceeds \/ LoadFails \/ EndOp
  BY <1>3, SilentStep DEF Resolve, ResolveFails, EngineReplaces, LoadSucceeds, LoadFails, EndOp,
     InOrder
<1>4. CASE BeginPending
  <2>1. /\ pending'.playback.owner = tracked.owner + 1 /\ pending'.events = <<>>
        /\ UNCHANGED <<tracked, relayed>>
    BY <1>4 DEF BeginPending, NewPlayback
  <2> QED
    BY <1>1, <2>1 DEF Relaying, InOrder
<1>5. CASE Discard
  BY <1>5 DEF Discard, Relaying, InOrder
<1>6. CASE Commit
  <2>1. /\ tracked' = pending.playback /\ pending' = None
        /\ Relay(pending.playback.owner, pending.events)
    BY <1>6 DEF Commit
  <2>2. pending # None
    BY <1>6 DEF Commit, Typed, TypeOK, Sections
  <2>3. CASE pending.events = <<>>
    BY <1>1, <2>1, <2>2, <2>3 DEF Relay, Relaying, InOrder
  <2>4. CASE pending.events # <<>>
    <3>1. /\ relayed'.owner = pending.playback.owner
          /\ relayed'.terminal = \E i \in DOMAIN pending.events : pending.events[i] \in TerminalKinds
          /\ relayed' \in [owner : Nat, terminal : BOOLEAN]
      BY <1>1, <2>1, <2>2, <2>4 DEF Relay
    <3> QED
      BY <1>1, <2>1, <2>2, <3>1 DEF Relaying, InOrder
  <2> QED
    BY <2>3, <2>4
<1> QED
  BY <1>2, <1>3, <1>4, <1>5, <1>6 DEF Operation

LEMMA RelayOfOne ==
  ASSUME NEW owner, NEW kind, Relay(owner, <<kind>>)
  PROVE  /\ relayed' \in [owner : {owner}, terminal : BOOLEAN]
         /\ relayed'.terminal <=> kind \in TerminalKinds
<1>1. <<kind>> # <<>> /\ DOMAIN <<kind>> = {1} /\ <<kind>>[1] = kind
  OBVIOUS
<1>2. (\E i \in DOMAIN <<kind>> : <<kind>>[i] \in TerminalKinds) <=> kind \in TerminalKinds
  BY <1>1
<1>3. relayed' = [owner    |-> owner,
                  terminal |-> \E i \in DOMAIN <<kind>> : <<kind>>[i] \in TerminalKinds]
  BY <1>1 DEF Relay
<1> QED
  BY <1>2, <1>3

LEMMA RunRelays ==
  ASSUME Typed, Relaying, Tick \/ Run
  PROVE  Relaying' /\ InOrder
<1> USE DEF stateVars, historyVars, ObserveUnchanged, RunUnchanged
<1>1. /\ tracked \in Playback /\ tracked.owner \in Nat
      /\ relayed.owner \in Nat /\ relayed.terminal \in BOOLEAN
  BY DEF Typed, TypeOK, SessionTypes, Playback, Relaying
<1>2. rawEvents # <<>> => Head(rawEvents) \in Event
  BY TakenType DEF Typed, TypeOK, PlayerTypes
<1>3. CASE Tick \/ ObserveNothing \/ EventsClosed \/ Stopped \/ ExitRun
  BY <1>3, SilentStep DEF Tick, ObserveNothing, EventsClosed, Stopped, ExitRun, InOrder
<1>4. CASE Checkpoint("run")
  BY <1>4, CheckpointRelays DEF InOrder, Threads
<1>5. CASE ObservePending
  <2> DEFINE event == Head(rawEvents)
  <2>1. /\ pending # None /\ ~pending.playback.terminal
        /\ pending'.playback = Applied(pending.playback, event)
        /\ pending'.events = Staged(pending.events, event.kind)
        /\ UNCHANGED <<tracked, relayed>> /\ event \in Event
    BY <1>2, <1>5 DEF ObservePending, ForPending, TerminalIsFinal
  <2>2. /\ pending.playback \in Playback
        /\ pending.events \in Seq(Kinds) /\ Len(pending.events) <= StageCap /\ event.kind \in Kinds
    BY <2>1 DEF Typed, TypeOK, SessionTypes, Event
  <2>3. /\ Applied(pending.playback, event).owner = pending.playback.owner
        /\ Applied(pending.playback, event).terminal = (event.kind \in TerminalKinds)
    BY <2>2 DEF Applied, Playback
  <2>4. ASSUME NEW i \in DOMAIN pending'.events, pending'.events[i] \in TerminalKinds
        PROVE  pending'.playback.terminal
    <3>1. \A j \in DOMAIN pending.events : pending.events[j] \notin TerminalKinds
      BY <2>1 DEF Relaying
    <3>2. pending'.events[i] = event.kind
      BY <2>1, <2>2, <2>4, <3>1, StagedMembers
    <3> QED
      BY <2>1, <2>3, <2>4, <3>2
  <2> HIDE DEF event
  <2> QED
    BY <2>1, <2>3, <2>4 DEF Relaying, InOrder
<1>6. CASE ObserveCurrent
  <2> DEFINE event == Head(rawEvents)
  <2>1. /\ ~tracked.terminal /\ tracked' = Applied(tracked, event)
        /\ Relay(tracked.owner, <<event.kind>>) /\ UNCHANGED pending
    BY <1>6 DEF ObserveCurrent, TerminalIsFinal
  <2>2. tracked'.owner = tracked.owner /\ tracked'.terminal = (event.kind \in TerminalKinds)
    BY <1>1, <2>1 DEF Applied, Playback
  <2>3. /\ relayed' \in [owner : {tracked.owner}, terminal : BOOLEAN]
        /\ relayed'.terminal <=> event.kind \in TerminalKinds
    <3> HIDE DEF event
    <3> QED
      BY <2>1, RelayOfOne
  <2> HIDE DEF event
  <2> QED
    BY <1>1, <2>1, <2>2, <2>3 DEF Relaying, InOrder
<1> QED
  BY <1>3, <1>4, <1>5, <1>6 DEF Run

LEMMA NextRelays == Typed /\ Relaying /\ [Next]_vars => Relaying' /\ InOrder
<1> SUFFICES ASSUME Typed, Relaying, [Next]_vars PROVE Relaying' /\ InOrder
  OBVIOUS
<1>1. CASE \/ Play \/ (\E kind \in Kinds : Emit(kind)) \/ BeginClose
           \/ (\E e \in Episodes : BeginOp("switch", e)) \/ BeginOp("snapshot", First)
           \/ UNCHANGED vars
  BY <1>1, SilentStep DEF Play, Emit, BeginClose, BeginOp, CloseUnchanged, vars, stateVars,
     historyVars, InOrder
<1>2. CASE Close
  <2>1. CASE Refresh("close") \/ Checkpoint("close")
    BY <2>1, CheckpointRelays DEF InOrder, Threads
  <2>2. CASE StopRun \/ Acquire \/ AcquireTimesOut \/ Release \/ RawClose \/ Join
    BY <2>2, SilentStep DEF StopRun, Acquire, AcquireTimesOut, Release, RawClose, Join,
       CloseUnchanged, stateVars, historyVars, InOrder
  <2> QED
    BY <1>2, <2>1, <2>2 DEF Close
<1> QED
  BY <1>1, <1>2, OperationRelays, RunRelays DEF Next

\* commitPending and observe publish one owner after the other, and nothing of an
\* owner after its terminal event: what the relay's own order rests on.
THEOREM PublishesInOrder == Spec => RelayedInOrder
<1>1. Init => Typed /\ Relaying
  BY InitTyped DEF Init, Relaying, NewPlayback
<1>2. Typed /\ Relaying /\ [Next]_vars => (Typed /\ Relaying)'
  BY NextTyped, NextRelays
<1>3. Typed /\ Relaying /\ [Next]_vars => [InOrder]_vars
  BY NextRelays
<1>4. [InOrder]_vars <=>
        [relayed' # relayed =>
           /\ relayed'.owner >= relayed.owner
           /\ relayed.terminal => relayed'.owner > relayed.owner]_vars
  BY DEF InOrder
<1> QED
  BY <1>1, <1>2, <1>3, <1>4, PTL DEF Spec, RelayedInOrder

-----------------------------------------------------------------------------
(* What the store says of an episode is of that episode.                   *)

\* A playback, or what a checkpoint captured of one, is of its own episode's file.
Own(p) ==
  /\ p.of = p.ep
  /\ ~blurred /\ (p.completed \/ ThresholdReached(p.pos)) => p.ep \in reached

\* Whose file it is that plays: the next episode's once the player replaced it.
Replaced == replaced \/ pc["op"] = "commit"
FileIsKnown ==
  /\ ~deaf
  /\ file.ep = IF Replaced THEN op.target ELSE tracked.ep
  /\ current = IF pc["op"] = "commit" THEN op.target ELSE tracked.ep
  /\ ThresholdReached(file.pos) => file.ep \in reached

\* What was read of a file, by an event or a snapshot, is true of it.
EventsAreTrue ==
  \A i \in DOMAIN rawEvents :
    rawEvents[i].kind = "ended" \/ ThresholdReached(rawEvents[i].pos) => rawEvents[i].ep \in reached
SnapshotIsTrue ==
  \A t \in Threads \ {"run"} : pc[t] = "snapped" =>
    /\ snapshot.of = tracked.ep
    /\ ThresholdReached(snapshot.pos) => tracked.ep \in reached

PlaybacksAreOwn ==
  /\ Own(tracked)
  /\ pending # None => Own(pending.playback)
  /\ \A t \in Threads : Holding(t) => Own(capture[t])
StoreIsOwn ==
  \A e \in Episodes : store[e].of = e /\ (~blurred /\ store[e].completed => e \in reached)

\* A load is of the operation's episode, from a position before its mark.
Targets ==
  /\ replaced => pc["op"] = "loading"
  /\ pending # None => pending.playback.ep = op.target /\ pending.playback.owner > tracked.owner
  /\ ~ThresholdReached(op.start)
\* A capture of the present owner is of the present episode.
Owners ==
  \A t \in Threads : Holding(t) =>
    /\ capture[t].owner <= tracked.owner
    /\ capture[t].owner = tracked.owner => capture[t].ep = tracked.ep

Knowing == FileIsKnown /\ EventsAreTrue /\ SnapshotIsTrue /\ PlaybacksAreOwn /\ StoreIsOwn
Earning == Targets /\ Owners /\ (~strayed => Knowing)

\* Taking an event leaves those behind it.
LEMMA EventsLeft ==
  ASSUME Typed, EventsAreTrue, rawEvents # <<>>, rawEvents' = Tail(rawEvents), reached' = reached
  PROVE  EventsAreTrue'
<1>1. rawEvents \in Seq(Event)
  BY DEF Typed, TypeOK, PlayerTypes
<1>2. \A i \in DOMAIN Tail(rawEvents) : i + 1 \in DOMAIN rawEvents /\ Tail(rawEvents)[i] = rawEvents[i + 1]
  <2> HIDE DEF Event
  <2> QED
    BY <1>1
<1> QED
  BY <1>2 DEF EventsAreTrue

\* A step that reads, records and loads nothing.
LEMMA EarningStays ==
  ASSUME Typed, Earning,
         UNCHANGED <<file, current, replaced, deaf, reached, tracked, store, blurred, strayed>>,
         pending' \in {pending, None},
         rawEvents' = rawEvents \/ (rawEvents # <<>> /\ rawEvents' = Tail(rawEvents)),
         ~ThresholdReached(op'.start),
         op'.target = op.target \/ (pending' = None /\ ~replaced /\ pc["op"] # "commit"),
         pc'["op"] = "commit" <=> pc["op"] = "commit",
         replaced => pc'["op"] = "loading",
         \A t \in Threads : Holding(t)' => Holding(t) /\ capture'[t] = capture[t],
         \A t \in Threads : pc'[t] = "snapped" => pc[t] = "snapped" /\ snapshot' = snapshot
  PROVE  Earning'
<1>1. Targets'
  BY DEF Earning, Targets
<1>2. Owners'
  BY DEF Earning, Owners
<1>3. ASSUME ~strayed PROVE Knowing'
  <2>1. Knowing
    BY <1>3 DEF Earning
  <2>2. FileIsKnown'
    BY <2>1 DEF Knowing, FileIsKnown, Replaced
  <2>3. EventsAreTrue'
    BY <2>1, EventsLeft DEF Knowing, EventsAreTrue
  <2>4. SnapshotIsTrue'
    BY <2>1 DEF Knowing, SnapshotIsTrue
  <2>5. PlaybacksAreOwn'
    BY <2>1 DEF Knowing, PlaybacksAreOwn, Own
  <2>6. StoreIsOwn'
    BY <2>1 DEF Knowing, StoreIsOwn
  <2> QED
    BY <2>2, <2>3, <2>4, <2>5, <2>6 DEF Knowing
<1> QED
  BY <1>1, <1>2, <1>3 DEF Earning

\* Who refreshes or leaves a checkpoint goes on to a place of its own; nobody loads then.
LEMMA GoesOn ==
  ASSUME Typed, NEW t \in Threads, pc[t] \in {"refresh", "snapped", "checkpoint", "saving", "saved"},
         NEW where, where \notin {"commit", "loading"}, Goto(t, where)
  PROVE  /\ pc'["op"] = "commit" <=> pc["op"] = "commit"
         /\ pc["op"] = "loading" => pc'["op"] = "loading"
         /\ \A u \in Threads : pc'[u] = IF u = t THEN where ELSE pc[u]
  BY DEF Typed, Phases, Threads, Goto

LEMMA RefreshEarning ==
  ASSUME Typed, Earning, NEW t \in {"op", "close"}, Refresh(t)
  PROVE  Earning'
<1> USE DEF playerVars, stateVars, historyVars
<1>0. t \in Threads
  BY DEF Threads
<1>1. /\ pc["op"] \notin {"loading", "commit"} /\ ~replaced
      /\ opGate = t
  <2>1. pc[t] \in {"refresh", "snapped"}
    BY DEF Refresh, SkipRefresh, ReadSnapshot, SnapshotFails, UseSnapshot
  <2>2. opGate = t
    BY <2>1 DEF Typed, TypeOK, Sections, Phases, Working
  <2> QED
    BY <2>1, <2>2 DEF Typed, TypeOK, Sections, Earning, Targets
<1>2. ASSUME NEW where \in Places, Goto(t, where)
      PROVE  /\ pc'["op"] = "commit" <=> t = "op" /\ where = "commit"
             /\ \A u \in Threads : pc'[u] = IF u = t THEN where ELSE pc[u]
  BY <1>0, <1>1, <1>2 DEF Goto, Typed, Phases, Threads
<1>3. t # "run" /\ \A u \in Threads \ {"run"} : pc[u] = "snapped" => u = t
  BY <1>1 DEF Typed, TypeOK, Sections, Phases, Working, Threads
<1>4. CASE SkipRefresh(t) \/ SnapshotFails(t)
  <2>1. PICK where \in {"end", "checkpoint"} : Goto(t, where)
    BY <1>4 DEF SkipRefresh, SnapshotFails, RefreshFailed, AfterRefresh
  <2>2. /\ pc'["op"] # "commit"
        /\ \A u \in Threads : pc'[u] = IF u = t THEN where ELSE pc[u]
    BY <1>2, <2>1 DEF Places
  <2>3. UNCHANGED <<file, current, replaced, deaf, reached, tracked, store, blurred, strayed, pending,
                    rawEvents, op, capture, snapshot>>
    BY <1>4 DEF SkipRefresh, SnapshotFails
  <2>4. ~ThresholdReached(op.start)
    BY DEF Earning, Targets
  <2> QED
    BY <1>1, <2>1, <2>2, <2>3, <2>4, EarningStays DEF Holding
<1>5. CASE ReadSnapshot(t)
  <2>1. /\ UNCHANGED <<file, current, replaced, deaf, reached, tracked, store, blurred, strayed, pending,
                       rawEvents, op, capture>>
        /\ snapshot' = [pos |-> file.pos, of |-> file.ep] /\ Goto(t, "snapped")
    BY <1>5 DEF ReadSnapshot
  <2>2. /\ pc'["op"] # "commit"
        /\ \A u \in Threads : pc'[u] = IF u = t THEN "snapped" ELSE pc[u]
    BY <1>2, <2>1 DEF Places
  <2>3. Targets' /\ Owners'
    BY <1>1, <2>1, <2>2 DEF Earning, Targets, Owners, Holding
  <2>4. ASSUME ~strayed PROVE Knowing'
    <3>1. Knowing
      BY <2>4 DEF Earning
    <3>2. FileIsKnown' /\ EventsAreTrue' /\ StoreIsOwn'
      BY <1>1, <2>1, <2>2, <3>1 DEF Knowing, FileIsKnown, Replaced, EventsAreTrue, StoreIsOwn
    <3>3. PlaybacksAreOwn'
      BY <2>1, <2>2, <3>1 DEF Knowing, PlaybacksAreOwn, Own, Holding
    <3>4. SnapshotIsTrue'
      BY <1>1, <2>1, <3>1 DEF Knowing, FileIsKnown, Replaced, SnapshotIsTrue
    <3> QED
      BY <3>2, <3>3, <3>4 DEF Knowing
  <2> QED
    BY <2>1, <2>3, <2>4 DEF Earning
<1>6. CASE UseSnapshot(t)
  <2>1. /\ UNCHANGED <<file, current, replaced, deaf, reached, store, blurred, strayed, pending,
                       rawEvents, op, capture>>
        /\ pc[t] = "snapped"
    BY <1>6 DEF UseSnapshot
  <2>2. PICK where \in {"end", "checkpoint"} : Goto(t, where)
    BY <1>6 DEF UseSnapshot, AfterRefresh
  <2>3. /\ pc'["op"] # "commit"
        /\ \A u \in Threads : pc'[u] = IF u = t THEN where ELSE pc[u]
    BY <1>2, <2>2 DEF Places
  <2>4. /\ tracked'.ep = tracked.ep /\ tracked'.owner = tracked.owner
        /\ \/ tracked' = tracked
           \/ /\ tracked'.pos = snapshot.pos /\ tracked'.of = snapshot.of
              /\ tracked'.completed = (tracked.completed \/ ThresholdReached(snapshot.pos))
    <3>1. tracked \in Playback
      BY DEF Typed, TypeOK, SessionTypes
    <3> QED
      BY <1>6, <3>1 DEF UseSnapshot, Playback
  <2>5. Targets' /\ Owners'
    BY <1>1, <2>1, <2>3, <2>4 DEF Earning, Targets, Owners, Holding
  <2>6. ASSUME ~strayed PROVE Knowing'
    <3>1. Knowing
      BY <2>6 DEF Earning
    <3>2. FileIsKnown' /\ EventsAreTrue' /\ StoreIsOwn'
      BY <1>1, <2>1, <2>3, <2>4, <3>1 DEF Knowing, FileIsKnown, Replaced, EventsAreTrue, StoreIsOwn
    <3>3. Own(tracked)'
      BY <1>0, <2>1, <2>4, <3>1 DEF Knowing, PlaybacksAreOwn, SnapshotIsTrue, Own
    <3>4. PlaybacksAreOwn'
      BY <2>1, <2>3, <3>1, <3>3 DEF Knowing, PlaybacksAreOwn, Own, Holding
    <3>5. SnapshotIsTrue'
      BY <1>3, <2>3, <3>1 DEF SnapshotIsTrue
    <3> QED
      BY <3>2, <3>4, <3>5 DEF Knowing
  <2> QED
    BY <2>1, <2>5, <2>6 DEF Earning
<1> QED
  BY <1>4, <1>5, <1>6 DEF Refresh

LEMMA CheckpointEarning ==
  ASSUME Typed, Earning, NEW t \in Threads, Checkpoint(t)
  PROVE  Earning'
<1> USE DEF playerVars, stateVars, historyVars
<1>1. /\ UNCHANGED <<file, current, replaced, deaf, reached, strayed, pending, rawEvents, op, snapshot>>
      /\ pc[t] \in {"checkpoint", "saving", "saved"}
  BY DEF Checkpoint, CheckpointClean, Capture, CheckpointCancelled, CheckpointFailed, Save, SaveFails, Saved
<1>2. ~ThresholdReached(op'.start) /\ (replaced => pc["op"] = "loading")
  BY <1>1 DEF Earning, Targets
<1>3. ASSUME NEW where, Goto(t, where), where \notin {"commit", "loading", "snapped"},
             UNCHANGED <<tracked, store, blurred>>,
             \A u \in Threads : Holding(u)' => Holding(u) /\ capture'[u] = capture[u]
      PROVE  Earning'
  <2>1. /\ pc'["op"] = "commit" <=> pc["op"] = "commit"
        /\ pc["op"] = "loading" => pc'["op"] = "loading"
        /\ \A u \in Threads : pc'[u] = IF u = t THEN where ELSE pc[u]
    BY <1>1, <1>3, GoesOn
  <2> QED
    BY <1>1, <1>2, <1>3, <2>1, EarningStays
<1>4. AfterCheckpoint(t) \in {"resolve", "begin", "end", "exit", "idle", "release", "join"}
  BY <1>1, AfterCheckpointPlace DEF Working, Threads
<1>5. CASE CheckpointClean(t) \/ CheckpointCancelled(t)
  <2>1. PICK where \in {"resolve", "begin", "end", "exit", "idle", "release", "join"} : Goto(t, where)
    BY <1>4, <1>5 DEF CheckpointClean, CheckpointCancelled, CheckpointFailed
  <2>2. UNCHANGED <<tracked, store, blurred, capture>>
    BY <1>5 DEF CheckpointClean, CheckpointCancelled, CheckpointFailed
  <2>3. \A u \in Threads : Holding(u)' => Holding(u)
    BY <1>1, <2>1 DEF Typed, Phases, Goto, Holding
  <2> QED
    BY <1>3, <2>1, <2>2, <2>3
<1>6. CASE SaveFails(t)
  <2>1. PICK where \in {"resolve", "begin", "end", "exit", "idle", "release", "join"} : Goto(t, where)
    BY <1>4, <1>6 DEF SaveFails, CheckpointFailed
  <2>2. UNCHANGED <<tracked, store, blurred>> /\ capture' = [capture EXCEPT ![t] = NoCapture]
    BY <1>6 DEF SaveFails, CheckpointFailed
  <2>3. \A u \in Threads : Holding(u)' => Holding(u) /\ u # t
    BY <1>1, <2>1 DEF Typed, Phases, Goto, Holding
  <2>4. \A u \in Threads : u # t => capture'[u] = capture[u]
    BY <2>2 DEF Typed, TypeOK, SessionTypes
  <2> QED
    BY <1>3, <2>1, <2>2, <2>3, <2>4
<1>7. CASE Capture(t)
  <2>1. /\ UNCHANGED <<tracked, store, blurred>> /\ Goto(t, "saving")
        /\ capture' = [capture EXCEPT ![t] = Captured]
    BY <1>7 DEF Capture
  <2>2. /\ pc'["op"] = "commit" <=> pc["op"] = "commit"
        /\ pc["op"] = "loading" => pc'["op"] = "loading"
        /\ \A u \in Threads : pc'[u] = IF u = t THEN "saving" ELSE pc[u]
    BY <1>1, <2>1, GoesOn
  <2>3. \A u \in Threads : capture'[u] = IF u = t THEN Captured ELSE capture[u]
    BY <2>1 DEF Typed, TypeOK, SessionTypes
  <2>4. /\ Captured.ep = tracked.ep /\ Captured.pos = tracked.pos /\ Captured.of = tracked.of
        /\ Captured.completed = (tracked.completed \/ ThresholdReached(tracked.pos))
        /\ Captured.owner = tracked.owner /\ tracked.owner \in Nat
    BY DEF Captured, Typed, TypeOK, SessionTypes, Playback
  <2> HIDE DEF Captured
  <2>5. Targets'
    BY <1>1, <1>2, <2>1, <2>2 DEF Earning, Targets
  <2>6. Owners'
    BY <2>1, <2>2, <2>3, <2>4 DEF Earning, Owners, Holding
  <2>7. ASSUME ~strayed PROVE Knowing'
    <3>1. Knowing
      BY <2>7 DEF Earning
    <3>2. FileIsKnown' /\ EventsAreTrue' /\ StoreIsOwn'
      BY <1>1, <2>1, <2>2, <3>1 DEF Knowing, FileIsKnown, Replaced, EventsAreTrue, StoreIsOwn
    <3>3. SnapshotIsTrue'
      BY <1>1, <2>1, <2>2, <3>1 DEF Knowing, SnapshotIsTrue
    <3>4. Own(tracked) /\ Own(Captured)
      BY <2>4, <3>1 DEF Knowing, PlaybacksAreOwn, Own
    <3>5. \A u \in Threads : Holding(u)' => Own(capture'[u])
      BY <2>2, <2>3, <3>1, <3>4 DEF Knowing, PlaybacksAreOwn, Holding
    <3>6. PlaybacksAreOwn'
      BY <1>1, <2>1, <3>1, <3>5 DEF Knowing, PlaybacksAreOwn, Own
    <3> QED
      BY <3>2, <3>3, <3>6 DEF Knowing
  <2> QED
    BY <1>1, <2>5, <2>6, <2>7 DEF Earning
<1>8. CASE Save(t)
  <2> DEFINE c == capture[t]
             e == [pos |-> c.pos, of |-> c.of, completed |-> store[c.ep].completed \/ c.completed]
  <2>1. /\ UNCHANGED <<tracked, blurred, capture>> /\ Goto(t, "saved") /\ Holding(t)
        /\ store' = [store EXCEPT ![c.ep] = e]
    BY <1>8 DEF Save, Holding
  <2>2. /\ pc'["op"] = "commit" <=> pc["op"] = "commit"
        /\ pc["op"] = "loading" => pc'["op"] = "loading"
        /\ \A u \in Threads : pc'[u] = IF u = t THEN "saved" ELSE pc[u]
    BY <1>1, <2>1, GoesOn
  <2>3. \A u \in Threads : Holding(u)' => Holding(u)
    BY <2>1, <2>2 DEF Holding
  <2>4. Targets' /\ Owners'
    BY <1>1, <1>2, <2>1, <2>2, <2>3 DEF Earning, Targets, Owners
  <2>5. ASSUME ~strayed PROVE Knowing'
    <3>1. Knowing
      BY <2>5 DEF Earning
    <3>2. FileIsKnown' /\ EventsAreTrue'
      BY <1>1, <2>1, <2>2, <3>1 DEF Knowing, FileIsKnown, Replaced, EventsAreTrue
    <3>3. SnapshotIsTrue'
      BY <1>1, <2>1, <2>2, <3>1 DEF Knowing, SnapshotIsTrue
    <3>4. PlaybacksAreOwn'
      BY <1>1, <2>1, <2>3, <3>1 DEF Knowing, PlaybacksAreOwn, Own
    <3>5. StoreIsOwn'
      <4>1. Own(c)
        BY <2>1, <3>1 DEF Knowing, PlaybacksAreOwn
      <4>2. store \in [Episodes -> Entry]
        BY DEF Typed, TypeOK, SessionTypes
      <4>3. e.of = c.of /\ e.completed = (store[c.ep].completed \/ c.completed)
        OBVIOUS
      <4> HIDE DEF e
      <4>4. ASSUME NEW ep \in Episodes
            PROVE  store'[ep].of = ep /\ (~blurred' /\ store'[ep].completed => ep \in reached')
        <5>1. store[ep].of = ep /\ (~blurred /\ store[ep].completed => ep \in reached)
          BY <3>1 DEF Knowing, StoreIsOwn
        <5>2. store'[ep] = IF ep = c.ep THEN e ELSE store[ep]
          BY <2>1, <4>2
        <5> QED
          BY <1>1, <2>1, <4>1, <4>3, <5>1, <5>2 DEF Own
      <4> QED
        BY <4>4 DEF StoreIsOwn
    <3> QED
      BY <3>2, <3>3, <3>4, <3>5 DEF Knowing
  <2> QED
    BY <1>1, <2>4, <2>5 DEF Earning
<1>9. CASE Saved(t)
  <2> DEFINE c == capture[t]
  <2>1. /\ UNCHANGED <<store>> /\ Goto(t, AfterCheckpoint(t)) /\ Holding(t)
        /\ capture' = [capture EXCEPT ![t] = NoCapture]
        /\ tracked' = [tracked EXCEPT !.completed = @ \/ c.completed]
        /\ blurred' = (blurred \/ (c.completed /\ c.owner # tracked.owner))
    BY <1>9 DEF Saved, Holding
  <2>2. /\ pc'["op"] = "commit" <=> pc["op"] = "commit"
        /\ pc["op"] = "loading" => pc'["op"] = "loading"
        /\ \A u \in Threads : pc'[u] = IF u = t THEN AfterCheckpoint(t) ELSE pc[u]
    BY <1>1, <1>4, <2>1, GoesOn
  <2>3. \A u \in Threads : Holding(u)' => Holding(u) /\ capture'[u] = capture[u]
    <3>1. \A u \in Threads : u # t => capture'[u] = capture[u]
      BY <2>1 DEF Typed, TypeOK, SessionTypes
    <3> QED
      BY <1>4, <2>2, <3>1 DEF Holding
  <2>4. /\ tracked'.ep = tracked.ep /\ tracked'.owner = tracked.owner /\ tracked'.of = tracked.of
        /\ tracked'.pos = tracked.pos /\ tracked'.completed = (tracked.completed \/ c.completed)
    BY <2>1 DEF Typed, TypeOK, SessionTypes, Playback
  <2>5. Targets' /\ Owners'
    BY <1>1, <1>2, <2>2, <2>3, <2>4 DEF Earning, Targets, Owners
  <2>6. ASSUME ~strayed PROVE Knowing'
    <3>1. Knowing /\ Own(c) /\ Own(tracked)
      BY <2>1, <2>6 DEF Earning, Knowing, PlaybacksAreOwn
    <3>2. ~blurred' => ~blurred /\ (c.completed => c.ep = tracked.ep)
      BY <2>1 DEF Earning, Owners
    <3>3. FileIsKnown' /\ EventsAreTrue'
      BY <1>1, <2>2, <2>4, <3>1 DEF Knowing, FileIsKnown, Replaced, EventsAreTrue
    <3>4. SnapshotIsTrue'
      BY <1>1, <1>4, <2>2, <2>4, <3>1 DEF Knowing, SnapshotIsTrue
    <3>5. Own(tracked)'
      BY <1>1, <2>4, <3>1, <3>2 DEF Own
    <3>6. PlaybacksAreOwn'
      BY <1>1, <2>3, <3>1, <3>2, <3>5 DEF Knowing, PlaybacksAreOwn, Own
    <3>7. StoreIsOwn'
      BY <1>1, <2>1, <3>1, <3>2 DEF Knowing, StoreIsOwn
    <3> QED
      BY <3>3, <3>4, <3>6, <3>7 DEF Knowing
  <2> QED
    BY <1>1, <2>5, <2>6 DEF Earning
<1> QED
  BY <1>5, <1>6, <1>7, <1>8, <1>9 DEF Checkpoint

LEMMA ForwardedMembers ==
  ASSUME rawEvents \in Seq(Event), Len(rawEvents) <= EventCap, NEW event \in Event,
         NEW i \in DOMAIN Forwarded(event)
  PROVE  Forwarded(event)[i] = event \/ \E j \in DOMAIN rawEvents : Forwarded(event)[i] = rawEvents[j]
<1>1. Len(rawEvents) \in Nat /\ DOMAIN rawEvents = 1..Len(rawEvents)
  OBVIOUS
<1> HIDE DEF Event
<1>2. CASE Forwarded(event) = rawEvents
  BY <1>2
<1>3. CASE Forwarded(event) = Append(rawEvents, event)
  BY <1>1, <1>3
<1>4. CASE rawEvents # <<>> /\ Forwarded(event) = Append(Tail(rawEvents), event)
  <2>1. /\ Tail(rawEvents) \in Seq(Event) /\ Len(Tail(rawEvents)) = Len(rawEvents) - 1
        /\ \A k \in 1..(Len(rawEvents) - 1) : Tail(rawEvents)[k] = rawEvents[k + 1]
    BY <1>4
  <2>2. i \in 1..Len(rawEvents) /\ (i # Len(rawEvents) => i + 1 \in DOMAIN rawEvents)
    BY <1>1, <1>4, <2>1
  <2> QED
    BY <1>1, <1>4, <2>1, <2>2
<1>5. CASE Len(rawEvents) < EventCap
  BY <1>3, <1>5 DEF Forwarded
<1>6. CASE ~(Len(rawEvents) < EventCap)
  <2>1. rawEvents # <<>> /\ Len(rawEvents) >= EventCap
    BY <1>1, <1>6, TrackingAssumption
  <2>2. CASE event.kind = "progress"
    BY <1>2, <1>6, <2>1, <2>2 DEF Forwarded
  <2>3. CASE event.kind # "progress"
    BY <1>4, <1>6, <2>1, <2>3 DEF Forwarded
  <2> QED
    BY <2>2, <2>3
<1> QED
  BY <1>5, <1>6

LEMMA PlayerEarning ==
  ASSUME Typed, Earning, Play \/ \E kind \in Kinds : Emit(kind)
  PROVE  Earning'
<1> USE DEF stateVars, threadVars, historyVars
<1>1. UNCHANGED <<current, replaced, deaf, tracked, store, blurred, strayed, pending, op, capture,
                  snapshot, pc>>
  BY DEF Play, Emit
<1>2. file \in [ep : Episodes, pos : Positions, over : BOOLEAN] /\ rawEvents \in Seq(Event)
      /\ Len(rawEvents) <= EventCap /\ current \in Episodes
  BY DEF Typed, TypeOK, PlayerTypes
<1>3. Targets' /\ Owners'
  BY <1>1 DEF Earning, Targets, Owners, Holding
<1>4. ASSUME ~strayed PROVE Knowing'
  <2>1. Knowing
    BY <1>4 DEF Earning
  <2>2. reached \subseteq reached'
    BY DEF Play, Emit
  <2>3. PlaybacksAreOwn' /\ StoreIsOwn'
    BY <1>1, <2>1, <2>2 DEF Knowing, PlaybacksAreOwn, StoreIsOwn, Own, Holding
  <2>4. SnapshotIsTrue'
    BY <1>1, <2>1, <2>2 DEF Knowing, SnapshotIsTrue
  <2>5. file'.ep = file.ep /\ (ThresholdReached(file'.pos) => file'.ep \in reached')
    <3>1. CASE Play
      <4>1. /\ file' = [file EXCEPT !.pos = @ + 1] /\ file.pos < Late
            /\ reached' = IF file.pos + 1 = Late THEN reached \cup {file.ep} ELSE reached
        BY <3>1 DEF Play
      <4>2. file'.ep = file.ep /\ file'.pos = file.pos + 1
        BY <1>2, <4>1
      <4>3. file.pos \in Int /\ Late \in Int
        BY <1>2, TrackingAssumption DEF Positions
      <4> QED
        BY <4>1, <4>2, <4>3 DEF ThresholdReached
    <3>2. CASE \E kind \in Kinds : Emit(kind)
      BY <1>2, <2>1, <3>2 DEF Emit, Knowing, FileIsKnown
    <3> QED
      BY <3>1, <3>2
  <2>6. FileIsKnown'
    BY <1>1, <2>1, <2>5 DEF Knowing, FileIsKnown, Replaced
  <2>7. EventsAreTrue'
    <3>1. CASE Play
      BY <2>1, <2>2, <3>1 DEF Play, Knowing, EventsAreTrue
    <3>2. ASSUME NEW kind \in Kinds, Emit(kind) PROVE EventsAreTrue'
      <4> DEFINE event == [ep |-> current, kind |-> kind, pos |-> file.pos]
      <4>1. event \in Event /\ event.ep = current /\ event.kind = kind /\ event.pos = file.pos
        BY <1>2 DEF Event
      <4>2. rawEvents' = Forwarded(event) /\ reached' = reached /\ ~loading
            /\ (kind = "ended" => file.pos = Late)
        BY <3>2 DEF Emit
      <4> HIDE DEF event
      <4>3. current = file.ep
        BY <2>1, <4>2 DEF Knowing, FileIsKnown, Replaced, Earning, Targets, Typed, TypeOK, Sections
      <4>4. kind = "ended" \/ ThresholdReached(file.pos) => current \in reached
        <5>1. ThresholdReached(Late)
          BY TrackingAssumption DEF ThresholdReached
        <5> QED
          BY <2>1, <4>2, <4>3, <5>1 DEF Knowing, FileIsKnown
      <4>5. ASSUME NEW i \in DOMAIN rawEvents'
            PROVE  rawEvents'[i] = event \/ \E j \in DOMAIN rawEvents : rawEvents'[i] = rawEvents[j]
        BY <1>2, <4>1, <4>2, ForwardedMembers
      <4> QED
        BY <2>1, <4>1, <4>2, <4>4, <4>5 DEF Knowing, EventsAreTrue
    <3> QED
      BY <3>1, <3>2
  <2> QED
    BY <2>3, <2>4, <2>6, <2>7 DEF Knowing
<1> QED
  BY <1>1, <1>3, <1>4 DEF Earning

\* What an event of its own episode leaves of a playback.
LEMMA AppliedIsOwn ==
  ASSUME NEW playback \in Playback, NEW event \in Event, Own(playback), event.ep = playback.ep,
         event.kind = "ended" \/ ThresholdReached(event.pos) => event.ep \in reached
  PROVE  /\ Own(Applied(playback, event)) /\ Applied(playback, event).ep = playback.ep
         /\ Applied(playback, event).owner = playback.owner
<1> DEFINE completed == playback.completed \/ event.kind = "ended" \/ ThresholdReached(event.pos)
           p == Applied(playback, event)
<1>1. /\ p.ep = playback.ep /\ p.owner = playback.owner /\ p.of = event.ep /\ p.pos = event.pos
      /\ p.completed = completed
  BY DEF Applied, Playback
<1>2. Own(p)
  <2> HIDE DEF p
  <2>1. p.of = p.ep
    BY <1>1
  <2>2. ~blurred /\ (p.completed \/ ThresholdReached(p.pos)) => p.ep \in reached
    BY <1>1 DEF Own
  <2> QED
    BY <2>1, <2>2 DEF Own
<1> QED
  BY <1>1, <1>2

LEMMA RunEarning ==
  ASSUME Typed, Earning, Tick \/ Run
  PROVE  Earning'
<1> USE DEF stateVars, playerVars, historyVars, ObserveUnchanged, RunUnchanged
<1>0. rawEvents # <<>> => Head(rawEvents) \in Event /\ Head(rawEvents) = rawEvents[1] /\ 1 \in DOMAIN rawEvents
  <2> HIDE DEF Event
  <2>1. rawEvents \in Seq(Event) /\ Len(rawEvents) <= EventCap
    BY DEF Typed, TypeOK, PlayerTypes
  <2> QED
    BY <2>1, TakenType
<1>2. ~ThresholdReached(op.start) /\ (replaced => pc["op"] = "loading")
  BY DEF Earning, Targets
<1>3. CASE Tick \/ ObserveNothing \/ EventsClosed \/ Stopped \/ ExitRun
  <2>1. /\ UNCHANGED <<file, current, replaced, deaf, reached, tracked, store, blurred, strayed, pending,
                       op, capture, snapshot>>
        /\ rawEvents' = rawEvents \/ (rawEvents # <<>> /\ rawEvents' = Tail(rawEvents))
    BY <1>3 DEF Tick, ObserveNothing, EventsClosed, Stopped, ExitRun
  <2>2. /\ pc'["op"] = pc["op"]
        /\ \A u \in Threads : pc'[u] \in {"saving", "saved", "snapped"} => pc'[u] = pc[u]
    BY <1>3 DEF Tick, ObserveNothing, EventsClosed, Stopped, ExitRun, Goto, Typed, Phases, Threads
  <2> QED
    BY <1>2, <2>1, <2>2, EarningStays DEF Holding
<1>4. CASE Checkpoint("run")
  BY <1>4, CheckpointEarning DEF Threads
<1>5. CASE ObservePending
  <2> DEFINE event == Head(rawEvents)
  <2>1. /\ UNCHANGED <<file, current, replaced, deaf, reached, tracked, store, blurred, strayed,
                       op, capture, snapshot, pc>>
        /\ rawEvents # <<>> /\ rawEvents' = Tail(rawEvents)
        /\ pending # None /\ event.ep = pending.playback.ep /\ event \in Event
        /\ pending' # None /\ pending'.playback = Applied(pending.playback, event)
    BY <1>0, <1>5, NotNone DEF ObservePending, ForPending
  <2>2. pending.playback \in Playback
    BY <2>1 DEF Typed, TypeOK, SessionTypes
  <2>3. /\ pending'.playback.ep = pending.playback.ep
        /\ pending'.playback.owner = pending.playback.owner
    <3> HIDE DEF event
    <3> QED
      BY <2>1, <2>2 DEF Applied, Playback
  <2>4. Targets' /\ Owners'
    BY <2>1, <2>3 DEF Earning, Targets, Owners, Holding
  <2>5. ASSUME ~strayed PROVE Knowing'
    <3>1. Knowing
      BY <2>5 DEF Earning
    <3>2. event.kind = "ended" \/ ThresholdReached(event.pos) => event.ep \in reached
      BY <1>0, <2>1, <3>1 DEF Knowing, EventsAreTrue
    <3> HIDE DEF event
    <3>3. Own(Applied(pending.playback, event))
      BY <2>1, <2>2, <3>1, <3>2, AppliedIsOwn DEF Knowing, PlaybacksAreOwn
    <3>4. PlaybacksAreOwn'
      BY <2>1, <3>1, <3>3 DEF Knowing, PlaybacksAreOwn, Own, Holding
    <3>5. EventsAreTrue'
      BY <2>1, <3>1, EventsLeft DEF Knowing
    <3>6. FileIsKnown' /\ SnapshotIsTrue' /\ StoreIsOwn'
      BY <2>1, <3>1 DEF Knowing, FileIsKnown, Replaced, SnapshotIsTrue, StoreIsOwn
    <3> QED
      BY <3>4, <3>5, <3>6 DEF Knowing
  <2> QED
    BY <2>1, <2>4, <2>5 DEF Earning
<1>6. CASE ObserveCurrent
  <2> DEFINE event == Head(rawEvents)
  <2>1. /\ UNCHANGED <<file, current, replaced, deaf, reached, pending, store, blurred, strayed,
                       op, capture, snapshot>>
        /\ rawEvents # <<>> /\ rawEvents' = Tail(rawEvents)
        /\ event.ep = tracked.ep /\ event \in Event /\ tracked' = Applied(tracked, event)
    BY <1>0, <1>6 DEF ObserveCurrent, ForCurrent
  <2>2. tracked \in Playback
    BY DEF Typed, TypeOK, SessionTypes
  <2>3. /\ pc'["op"] = pc["op"]
        /\ \A u \in Threads : pc'[u] \in {"saving", "saved"} => pc'[u] = pc[u]
        /\ \A u \in Threads : pc'[u] = "snapped" => pc'[u] = pc[u]
    BY <1>6 DEF ObserveCurrent, Goto, Typed, Phases, Threads
  <2>4. tracked'.ep = tracked.ep /\ tracked'.owner = tracked.owner
    <3> HIDE DEF event
    <3> QED
      BY <2>1, <2>2 DEF Applied, Playback
  <2>5. Targets' /\ Owners'
    BY <2>1, <2>3, <2>4 DEF Earning, Targets, Owners, Holding
  <2>6. ASSUME ~strayed PROVE Knowing'
    <3>1. Knowing
      BY <2>6 DEF Earning
    <3>2. event.kind = "ended" \/ ThresholdReached(event.pos) => event.ep \in reached
      BY <1>0, <2>1, <3>1 DEF Knowing, EventsAreTrue
    <3> HIDE DEF event
    <3>3. Own(Applied(tracked, event))
      BY <2>1, <2>2, <3>1, <3>2, AppliedIsOwn DEF Knowing, PlaybacksAreOwn
    <3>4. PlaybacksAreOwn'
      BY <2>1, <2>3, <3>1, <3>3 DEF Knowing, PlaybacksAreOwn, Own, Holding
    <3>5. EventsAreTrue'
      BY <2>1, <3>1, EventsLeft DEF Knowing
    <3>6. FileIsKnown' /\ StoreIsOwn'
      BY <2>1, <2>3, <2>4, <3>1 DEF Knowing, FileIsKnown, Replaced, StoreIsOwn
    <3>7. SnapshotIsTrue'
      BY <2>1, <2>3, <2>4, <3>1 DEF Knowing, SnapshotIsTrue
    <3> QED
      BY <3>4, <3>5, <3>6, <3>7 DEF Knowing
  <2> QED
    BY <2>1, <2>5, <2>6 DEF Earning
<1> QED
  BY <1>3, <1>4, <1>5, <1>6 DEF Run

LEMMA OperationEarning ==
  ASSUME Typed, Earning,
         \/ \E e \in Episodes : BeginOp("switch", e)
         \/ BeginOp("snapshot", First)
         \/ Operation
  PROVE  Earning'
<1> USE DEF playerVars, stateVars, historyVars, OpUnchanged
<1>1. ~ThresholdReached(0)
  BY TrackingAssumption DEF ThresholdReached
<1>2. /\ ~ThresholdReached(op.start) /\ (replaced => pc["op"] = "loading")
      /\ op \in [kind : {"none", "switch", "snapshot"}, phase : 0..3, target : Episodes, start : Positions]
      /\ pending # None <=> pc["op"] \in {"loading", "commit", "discard"}
  BY DEF Earning, Targets, Typed, TypeOK, SessionTypes, Sections
<1>3. ASSUME NEW where, Goto("op", where)
      PROVE  pc'["op"] = where /\ \A u \in Threads \ {"op"} : pc'[u] = pc[u]
  BY <1>3 DEF Goto, Typed, Phases, Threads
<1>4. ASSUME NEW where, Goto("op", where), where \notin {"commit", "saving", "saved", "snapped"},
             pc["op"] # "commit", replaced => where = "loading",
             UNCHANGED <<file, current, replaced, deaf, reached, tracked, store, blurred, strayed,
                         capture, snapshot, rawEvents>>,
             pending' \in {pending, None},
             ~ThresholdReached(op'.start), op'.target = op.target \/ (pending' = None /\ ~replaced)
      PROVE  Earning'
  <2>1. pc'["op"] = where /\ \A u \in Threads \ {"op"} : pc'[u] = pc[u]
    BY <1>3, <1>4
  <2>2. \A u \in Threads : pc'[u] \in {"saving", "saved", "snapped"} => pc'[u] = pc[u]
    BY <1>4, <2>1
  <2> QED
    BY <1>2, <1>4, <2>1, <2>2, EarningStays DEF Holding
<1>5. ASSUME NEW kind, NEW target, BeginOp(kind, target) PROVE Earning'
  BY <1>1, <1>2, <1>4, <1>5 DEF BeginOp
<1>6. CASE Refresh("op") \/ Checkpoint("op")
  BY <1>6, RefreshEarning, CheckpointEarning DEF Threads
<1>7. CASE Resolve
  <2>1. PICK start \in {0, ResumePosition(op.target)} : op' = [op EXCEPT !.phase = 2, !.start = start]
    BY <1>7 DEF Resolve
  <2>2. ~ThresholdReached(start)
    BY <1>1, <2>1 DEF ResumePosition
  <2>3. op'.start = start /\ op'.target = op.target
    BY <1>2, <2>1
  <2> QED
    BY <1>2, <1>4, <1>7, <2>2, <2>3 DEF Resolve, CheckpointAgain
<1>8. CASE ResolveFails
  BY <1>2, <1>4, <1>8 DEF ResolveFails
<1>9. CASE Discard
  BY <1>2, <1>4, <1>9 DEF Discard
<1>10. CASE EndOp
  BY <1>1, <1>2, <1>4, <1>10 DEF EndOp, NoOp
<1>11. CASE BeginPending
  <2> DEFINE p == NewPlayback(op.target, op.start, tracked.owner + 1)
  <2>1. /\ UNCHANGED <<file, current, replaced, deaf, reached, tracked, store, blurred, strayed,
                       capture, snapshot, rawEvents, op>>
        /\ pc["op"] = "begin" /\ pending' # None /\ pending'.playback = p
    BY <1>11, NotNone DEF BeginPending
  <2>2. /\ pc'["op"] \in {"discard", "loading"} /\ \A u \in Threads \ {"op"} : pc'[u] = pc[u]
        /\ \A u \in Threads : pc'[u] \in {"saving", "saved"} => pc'[u] = pc[u]
        /\ \A u \in Threads : pc'[u] = "snapped" => pc'[u] = pc[u]
    BY <1>3, <1>11 DEF BeginPending
  <2>3. /\ p.ep = op.target /\ p.of = op.target /\ p.owner = tracked.owner + 1 /\ tracked.owner \in Nat
        /\ p.pos = op.start /\ p.completed = FALSE
    BY DEF NewPlayback, Typed, TypeOK, SessionTypes, Playback
  <2> HIDE DEF p
  <2>4. Targets' /\ Owners'
    BY <1>2, <2>1, <2>2, <2>3 DEF Earning, Targets, Owners, Holding
  <2>5. ASSUME ~strayed PROVE Knowing'
    <3>1. Knowing
      BY <2>5 DEF Earning
    <3>2. FileIsKnown' /\ EventsAreTrue' /\ StoreIsOwn'
      BY <2>1, <2>2, <3>1 DEF Knowing, FileIsKnown, Replaced, EventsAreTrue, StoreIsOwn
    <3>3. SnapshotIsTrue'
      BY <2>1, <2>2, <3>1 DEF Knowing, SnapshotIsTrue
    <3>4. PlaybacksAreOwn'
      BY <1>2, <2>1, <2>2, <2>3, <3>1 DEF Knowing, PlaybacksAreOwn, Own, Holding
    <3> QED
      BY <3>2, <3>3, <3>4 DEF Knowing
  <2> QED
    BY <2>1, <2>4, <2>5 DEF Earning
<1>12. CASE EngineReplaces
  <2>1. /\ UNCHANGED <<current, deaf, reached, tracked, pending, store, blurred, strayed,
                       capture, snapshot, rawEvents, op, pc>>
        /\ pc["op"] = "loading" /\ replaced' = TRUE
        /\ file' = [ep |-> op.target, pos |-> op.start, over |-> FALSE]
    BY <1>12 DEF EngineReplaces
  <2>2. Targets' /\ Owners'
    BY <2>1 DEF Earning, Targets, Owners, Holding
  <2>3. ASSUME ~strayed PROVE Knowing'
    <3>1. Knowing
      BY <2>3 DEF Earning
    <3>2. FileIsKnown'
      BY <1>2, <2>1, <3>1 DEF Knowing, FileIsKnown, Replaced
    <3>3. EventsAreTrue' /\ StoreIsOwn' /\ SnapshotIsTrue'
      BY <2>1, <3>1 DEF Knowing, EventsAreTrue, StoreIsOwn, SnapshotIsTrue
    <3>4. PlaybacksAreOwn'
      BY <2>1, <3>1 DEF Knowing, PlaybacksAreOwn, Own, Holding
    <3> QED
      BY <3>2, <3>3, <3>4 DEF Knowing
  <2> QED
    BY <2>1, <2>2, <2>3 DEF Earning
<1>13. CASE LoadSucceeds
  <2>1. /\ UNCHANGED <<file, reached, tracked, pending, store, blurred, strayed,
                       capture, snapshot, rawEvents, op>>
        /\ pc["op"] = "loading" /\ replaced /\ ~replaced' /\ ~deaf' /\ current' = op.target
        /\ Goto("op", "commit")
    BY <1>13 DEF LoadSucceeds
  <2>2. /\ pc'["op"] = "commit" /\ \A u \in Threads \ {"op"} : pc'[u] = pc[u]
        /\ \A u \in Threads : pc'[u] \in {"saving", "saved"} => pc'[u] = pc[u]
        /\ \A u \in Threads : pc'[u] = "snapped" => pc'[u] = pc[u]
    BY <1>3, <2>1
  <2>3. Targets' /\ Owners'
    BY <2>1, <2>2 DEF Earning, Targets, Owners, Holding
  <2>4. ASSUME ~strayed PROVE Knowing'
    <3>1. Knowing
      BY <2>4 DEF Earning
    <3>2. FileIsKnown'
      BY <2>1, <2>2, <3>1 DEF Knowing, FileIsKnown, Replaced
    <3>3. EventsAreTrue' /\ StoreIsOwn'
      BY <2>1, <3>1 DEF Knowing, EventsAreTrue, StoreIsOwn
    <3>4. SnapshotIsTrue'
      BY <2>1, <2>2, <3>1 DEF Knowing, SnapshotIsTrue
    <3>5. PlaybacksAreOwn'
      BY <2>1, <2>2, <3>1 DEF Knowing, PlaybacksAreOwn, Own, Holding
    <3> QED
      BY <3>2, <3>3, <3>4, <3>5 DEF Knowing
  <2> QED
    BY <2>1, <2>3, <2>4 DEF Earning
\* A load that strayed leaves nothing to show; one that did not has left the old file.
<1>14. CASE LoadFails
  <2>1. /\ UNCHANGED <<file, current, reached, tracked, pending, store, blurred,
                       capture, snapshot, rawEvents, op>>
        /\ pc["op"] = "loading" /\ replaced' = FALSE /\ deaf' = (deaf \/ replaced)
        /\ strayed' = (strayed \/ replaced) /\ Goto("op", "discard")
    BY <1>14 DEF LoadFails
  <2>2. /\ pc'["op"] = "discard" /\ \A u \in Threads \ {"op"} : pc'[u] = pc[u]
        /\ \A u \in Threads : pc'[u] \in {"saving", "saved"} => pc'[u] = pc[u]
        /\ \A u \in Threads : pc'[u] = "snapped" => pc'[u] = pc[u]
    BY <1>3, <2>1
  <2>3. Targets' /\ Owners'
    BY <2>1, <2>2 DEF Earning, Targets, Owners, Holding
  <2>4. ASSUME ~strayed' PROVE Knowing'
    <3>1. Knowing /\ ~replaced
      BY <2>1, <2>4 DEF Earning
    <3>2. FileIsKnown'
      BY <2>1, <2>2, <3>1 DEF Knowing, FileIsKnown, Replaced
    <3>3. EventsAreTrue' /\ StoreIsOwn'
      BY <2>1, <3>1 DEF Knowing, EventsAreTrue, StoreIsOwn
    <3>4. SnapshotIsTrue'
      BY <2>1, <2>2, <3>1 DEF Knowing, SnapshotIsTrue
    <3>5. PlaybacksAreOwn'
      BY <2>1, <2>2, <3>1 DEF Knowing, PlaybacksAreOwn, Own, Holding
    <3> QED
      BY <3>2, <3>3, <3>4, <3>5 DEF Knowing
  <2> QED
    BY <2>3, <2>4 DEF Earning
<1>15. CASE Commit
  <2>1. /\ UNCHANGED <<file, current, replaced, deaf, reached, store, blurred, strayed,
                       capture, snapshot, rawEvents>>
        /\ pc["op"] = "commit" /\ pending # None /\ ~replaced
        /\ tracked' = pending.playback /\ pending' = None
        /\ op' = op \/ op' = [op EXCEPT !.phase = 3]
    BY <1>2, <1>15 DEF Commit
  <2>2. /\ pc'["op"] \in {"checkpoint", "end"} /\ \A u \in Threads \ {"op"} : pc'[u] = pc[u]
        /\ \A u \in Threads : pc'[u] \in {"saving", "saved"} => pc'[u] = pc[u]
        /\ \A u \in Threads : pc'[u] = "snapped" => pc'[u] = pc[u]
    BY <1>3, <1>15 DEF Commit
  <2>3. op'.target = op.target /\ op'.start = op.start
    BY <1>2, <2>1
  <2>4. /\ tracked'.ep = op.target /\ tracked'.owner > tracked.owner
        /\ tracked.owner \in Nat /\ tracked'.owner \in Nat
        /\ \A t \in Threads : capture[t].owner \in Nat
    BY <2>1 DEF Earning, Targets, Typed, TypeOK, SessionTypes, Playback
  <2>5. Targets'
    BY <1>2, <2>1, <2>3 DEF Targets
  <2>6. Owners'
    BY <2>1, <2>2, <2>4 DEF Earning, Owners, Holding
  <2>7. ASSUME ~strayed PROVE Knowing'
    <3>1. Knowing
      BY <2>7 DEF Earning
    <3>2. FileIsKnown' /\ EventsAreTrue' /\ StoreIsOwn'
      BY <2>1, <2>2, <2>3, <2>4, <3>1 DEF Knowing, FileIsKnown, Replaced, EventsAreTrue, StoreIsOwn
    \* Nobody else has a snapshot of the episode that was left.
    <3>3. SnapshotIsTrue'
      <4>1. \A u \in Threads \ {"run"} : pc'[u] # "snapped"
        BY <2>1, <2>2 DEF Typed, TypeOK, Sections, Phases, Working, Threads
      <4> QED
        BY <4>1 DEF SnapshotIsTrue
    <3>4. PlaybacksAreOwn'
      BY <2>1, <2>2, <3>1 DEF Knowing, PlaybacksAreOwn, Own, Holding
    <3> QED
      BY <3>2, <3>3, <3>4 DEF Knowing
  <2> QED
    BY <2>1, <2>5, <2>6, <2>7 DEF Earning
<1> QED
  BY <1>5, <1>6, <1>7, <1>8, <1>9, <1>10, <1>11, <1>12, <1>13, <1>14, <1>15 DEF Operation

LEMMA CloseEarning ==
  ASSUME Typed, Earning, BeginClose \/ Close
  PROVE  Earning'
<1> USE DEF playerVars, stateVars, historyVars, CloseUnchanged
<1>1. CASE Refresh("close") \/ Checkpoint("close")
  BY <1>1, RefreshEarning, CheckpointEarning DEF Threads
<1>2. CASE BeginClose \/ StopRun \/ Acquire \/ AcquireTimesOut \/ Release \/ RawClose \/ Join
  <2>1. /\ UNCHANGED <<file, current, replaced, deaf, reached, tracked, store, blurred, strayed, pending,
                       rawEvents, op, capture, snapshot>>
        /\ \E where \in {"stopping", "acquire", "refresh", "rawClose", "join", "checkpoint", "done"} :
             Goto("close", where)
    BY <1>2 DEF BeginClose, StopRun, Acquire, AcquireTimesOut, Release, RawClose, Join
  <2>2. /\ pc'["op"] = pc["op"]
        /\ \A u \in Threads : pc'[u] \in {"saving", "saved", "snapped"} => pc'[u] = pc[u]
    BY <2>1 DEF Goto, Typed, Phases, Threads
  <2>3. ~ThresholdReached(op.start) /\ (replaced => pc["op"] = "loading")
    BY DEF Earning, Targets
  <2> QED
    BY <2>1, <2>2, <2>3, EarningStays DEF Holding
<1> QED
  BY <1>1, <1>2 DEF Close

LEMMA NextEarning == Typed /\ Earning /\ [Next]_vars => Earning'
<1> SUFFICES ASSUME Typed, Earning, [Next]_vars PROVE Earning'
  OBVIOUS
<1>1. CASE UNCHANGED vars
  <2>1. UNCHANGED <<file, current, replaced, deaf, reached, tracked, store, blurred, strayed, pending,
                    rawEvents, op, capture, snapshot, pc>>
    BY <1>1 DEF vars, playerVars, stateVars, threadVars, historyVars
  <2>2. ~ThresholdReached(op.start) /\ (replaced => pc["op"] = "loading")
    BY DEF Earning, Targets
  <2> QED
    BY <2>1, <2>2, EarningStays DEF Holding
<1> QED
  BY <1>1, PlayerEarning, OperationEarning, RunEarning, CloseEarning DEF Next

LEMMA InitEarning == Init => Earning
<1> SUFFICES ASSUME Init PROVE Earning
  OBVIOUS
<1>1. ~ThresholdReached(0)
  BY TrackingAssumption DEF ThresholdReached
<1>2. /\ Own(tracked) /\ \A t \in Threads : ~Holding(t) /\ pc[t] # "snapped"
      /\ pc["op"] # "commit"
  BY <1>1 DEF Init, NewPlayback, Own, Holding, Threads
<1>3. Targets /\ Owners
  BY <1>1, <1>2 DEF Init, NoOp, Targets, Owners
<1>4. FileIsKnown /\ EventsAreTrue /\ SnapshotIsTrue /\ StoreIsOwn
  BY <1>1, <1>2 DEF Init, NewPlayback, FileIsKnown, Replaced, EventsAreTrue, SnapshotIsTrue, StoreIsOwn
<1>5. PlaybacksAreOwn
  BY <1>2 DEF Init, PlaybacksAreOwn
<1> QED
  BY <1>3, <1>4, <1>5 DEF Earning, Knowing

\* What the store says of an episode is of that episode, in every interleaving of
\* events, snapshots, loads and checkpoints, but for a load that was reported failed
\* after it took effect, and, of being completed, a checkpoint that outlived a switch.
THEOREM SavesAreEarned == Spec => []SavedIsEarned
<1>1. Typed /\ Earning => SavedIsEarned
  BY DEF Earning, Knowing, StoreIsOwn, SavedIsEarned, SavedForItsEpisode, CompletedIsEarned
<1> QED
  BY <1>1, InitTyped, InitEarning, NextTyped, NextEarning, PTL DEF Spec

=============================================================================
