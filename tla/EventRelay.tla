----------------------------- MODULE EventRelay -----------------------------
(***************************************************************************)
(* The relay that hands a tracked playback session's events to the window  *)
(* (core/playback_tracking.go, trackedEventRelay).                         *)
(*                                                                         *)
(* The producer publishes under the session's deliveryMu, so one at a      *)
(* time, first for one owner (one loaded episode) and then for the next.   *)
(* A terminal event (ended, stopped, failed) clears what is queued before  *)
(* it and jumps into a priority queue.  One goroutine feeds a channel of   *)
(* capacity one, sleeping on a wake token, until stop is closed.           *)
(***************************************************************************)
EXTENDS Naturals, Sequences, SequencesExt

CONSTANTS
  Capacity,      \* trackedEventQueueCapacity, of the queue and of priority
  MaxOwner,      \* bound: how many episodes the session loads
  MaxPublished   \* bound: how many events are published

ASSUME RelayAssumption == Capacity \in Nat \ {0}

Progress == "progress"
Boundary == "boundary"   \* playing, paused, ...: neither progress nor terminal
Terminal == "terminal"   \* isTerminalPlaybackEvent
Kinds    == {Progress, Boundary, Terminal}

Event       == [owner : Nat, kind : Kinds, n : Nat]
QueuedEvent == [owner : Nat, kind : {Progress, Boundary}, n : Nat]
EndingEvent == [owner : Nat, kind : {Terminal}, n : Nat]

RelayStates == {"top", "sendPriority", "check", "sendQueued", "idle", "done"}

VARIABLES
  queue,             \* non-terminal events waiting
  priority,          \* terminal events waiting
  lastTerminalOwner, \* 0 while terminalSeen is false
  queueGeneration,   \* counts the times a terminal cleared the queue
  wake,              \* the token in the wake channel
  stop,              \* the stop channel is closed
  shut,              \* shutdown was called
  events,            \* the buffered channel the window reads
  relayPc,           \* where run is
  held,              \* the event run dequeued, <<>> or one event
  heldGeneration,    \* queueGeneration when it was dequeued
  owner,             \* the owner the producer publishes for
  waking,            \* the producer released mu and is about to wake run
  published,         \* history: number of calls of publish
  delivered          \* history: what the window has read

producerVars == <<owner, published>>
relayVars    == <<relayPc, held, heldGeneration>>
vars == <<queue, priority, lastTerminalOwner, queueGeneration, wake, stop,
          shut, events, relayPc, held, heldGeneration, owner, waking,
          published, delivered>>

\* There is room for one more event in a queue.
HasRoom(q) == Len(q) < Capacity

Init ==
  /\ queue = <<>>
  /\ priority = <<>>
  /\ lastTerminalOwner = 0
  /\ queueGeneration = 0
  /\ wake = FALSE
  /\ stop = FALSE
  /\ shut = FALSE
  /\ events = <<>>
  /\ relayPc = "top"
  /\ held = <<>>
  /\ heldGeneration = 0
  /\ owner = 1
  /\ waking = FALSE
  /\ published = 0
  /\ delivered = <<>>

-----------------------------------------------------------------------------
(* publish, from the lock of mu to its unlock.                             *)

\* Nothing more is relayed for an owner after its terminal event.
RelaysAlways == TRUE   \* fault: the check on the owner forgotten
Relays == lastTerminalOwner # owner

\* What a terminal event leaves of the queue.
ClearedQueue == <<>>

\* A call of publish, and the event it is called with.
Call ==
  /\ ~waking
  /\ published < MaxPublished
  /\ published' = published + 1
  /\ UNCHANGED <<wake, stop, shut, events, relayVars, owner, delivered>>

Incoming(kind) == [owner |-> owner, kind |-> kind, n |-> published + 1]

PublishIgnored ==
  /\ Call
  /\ ~Relays
  /\ UNCHANGED <<queue, priority, lastTerminalOwner, queueGeneration, waking>>

PublishTerminal ==
  /\ Call
  /\ Relays
  /\ lastTerminalOwner' = owner
  /\ queue' = ClearedQueue
  /\ queueGeneration' = queueGeneration + 1
  /\ priority' = IF HasRoom(priority)
                 THEN Append(priority, Incoming(Terminal)) ELSE priority
  /\ waking' = TRUE

\* The newest queued event is a progress event of the same owner.
Coalesces(kind) ==
  /\ kind = Progress
  /\ queue # <<>>
  /\ queue[Len(queue)].owner = owner
  /\ queue[Len(queue)].kind = Progress

FirstProgress(i) ==
  /\ i \in DOMAIN queue
  /\ queue[i].kind = Progress
  /\ \A j \in 1..(i - 1) : queue[j].kind # Progress

Enqueue(kind) ==
  \/ /\ Coalesces(kind)
     /\ queue' = [queue EXCEPT ![Len(queue)] = Incoming(kind)]
  \/ /\ ~Coalesces(kind)
     /\ HasRoom(queue)
     /\ queue' = Append(queue, Incoming(kind))
  \/ /\ ~Coalesces(kind)
     /\ ~HasRoom(queue)
     /\ \E i \in DOMAIN queue :
          /\ FirstProgress(i)
          /\ queue' = Append(RemoveAt(queue, i), Incoming(kind))

PublishQueued(kind) ==
  /\ Call
  /\ Relays
  /\ Enqueue(kind)
  /\ waking' = TRUE
  /\ UNCHANGED <<priority, lastTerminalOwner, queueGeneration>>

PublishRefused(kind) ==
  /\ Call
  /\ Relays
  /\ ~Coalesces(kind)
  /\ ~HasRoom(queue)
  /\ \A i \in DOMAIN queue : queue[i].kind # Progress
  /\ UNCHANGED <<queue, priority, lastTerminalOwner, queueGeneration, waking>>

Publish ==
  \/ PublishIgnored
  \/ PublishTerminal
  \/ \E kind \in {Progress, Boundary} : PublishQueued(kind) \/ PublishRefused(kind)

\* wakeRelay, after mu is released.
WakeRelay ==
  /\ waking
  /\ waking' = FALSE
  /\ wake' = TRUE
  /\ UNCHANGED <<queue, priority, lastTerminalOwner, queueGeneration, stop,
                 shut, events, relayVars, producerVars, delivered>>

\* The session commits a pending load; what it publishes next is for owner + 1.
NextOwner ==
  /\ ~waking
  /\ owner < MaxOwner
  /\ owner' = owner + 1
  /\ UNCHANGED <<queue, priority, lastTerminalOwner, queueGeneration, wake,
                 stop, shut, events, relayVars, waking, published, delivered>>

-----------------------------------------------------------------------------
(* run and deliverQueued.                                                  *)

UnchangedByRun ==
  UNCHANGED <<lastTerminalOwner, queueGeneration, stop, shut, owner, waking,
              published, delivered>>

TakePriority ==
  /\ relayPc = "top"
  /\ priority # <<>>
  /\ held' = <<Head(priority)>>
  /\ priority' = Tail(priority)
  /\ relayPc' = "sendPriority"
  /\ UNCHANGED <<queue, wake, events, heldGeneration>>
  /\ UnchangedByRun

TakeQueued ==
  /\ relayPc = "top"
  /\ priority = <<>>
  /\ queue # <<>>
  /\ held' = <<Head(queue)>>
  /\ queue' = Tail(queue)
  /\ heldGeneration' = queueGeneration
  /\ relayPc' = "check"
  /\ UNCHANGED <<priority, wake, events>>
  /\ UnchangedByRun

NoPriority == priority = <<>>   \* fault: the queue is not looked at
NothingToSend == priority = <<>> /\ queue = <<>>

Sleep ==
  /\ relayPc = "top"
  /\ NothingToSend
  /\ relayPc' = "idle"
  /\ UNCHANGED <<queue, priority, wake, events, held, heldGeneration>>
  /\ UnchangedByRun

Awake ==
  /\ relayPc = "idle"
  /\ wake
  /\ wake' = FALSE
  /\ relayPc' = "top"
  /\ UNCHANGED <<queue, priority, events, held, heldGeneration>>
  /\ UnchangedByRun

\* A select that finds room in the channel.
Send ==
  /\ relayPc \in {"sendPriority", "sendQueued"}
  /\ events = <<>>
  /\ events' = held
  /\ held' = <<>>
  /\ relayPc' = "top"
  /\ UNCHANGED <<queue, priority, wake, heldGeneration>>
  /\ UnchangedByRun

\* deliverQueued reads queueGeneration under mu, then enters its select.
CheckCleared ==
  /\ relayPc = "check"
  /\ IF heldGeneration # queueGeneration
     THEN relayPc' = "top" /\ held' = <<>>
     ELSE relayPc' = "sendQueued" /\ held' = held
  /\ UNCHANGED <<queue, priority, wake, events, heldGeneration>>
  /\ UnchangedByRun

Recheck ==
  /\ relayPc = "sendQueued"
  /\ wake
  /\ wake' = FALSE
  /\ relayPc' = "check"
  /\ UNCHANGED <<queue, priority, events, held, heldGeneration>>
  /\ UnchangedByRun

\* The selects that stop interrupts.
InterruptibleButPriority == {"sendQueued", "idle"}   \* fault
Interruptible == {"sendPriority", "sendQueued", "idle"}

\* A select that finds stop closed: run returns and closes the channel.
Exit ==
  /\ relayPc \in Interruptible
  /\ stop
  /\ relayPc' = "done"
  /\ held' = <<>>
  /\ UNCHANGED <<queue, priority, wake, events, heldGeneration>>
  /\ UnchangedByRun

Run == \/ TakePriority \/ TakeQueued \/ Sleep \/ Awake \/ Send
       \/ CheckCleared \/ Recheck \/ Exit

-----------------------------------------------------------------------------
(* The session that owns the relay, and the window that reads it.          *)

Stop ==
  /\ ~stop
  /\ stop' = TRUE
  /\ UNCHANGED <<queue, priority, lastTerminalOwner, queueGeneration, wake,
                 shut, events, relayVars, producerVars, waking, delivered>>

Shutdown ==
  /\ stop
  /\ ~shut
  /\ shut' = TRUE
  /\ wake' = TRUE
  /\ UNCHANGED <<queue, priority, lastTerminalOwner, queueGeneration, stop,
                 events, relayVars, producerVars, waking, delivered>>

Consume ==
  /\ events # <<>>
  /\ delivered' = Append(delivered, Head(events))
  /\ events' = <<>>
  /\ UNCHANGED <<queue, priority, lastTerminalOwner, queueGeneration, wake,
                 stop, shut, relayVars, producerVars, waking>>

Next == Publish \/ WakeRelay \/ NextOwner \/ Run \/ Stop \/ Shutdown \/ Consume

Spec == Init /\ [][Next]_vars

\* The relay's goroutines that can run do run; nobody is obliged to publish, to stop
\* or to read.
FairSpec == Spec /\ WF_vars(WakeRelay) /\ WF_vars(Run)

-----------------------------------------------------------------------------
(* Properties.                                                             *)

AtMostOne(s) == Len(s) <= 1

\* The relay's queues stay within their capacity, run holds at most one event,
\* and it holds one exactly while it has one to hand over.
TypeOK ==
  /\ queue \in Seq(QueuedEvent)
  /\ Len(queue) <= Capacity
  /\ priority \in Seq(EndingEvent)
  /\ Len(priority) <= Capacity
  /\ lastTerminalOwner \in Nat
  /\ queueGeneration \in Nat
  /\ wake \in BOOLEAN
  /\ stop \in BOOLEAN
  /\ shut \in BOOLEAN
  /\ events \in Seq(Event) /\ AtMostOne(events)
  /\ relayPc \in RelayStates
  /\ held \in Seq(Event) /\ AtMostOne(held)
  /\ (held # <<>>) <=> (relayPc \in {"sendPriority", "check", "sendQueued"})
  /\ heldGeneration \in Nat
  /\ owner \in Nat
  /\ waking \in BOOLEAN
  /\ published \in Nat
  /\ delivered \in Seq(Event)

\* The window reads events in the order they were published, none twice: the
\* priority queue, the cleared queue, coalescing and eviction never reorder.
InOrder ==
  \A i, j \in DOMAIN delivered : i < j => delivered[i].n < delivered[j].n

\* Once the window has read an episode's terminal event it reads nothing more
\* of that episode ("Nothing more is relayed for an owner after its terminal").
TerminalIsLast ==
  \A i, j \in DOMAIN delivered :
    (i < j /\ delivered[i].kind = Terminal)
      => delivered[j].owner # delivered[i].owner

\* What the window reads: each episode's events in their order, the terminal one last.
DeliveredInOrder == TypeOK /\ InOrder /\ TerminalIsLast

\* run never sleeps, with no wake token there or on its way, over an event.
NoLostWakeup ==
  (relayPc = "idle" /\ ~wake /\ ~waking) => queue = <<>> /\ priority = <<>>

\* A terminal event in the priority queue reaches a window that keeps reading,
\* unless the session stops: the window learns that its episode is over.
TerminalReachesWindow ==
  WF_vars(Consume) =>
    \A o \in 1..MaxOwner :
      (\E i \in DOMAIN priority : priority[i].owner = o)
        ~> (stop \/ \E i \in DOMAIN delivered :
                      delivered[i].owner = o /\ delivered[i].kind = Terminal)

\* Closing never waits for a window that stopped reading: run ends although nobody
\* takes what it has to send.
StopEndsRelay == stop ~> relayPc = "done"

\* No end is missed and no closing hangs, at either end of the relay.
RelayEnds == TerminalReachesWindow /\ StopEndsRelay
=============================================================================
