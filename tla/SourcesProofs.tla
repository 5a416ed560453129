---------------------------- MODULE SourcesProofs -----------------------------
(***************************************************************************)
(* What the event relay hands over, what the anime1 source answers and     *)
(* which metadata record is taken, for every capacity and limit and any    *)
(* number of events, posts and works.                                      *)
(*                                                                         *)
(* The relay: everything published and not dropped sits in one pipeline,   *)
(* delivered - events - held - priority - queue, whose event numbers       *)
(* increase from its oldest end to its newest; and nothing in it is newer  *)
(* than a terminal event of its own owner.                                 *)
(*                                                                         *)
(* The source: what a call has gathered is the first page's archive up to  *)
(* some post, and the next page begins no later than behind that post; or  *)
(* new posts have pushed an episode it has onto a page to come, and it can *)
(* only fail.                                                              *)
(*                                                                         *)
(* The match: no record is named twice, so that the ranking of what is     *)
(* named has one top, wherever in the list that is; and no record of       *)
(* another work is so far ahead of one of the anime's own that it is sure. *)
(***************************************************************************)
EXTENDS EventRelay, Anime1, Matching, SequenceTheorems, FiniteSetTheorems, WellFoundedInduction, TLAPS

Increasing(s) == \A i, j \in DOMAIN s : i < j => s[i].n < s[j].n
Members(s)    == {s[i] : i \in DOMAIN s}
Precedes(A, B)  == \A a \in A : \A b \in B : a.n < b.n

Pipeline == Members(delivered) \cup Members(events) \cup Members(held)
              \cup Members(priority) \cup Members(queue)

\* The pipeline holds what was published, for the owners there were.
Known == \A e \in Pipeline : e.n <= published /\ e.owner <= owner

Ordered ==
  /\ Increasing(delivered) /\ Increasing(priority) /\ Increasing(queue)
  /\ Precedes(Members(delivered), Members(events))
  /\ Precedes(Members(delivered), Members(held))
  /\ Precedes(Members(delivered), Members(priority))
  /\ Precedes(Members(delivered), Members(queue))
  /\ Precedes(Members(events), Members(held))
  /\ Precedes(Members(events), Members(priority))
  /\ Precedes(Members(events), Members(queue))
  /\ Precedes(Members(held), Members(priority))
  /\ Precedes(Members(held), Members(queue))
  /\ Precedes(Members(priority), Members(queue))

\* A terminal event is remembered in lastTerminalOwner, and is its owner's last.
Ends ==
  /\ lastTerminalOwner <= owner
  /\ \A t \in Pipeline : t.kind = Terminal =>
       /\ t.owner <= lastTerminalOwner
       /\ \A e \in Pipeline : e.owner = t.owner => e.n <= t.n

IInv == TypeOK /\ Known /\ Ordered /\ Ends

-----------------------------------------------------------------------------
(* Facts about the sequences the relay edits.                              *)

LEMMA AppendFacts ==
  ASSUME NEW S, NEW s \in Seq(S), NEW e \in S
  PROVE  /\ Append(s, e) \in Seq(S)
         /\ Len(Append(s, e)) = Len(s) + 1
         /\ \A i \in 1..Len(s) : Append(s, e)[i] = s[i]
         /\ Append(s, e)[Len(s) + 1] = e
  OBVIOUS

LEMMA TailFacts ==
  ASSUME NEW S, NEW s \in Seq(S), s # <<>>
  PROVE  /\ Tail(s) \in Seq(S)
         /\ Len(Tail(s)) = Len(s) - 1
         /\ \A i \in 1..(Len(s) - 1) : Tail(s)[i] = s[i + 1]
         /\ Head(s) = s[1] /\ 1 \in DOMAIN s /\ Head(s) \in S
  OBVIOUS

LEMMA RemoveAtFacts ==
  ASSUME NEW S, NEW s \in Seq(S), NEW i \in 1..Len(s)
  PROVE  /\ RemoveAt(s, i) \in Seq(S)
         /\ Len(RemoveAt(s, i)) = Len(s) - 1
         /\ \A j \in 1..(Len(s) - 1) :
              RemoveAt(s, i)[j] = IF j < i THEN s[j] ELSE s[j + 1]
<1> DEFINE a == SubSeq(s, 1, i - 1)
           b == SubSeq(s, i + 1, Len(s))
<1>1. a \in Seq(S) /\ Len(a) = i - 1 /\ \A j \in 1..(i - 1) : a[j] = s[j]
  BY SubSeqProperties
<1>2. /\ b \in Seq(S) /\ Len(b) = Len(s) - i
      /\ \A j \in 1..(Len(s) - i) : b[j] = s[i + j]
  BY SubSeqProperties
<1>3. RemoveAt(s, i) = a \o b
  BY DEF RemoveAt
<1> HIDE DEF a, b
<1>4. /\ a \o b \in Seq(S)
      /\ Len(a \o b) = Len(a) + Len(b)
      /\ \A j \in 1..(Len(a) + Len(b)) :
           (a \o b)[j] = IF j <= Len(a) THEN a[j] ELSE b[j - Len(a)]
  BY <1>1, <1>2, ConcatProperties, Zenon
<1> DEFINE c == a \o b
<1> HIDE DEF c
<1>5. Len(c) = Len(s) - 1 /\ Len(s) \in Nat
  BY <1>1, <1>2, <1>4 DEF c
<1>6. ASSUME NEW j \in 1..(Len(s) - 1)
      PROVE  c[j] = IF j < i THEN s[j] ELSE s[j + 1]
  <2>1. c[j] = IF j <= i - 1 THEN a[j] ELSE b[j - (i - 1)]
    BY <1>1, <1>4, <1>5, <1>2 DEF c
  <2>2. CASE j < i
    BY <2>1, <2>2, <1>1
  <2>3. CASE ~(j < i)
    BY <2>1, <2>3, <1>2, <1>5
  <2> QED
    BY <2>2, <2>3
<1> QED
  BY <1>3, <1>4, <1>5, <1>6 DEF c

-----------------------------------------------------------------------------
(* Type correctness.                                                       *)

\* Relaying starts with everything empty, which is well typed.
LEMMA InitTypeOK == Init => TypeOK
<1> SUFFICES ASSUME Init PROVE TypeOK
  OBVIOUS
<1>1. /\ queue \in Seq(QueuedEvent) /\ priority \in Seq(EndingEvent)
      /\ events \in Seq(Event) /\ held \in Seq(Event) /\ delivered \in Seq(Event)
      /\ Len(queue) <= Capacity /\ Len(priority) <= Capacity
      /\ AtMostOne(events) /\ AtMostOne(held)
  BY RelayAssumption DEF Init, AtMostOne
<1>2. (held # <<>>) <=> (relayPc \in {"sendPriority", "check", "sendQueued"})
  BY DEF Init
<1> QED
  BY <1>1, <1>2 DEF Init, TypeOK, RelayStates

LEMMA EventKinds ==
  /\ QueuedEvent \subseteq Event
  /\ EndingEvent \subseteq Event
  /\ \A e \in Event : e.owner \in Nat /\ e.n \in Nat
  /\ \A e \in QueuedEvent : e.kind # Terminal
  /\ \A e \in EndingEvent : e.kind = Terminal
  BY DEF Event, QueuedEvent, EndingEvent, Kinds, Progress, Boundary, Terminal

LEMMA OneEvent ==
  \A e \in Event : <<e>> \in Seq(Event) /\ AtMostOne(<<e>>) /\ <<e>> # <<>>
  BY DEF AtMostOne

LEMMA IncomingType ==
  ASSUME TypeOK
  PROVE  /\ Incoming(Terminal) \in EndingEvent
         /\ \A kind \in {Progress, Boundary} : Incoming(kind) \in QueuedEvent
  BY DEF TypeOK, Incoming, EndingEvent, QueuedEvent

\* The three ways publish edits the queue keep it a sequence of events, within
\* the capacity.
LEMMA EnqueueType ==
  ASSUME TypeOK, NEW kind \in {Progress, Boundary}, Enqueue(kind)
  PROVE  queue' \in Seq(QueuedEvent) /\ Len(queue') <= Capacity
<1> DEFINE e == Incoming(kind)
<1>1. /\ e \in QueuedEvent /\ queue \in Seq(QueuedEvent)
      /\ Len(queue) \in Nat /\ Len(queue) <= Capacity /\ Capacity \in Nat
  BY IncomingType, RelayAssumption DEF TypeOK
<1> HIDE DEF e
<1>2. CASE queue # <<>> /\ queue' = [queue EXCEPT ![Len(queue)] = e]
  BY <1>1, <1>2
<1>3. CASE HasRoom(queue) /\ queue' = Append(queue, e)
  BY <1>1, <1>3 DEF HasRoom
<1>4. ASSUME NEW i \in DOMAIN queue, queue' = Append(RemoveAt(queue, i), e)
      PROVE  queue' \in Seq(QueuedEvent) /\ Len(queue') <= Capacity
  <2>1. i \in 1..Len(queue)
    BY <1>1
  <2>2. /\ RemoveAt(queue, i) \in Seq(QueuedEvent)
        /\ Len(RemoveAt(queue, i)) = Len(queue) - 1
    BY <1>1, <2>1, RemoveAtFacts
  <2> QED
    BY <1>1, <1>4, <2>2, AppendFacts
<1> QED
  BY <1>2, <1>3, <1>4 DEF Enqueue, Coalesces, e

LEMMA PublishTypeOK == TypeOK /\ Publish => TypeOK'
<1> SUFFICES ASSUME TypeOK, Publish PROVE TypeOK'
  OBVIOUS
<1>1. CASE PublishIgnored
  BY <1>1 DEF PublishIgnored, TypeOK, Call, relayVars
<1>2. CASE PublishTerminal
  <2>1. priority' \in Seq(EndingEvent) /\ Len(priority') <= Capacity
    BY <1>2, IncomingType, RelayAssumption, AppendFacts
    DEF TypeOK, PublishTerminal, HasRoom
  <2>2. queue' \in Seq(QueuedEvent) /\ Len(queue') <= Capacity
    BY <1>2, RelayAssumption DEF PublishTerminal, ClearedQueue
  <2> QED
    BY <1>2, <2>1, <2>2 DEF PublishTerminal, TypeOK, Call, relayVars
<1>3. ASSUME NEW kind \in {Progress, Boundary}, PublishQueued(kind)
      PROVE  TypeOK'
  BY <1>3, EnqueueType DEF PublishQueued, TypeOK, Call, relayVars
<1>4. ASSUME NEW kind \in {Progress, Boundary}, PublishRefused(kind)
      PROVE  TypeOK'
  BY <1>4 DEF PublishRefused, TypeOK, Call, relayVars
<1> QED
  BY <1>1, <1>2, <1>3, <1>4 DEF Publish

LEMMA RunTypeOK == TypeOK /\ Run => TypeOK'
<1> SUFFICES ASSUME TypeOK, Run PROVE TypeOK'
  OBVIOUS
<1> USE DEF TypeOK, UnchangedByRun, AtMostOne, RelayStates
<1>1. CASE TakePriority
  <2>1. /\ priority' \in Seq(EndingEvent) /\ Len(priority') <= Capacity
        /\ Head(priority) \in Event
    BY <1>1, TailFacts, EventKinds, RelayAssumption DEF TakePriority
  <2>2. held' \in Seq(Event) /\ AtMostOne(held') /\ held' # <<>>
    BY <1>1, <2>1, OneEvent DEF TakePriority
  <2> QED
    BY <1>1, <2>1, <2>2 DEF TakePriority
<1>2. CASE TakeQueued
  <2>1. /\ queue' \in Seq(QueuedEvent) /\ Len(queue') <= Capacity
        /\ Head(queue) \in Event
    BY <1>2, TailFacts, EventKinds, RelayAssumption DEF TakeQueued
  <2>2. held' \in Seq(Event) /\ AtMostOne(held') /\ held' # <<>>
    BY <1>2, <2>1, OneEvent DEF TakeQueued
  <2> QED
    BY <1>2, <2>1, <2>2 DEF TakeQueued
<1>3. CASE Sleep
  BY <1>3 DEF Sleep
<1>4. CASE Awake
  BY <1>4 DEF Awake
<1>5. CASE Send
  BY <1>5 DEF Send
<1>6. CASE CheckCleared
  <2>1. CASE heldGeneration # queueGeneration
    BY <1>6, <2>1 DEF CheckCleared
  <2>2. CASE heldGeneration = queueGeneration
    BY <1>6, <2>2 DEF CheckCleared
  <2> QED
    BY <2>1, <2>2
<1>7. CASE Recheck
  BY <1>7 DEF Recheck
<1>8. CASE Exit
  BY <1>8 DEF Exit, Interruptible
<1> QED
  BY <1>1, <1>2, <1>3, <1>4, <1>5, <1>6, <1>7, <1>8 DEF Run

LEMMA NextTypeOK == TypeOK /\ [Next]_vars => TypeOK'
<1> SUFFICES ASSUME TypeOK, [Next]_vars PROVE TypeOK'
  OBVIOUS
<1> USE DEF TypeOK, relayVars, producerVars
<1>1. CASE WakeRelay
  BY <1>1 DEF WakeRelay
<1>2. CASE NextOwner
  BY <1>2 DEF NextOwner
<1>3. CASE Stop
  BY <1>3 DEF Stop
<1>4. CASE Shutdown
  BY <1>4 DEF Shutdown
<1>5. CASE Consume
  BY <1>5, TailFacts, AppendFacts DEF Consume, AtMostOne
<1>6. CASE UNCHANGED vars
  BY <1>6 DEF vars
<1> QED
  BY <1>1, <1>2, <1>3, <1>4, <1>5, <1>6, PublishTypeOK, RunTypeOK DEF Next

\* Whatever its callers do, the relay's queues never outgrow their capacity and
\* run never holds more than the one event it dequeued.
THEOREM TypeCorrect == Spec => []TypeOK
  BY InitTypeOK, NextTypeOK, PTL DEF Spec

-----------------------------------------------------------------------------
(* Order.                                                                  *)

LEMMA MembersEmpty == Members(<<>>) = {} /\ Increasing(<<>>)
  BY DEF Members, Increasing

LEMMA MembersOne ==
  ASSUME NEW S, NEW s \in Seq(S), AtMostOne(s), s # <<>>
  PROVE  Members(s) = {Head(s)} /\ Head(s) \in S
<1>1. /\ Len(s) \in Nat /\ Len(s) <= 1 /\ DOMAIN s = 1..Len(s)
      /\ 1 \in DOMAIN s /\ Head(s) = s[1] /\ Head(s) \in S
  BY TailFacts DEF AtMostOne
<1>2. DOMAIN s = {1}
  BY <1>1
<1> QED
  BY <1>1, <1>2 DEF Members

LEMMA MembersSingle == \A e : Members(<<e>>) = {e}
  BY DEF Members

LEMMA MembersTail ==
  ASSUME NEW S, NEW s \in Seq(S), s # <<>>, Increasing(s)
  PROVE  /\ Members(s) = {Head(s)} \cup Members(Tail(s))
         /\ Precedes({Head(s)}, Members(Tail(s)))
         /\ Increasing(Tail(s))
<1>1. /\ DOMAIN s = 1..Len(s) /\ DOMAIN Tail(s) = 1..(Len(s) - 1)
      /\ Len(s) \in Nat /\ Len(s) >= 1 /\ Head(s) = s[1]
      /\ \A i \in 1..(Len(s) - 1) : Tail(s)[i] = s[i + 1]
  BY TailFacts
<1>2. ASSUME NEW i \in 1..Len(s), i # 1
      PROVE  i - 1 \in DOMAIN Tail(s) /\ s[i] = Tail(s)[i - 1]
  BY <1>1, <1>2
<1>3. ASSUME NEW e \in Members(s) PROVE e \in {Head(s)} \cup Members(Tail(s))
  <2>1. PICK i \in 1..Len(s) : e = s[i]
    BY <1>1 DEF Members
  <2>2. CASE i = 1
    BY <1>1, <2>1, <2>2
  <2>3. CASE i # 1
    BY <1>2, <2>1, <2>3 DEF Members
  <2> QED
    BY <2>2, <2>3
<1>4. {Head(s)} \cup Members(Tail(s)) \subseteq Members(s)
  BY <1>1 DEF Members
<1>5. Precedes({Head(s)}, Members(Tail(s)))
  BY <1>1 DEF Precedes, Members, Increasing
<1>6. Increasing(Tail(s))
  BY <1>1 DEF Increasing
<1> QED
  BY <1>3, <1>4, <1>5, <1>6

LEMMA MembersAppend ==
  ASSUME NEW S, NEW s \in Seq(S), NEW e \in S
  PROVE  /\ Members(Append(s, e)) = Members(s) \cup {e}
         /\ Increasing(s) /\ Precedes(Members(s), {e}) => Increasing(Append(s, e))
<1>1. /\ DOMAIN s = 1..Len(s) /\ DOMAIN Append(s, e) = 1..(Len(s) + 1)
      /\ Len(s) \in Nat /\ Append(s, e)[Len(s) + 1] = e
      /\ \A i \in 1..Len(s) : Append(s, e)[i] = s[i]
  BY AppendFacts
<1>2. Members(Append(s, e)) = Members(s) \cup {e}
  BY <1>1 DEF Members
<1>3. ASSUME Increasing(s), Precedes(Members(s), {e}) PROVE Increasing(Append(s, e))
  <2>1. \A i \in 1..Len(s) : s[i].n < e.n
    BY <1>1, <1>3 DEF Precedes, Members
  <2>2. \A i, j \in 1..(Len(s) + 1) : i < j => i \in 1..Len(s) /\ (j \in 1..Len(s) \/ j = Len(s) + 1)
    BY <1>1
  <2>3. \A i, j \in 1..Len(s) : i < j => s[i].n < s[j].n
    BY <1>1, <1>3 DEF Increasing
  <2>4. \A i, j \in 1..(Len(s) + 1) : i < j => Append(s, e)[i].n < Append(s, e)[j].n
    BY <1>1, <2>1, <2>2, <2>3
  <2> QED
    BY <1>1, <2>4 DEF Increasing
<1> QED
  BY <1>2, <1>3

LEMMA MembersRemoveAt ==
  ASSUME NEW S, NEW s \in Seq(S), NEW i \in 1..Len(s), Increasing(s)
  PROVE  /\ RemoveAt(s, i) \in Seq(S)
         /\ Members(RemoveAt(s, i)) \subseteq Members(s)
         /\ Increasing(RemoveAt(s, i))
<1> DEFINE r == RemoveAt(s, i)
<1>1. /\ r \in Seq(S) /\ DOMAIN s = 1..Len(s) /\ DOMAIN r = 1..(Len(s) - 1)
      /\ Len(s) \in Nat
      /\ \A j \in 1..(Len(s) - 1) : r[j] = IF j < i THEN s[j] ELSE s[j + 1]
  BY RemoveAtFacts
<1> HIDE DEF r
<1>2. Members(r) \subseteq Members(s)
  <2>1. ASSUME NEW j \in DOMAIN r PROVE \E k \in DOMAIN s : r[j] = s[k]
    <3>1. j \in DOMAIN s /\ j + 1 \in DOMAIN s
      BY <1>1, <2>1
    <3>2. r[j] = s[j] \/ r[j] = s[j + 1]
      BY <1>1, <2>1
    <3> QED
      BY <3>1, <3>2
  <2> QED
    BY <2>1 DEF Members
<1>3. ASSUME NEW j \in DOMAIN r, NEW k \in DOMAIN r, j < k PROVE r[j].n < r[k].n
  <2>1. PICK jj \in DOMAIN s, kk \in DOMAIN s : jj < kk /\ r[j] = s[jj] /\ r[k] = s[kk]
    <3>1. CASE k < i
      <4>1. j \in DOMAIN s /\ k \in DOMAIN s /\ j < i
        BY <1>1, <1>3, <3>1
      <4>2. r[j] = s[j] /\ r[k] = s[k]
        BY <1>1, <1>3, <3>1, <4>1
      <4> QED
        BY <1>3, <4>1, <4>2
    <3>2. CASE ~(k < i) /\ j < i
      <4>1. j \in DOMAIN s /\ k + 1 \in DOMAIN s /\ j < k + 1
        BY <1>1, <1>3, <3>2
      <4>2. r[j] = s[j] /\ r[k] = s[k + 1]
        BY <1>1, <1>3, <3>2
      <4> QED
        BY <4>1, <4>2
    <3>3. CASE ~(j < i)
      <4>1. /\ j + 1 \in DOMAIN s /\ k + 1 \in DOMAIN s /\ j + 1 < k + 1
            /\ ~(k < i)
        BY <1>1, <1>3, <3>3
      <4>2. r[j] = s[j + 1] /\ r[k] = s[k + 1]
        BY <1>1, <3>3, <4>1
      <4> QED
        BY <4>1, <4>2
    <3> QED
      BY <3>1, <3>2, <3>3
  <2> QED
    BY <2>1 DEF Increasing
<1> QED
  BY <1>1, <1>2, <1>3 DEF r, Increasing

LEMMA MembersReplaceLast ==
  ASSUME NEW S, NEW s \in Seq(S), s # <<>>, NEW e \in S, NEW r,
         r = [s EXCEPT ![Len(s)] = e], Increasing(s), Precedes(Members(s), {e})
  PROVE  Members(r) \subseteq Members(s) \cup {e} /\ Increasing(r)
<1>1. /\ DOMAIN s = 1..Len(s) /\ DOMAIN r = 1..Len(s) /\ Len(s) \in Nat
      /\ \A j \in 1..Len(s) : r[j] = IF j = Len(s) THEN e ELSE s[j]
  OBVIOUS
<1>2. \A j \in 1..Len(s) : s[j].n < e.n
  BY <1>1 DEF Precedes, Members
<1> QED
  BY <1>1, <1>2 DEF Members, Increasing

LEMMA InitOrder == Init => Known /\ Ordered /\ Ends
  BY MembersEmpty DEF Init, Known, Ordered, Ends, Precedes, Pipeline

\* A step that publishes nothing keeps who ended last and only moves or drops
\* events: what is known of the pipeline's members stays true.
LEMMA MovingKeeps ==
  ASSUME Known, Ends, Pipeline' \subseteq Pipeline,
         UNCHANGED <<lastTerminalOwner, owner, published>>
  PROVE  Known' /\ Ends'
  BY DEF Known, Ends

LEMMA RunOrder == IInv /\ Run => Known' /\ Ordered' /\ Ends'
<1> SUFFICES ASSUME IInv, Run PROVE Known' /\ Ordered' /\ Ends'
  OBVIOUS
<1>1. UNCHANGED <<lastTerminalOwner, owner, published, delivered>>
  BY DEF Run, TakePriority, TakeQueued, Sleep, Awake, Send, CheckCleared,
         Recheck, Exit, UnchangedByRun
<1>2. Pipeline' \subseteq Pipeline /\ Ordered'
  <2>1. CASE TakePriority
    <3>1. /\ held = <<>> /\ Members(held) = {} /\ Members(held') = {Head(priority)}
          /\ priority # <<>> /\ priority \in Seq(EndingEvent) /\ Increasing(priority)
          /\ UNCHANGED <<queue, events>>
      BY <2>1, MembersEmpty, MembersSingle DEF TakePriority, IInv, TypeOK, Ordered
    <3>2. /\ Members(priority) = {Head(priority)} \cup Members(priority')
          /\ Precedes({Head(priority)}, Members(priority'))
          /\ Increasing(priority')
      BY <2>1, <3>1, MembersTail DEF TakePriority
    <3> QED
      BY <1>1, <3>1, <3>2 DEF IInv, Pipeline, Ordered, Precedes
  <2>2. CASE TakeQueued
    <3>1. /\ held = <<>> /\ Members(held) = {} /\ Members(held') = {Head(queue)}
          /\ priority = <<>> /\ Members(priority) = {}
          /\ queue # <<>> /\ queue \in Seq(QueuedEvent) /\ Increasing(queue)
          /\ UNCHANGED <<priority, events>>
      BY <2>2, MembersEmpty, MembersSingle DEF TakeQueued, IInv, TypeOK, Ordered
    <3>2. /\ Members(queue) = {Head(queue)} \cup Members(queue')
          /\ Precedes({Head(queue)}, Members(queue'))
          /\ Increasing(queue')
      BY <2>2, <3>1, MembersTail DEF TakeQueued
    <3> QED
      BY <1>1, <3>1, <3>2 DEF IInv, Pipeline, Ordered, Precedes
  <2>3. CASE Send
    <3>1. /\ events = <<>> /\ Members(events) = {} /\ events' = held
          /\ held' = <<>> /\ Members(held') = {} /\ UNCHANGED <<queue, priority>>
      BY <2>3, MembersEmpty DEF Send
    <3> QED
      BY <1>1, <3>1 DEF IInv, Pipeline, Ordered, Precedes
  <2>4. CASE CheckCleared \/ Exit
    <3>1. /\ held' = <<>> \/ held' = held
          /\ Members(held') \subseteq Members(held)
          /\ UNCHANGED <<queue, priority, events>>
      BY <2>4, MembersEmpty DEF CheckCleared, Exit
    <3> QED
      BY <1>1, <3>1 DEF IInv, Pipeline, Ordered, Precedes
  <2>5. CASE Sleep \/ Awake \/ Recheck
    <3>1. UNCHANGED <<queue, priority, events, held>>
      BY <2>5 DEF Sleep, Awake, Recheck
    <3> QED
      BY <1>1, <3>1 DEF IInv, Pipeline, Ordered
  <2> QED
    BY <2>1, <2>2, <2>3, <2>4, <2>5 DEF Run
<1> QED
  BY <1>1, <1>2, MovingKeeps DEF IInv

\* What a call of publish adds to the pipeline is newer than all that is in it.
LEMMA IncomingIsNewest ==
  ASSUME IInv, NEW kind \in Kinds
  PROVE  Precedes(Pipeline, {Incoming(kind)}) /\ Incoming(kind) \notin Pipeline
<1>1. \A e \in Pipeline : e.n <= published
  BY DEF IInv, Known
<1>2. Incoming(kind).n = published + 1 /\ published \in Nat
  BY DEF Incoming, IInv, TypeOK
<1>3. \A e \in Pipeline : e.n \in Nat
  BY EventKinds DEF Pipeline, Members, IInv, TypeOK
<1> QED
  BY <1>1, <1>2, <1>3 DEF Precedes

LEMMA PublishOrder == IInv /\ Publish => Known' /\ Ordered' /\ Ends'
<1> SUFFICES ASSUME IInv, Publish PROVE Known' /\ Ordered' /\ Ends'
  OBVIOUS
<1>1. /\ UNCHANGED <<owner, delivered, events, held>>
      /\ published' = published + 1 /\ published \in Nat /\ owner \in Nat
  BY DEF Publish, PublishIgnored, PublishTerminal, PublishQueued, PublishRefused,
         Call, relayVars, IInv, TypeOK
<1>2. \A e \in Pipeline : e.n \in Nat /\ e.owner \in Nat
  BY EventKinds DEF Pipeline, Members, IInv, TypeOK
<1>3. CASE UNCHANGED <<queue, priority, lastTerminalOwner>>
  <2>1. Pipeline' = Pipeline /\ Ordered'
    BY <1>1, <1>3 DEF Pipeline, Ordered, IInv
  <2> QED
    BY <1>1, <1>2, <1>3, <2>1 DEF Known, Ends, IInv
<1>4. CASE PublishTerminal
  <2> DEFINE e == Incoming(Terminal)
  <2>1. /\ e \in EndingEvent /\ e.owner = owner /\ e.n = published + 1
        /\ e.kind = Terminal /\ Precedes(Pipeline, {e})
    BY IncomingType, IncomingIsNewest DEF IInv, Incoming, Kinds
  <2>2. /\ queue' = <<>> /\ Members(queue') = {} /\ Increasing(queue')
        /\ lastTerminalOwner' = owner /\ lastTerminalOwner # owner
        /\ priority' = Append(priority, e) \/ priority' = priority
    BY <1>4, MembersEmpty DEF PublishTerminal, ClearedQueue, Relays
  <2>3. /\ Members(priority') \subseteq Members(priority) \cup {e}
        /\ Increasing(priority')
    <3>1. priority \in Seq(EndingEvent) /\ Increasing(priority)
      BY DEF IInv, TypeOK, Ordered
    <3>2. Precedes(Members(priority), {e})
      BY <2>1 DEF Precedes, Pipeline
    <3> HIDE DEF e
    <3>3. CASE priority' = priority
      BY <3>1, <3>3
    <3>4. CASE priority' = Append(priority, e)
      BY <2>1, <3>1, <3>2, <3>4, MembersAppend
    <3> QED
      BY <2>2, <3>3, <3>4
  <2> HIDE DEF e
  <2>4. Ordered'
    BY <1>1, <2>1, <2>2, <2>3 DEF Ordered, Precedes, Pipeline, IInv
  <2>5. Pipeline' \subseteq Pipeline \cup {e}
    BY <1>1, <2>2, <2>3 DEF Pipeline
  <2>6. Known'
    BY <1>1, <1>2, <2>1, <2>5 DEF Known, IInv
  <2>7. \A t \in Pipeline : t.kind = Terminal => t.owner # owner
    BY <2>2, <1>2 DEF Ends, IInv, TypeOK
  <2>8. Ends'
    BY <1>1, <1>2, <2>1, <2>2, <2>5, <2>7 DEF Ends, Known, IInv, TypeOK
  <2> QED
    BY <2>4, <2>6, <2>8
<1>5. ASSUME NEW kind \in {Progress, Boundary}, PublishQueued(kind)
      PROVE  Known' /\ Ordered' /\ Ends'
  <2> DEFINE e == Incoming(kind)
  <2>1. /\ e \in QueuedEvent /\ e.owner = owner /\ e.n = published + 1
        /\ e.kind # Terminal /\ Precedes(Pipeline, {e})
    BY IncomingType, IncomingIsNewest, EventKinds DEF IInv, Incoming, Kinds
  <2>2. /\ UNCHANGED <<priority, lastTerminalOwner>> /\ lastTerminalOwner # owner
        /\ Enqueue(kind)
    BY <1>5 DEF PublishQueued, Relays
  <2>3. Members(queue') \subseteq Members(queue) \cup {e} /\ Increasing(queue')
    <3>1. queue \in Seq(QueuedEvent) /\ Increasing(queue)
      BY DEF IInv, TypeOK, Ordered
    <3>2. Precedes(Members(queue), {e})
      BY <2>1 DEF Precedes, Pipeline
    <3>3. CASE queue # <<>> /\ queue' = [queue EXCEPT ![Len(queue)] = e]
      <4> HIDE DEF e
      <4> QED
        BY <2>1, <3>1, <3>2, <3>3, MembersReplaceLast
    <3>4. CASE queue' = Append(queue, e)
      <4> HIDE DEF e
      <4> QED
        BY <2>1, <3>1, <3>2, <3>4, MembersAppend
    <3>5. ASSUME NEW i \in DOMAIN queue, queue' = Append(RemoveAt(queue, i), e)
          PROVE  Members(queue') \subseteq Members(queue) \cup {e} /\ Increasing(queue')
      <4> DEFINE r == RemoveAt(queue, i)
      <4>1. r \in Seq(QueuedEvent) /\ Members(r) \subseteq Members(queue) /\ Increasing(r)
        BY <3>1, MembersRemoveAt
      <4>2. Precedes(Members(r), {e})
        BY <4>1, <3>2 DEF Precedes
      <4>3. queue' = Append(r, e)
        BY <3>5
      <4> HIDE DEF e, r
      <4> QED
        BY <2>1, <4>1, <4>2, <4>3, MembersAppend
    <3> QED
      BY <2>2, <3>3, <3>4, <3>5 DEF Enqueue, Coalesces
  <2> HIDE DEF e
  <2>4. Ordered'
    BY <1>1, <2>1, <2>2, <2>3 DEF Ordered, Precedes, Pipeline, IInv
  <2>5. Pipeline' \subseteq Pipeline \cup {e}
    BY <1>1, <2>2, <2>3 DEF Pipeline
  <2>6. Known'
    BY <1>1, <1>2, <2>1, <2>5 DEF Known, IInv
  <2>7. \A t \in Pipeline : t.kind = Terminal => t.owner # owner
    BY <2>2, <1>2 DEF Ends, IInv, TypeOK
  <2>8. Ends'
    BY <1>1, <1>2, <2>1, <2>2, <2>5, <2>7 DEF Ends, Known, IInv, TypeOK
  <2> QED
    BY <2>4, <2>6, <2>8
<1> QED
  BY <1>3, <1>4, <1>5 DEF Publish, PublishIgnored, PublishRefused

LEMMA NextOrder == IInv /\ [Next]_vars => IInv'
<1> SUFFICES ASSUME IInv, [Next]_vars PROVE Known' /\ Ordered' /\ Ends'
  BY NextTypeOK DEF IInv
<1>1. CASE Consume
  <2>1. /\ events' = <<>> /\ Members(events') = {} /\ events # <<>>
        /\ delivered' = Append(delivered, Head(events))
        /\ UNCHANGED <<queue, priority, held, lastTerminalOwner, owner, published>>
    BY <1>1, MembersEmpty DEF Consume, relayVars, producerVars
  <2>2. Members(events) = {Head(events)} /\ Head(events) \in Event
    BY <2>1, MembersOne DEF IInv, TypeOK
  <2>3. delivered \in Seq(Event) /\ Increasing(delivered)
        /\ Precedes(Members(delivered), {Head(events)})
    BY <2>2 DEF IInv, TypeOK, Ordered
  <2>4. /\ Members(delivered') = Members(delivered) \cup {Head(events)}
        /\ Increasing(delivered')
    BY <2>1, <2>2, <2>3, MembersAppend
  <2>5. Pipeline' \subseteq Pipeline /\ Ordered'
    BY <2>1, <2>2, <2>4 DEF IInv, Pipeline, Ordered, Precedes
  <2> QED
    BY <2>1, <2>5, MovingKeeps DEF IInv
<1>2. CASE NextOwner
  <2>1. /\ owner' = owner + 1 /\ owner \in Nat /\ lastTerminalOwner \in Nat
        /\ UNCHANGED <<queue, priority, held, events, delivered,
                        lastTerminalOwner, published>>
    BY <1>2 DEF NextOwner, relayVars, IInv, TypeOK
  <2>2. Pipeline' = Pipeline /\ Ordered'
    BY <2>1 DEF IInv, Pipeline, Ordered
  <2>3. \A e \in Pipeline : e.owner \in Nat
    BY EventKinds DEF Pipeline, Members, IInv, TypeOK
  <2> QED
    BY <2>1, <2>2, <2>3 DEF IInv, Known, Ends
<1>3. CASE WakeRelay \/ Stop \/ Shutdown \/ UNCHANGED vars
  <2>1. UNCHANGED <<queue, priority, held, events, delivered, lastTerminalOwner,
                    owner, published>>
    BY <1>3 DEF WakeRelay, Stop, Shutdown, vars, relayVars, producerVars
  <2>2. Pipeline' = Pipeline /\ Ordered'
    BY <2>1 DEF IInv, Pipeline, Ordered
  <2> QED
    BY <2>1, <2>2, MovingKeeps DEF IInv
<1> QED
  BY <1>1, <1>2, <1>3, PublishOrder, RunOrder DEF Next

LEMMA Inductive == Spec => []IInv
<1>1. Init => IInv
  BY InitTypeOK, InitOrder DEF IInv
<1> QED
  BY <1>1, NextOrder, PTL DEF Spec

\* The window reads what was published in order, whatever was dropped: no
\* coalescing, eviction, clearing or overtaking reorders or repeats an event.
THEOREM DeliveryInOrder == Spec => []InOrder
<1>1. IInv => InOrder
  BY DEF IInv, Ordered, Increasing, InOrder
<1> QED
  BY <1>1, Inductive, PTL

\* The window reads nothing of an episode after its terminal event.
THEOREM TerminalEndsDelivery == Spec => []TerminalIsLast
<1>1. IInv => TerminalIsLast
  <2> SUFFICES ASSUME IInv, NEW i \in DOMAIN delivered, NEW j \in DOMAIN delivered,
                      i < j, delivered[i].kind = Terminal,
                      delivered[j].owner = delivered[i].owner
               PROVE  FALSE
    BY DEF TerminalIsLast
  <2>1. delivered[i].n < delivered[j].n
    BY DEF IInv, Ordered, Increasing
  <2>2. delivered[j].n <= delivered[i].n
    BY DEF IInv, Ends, Pipeline, Members
  <2>3. delivered[i].n \in Nat /\ delivered[j].n \in Nat
    BY EventKinds DEF IInv, TypeOK
  <2> QED
    BY <2>1, <2>2, <2>3
<1> QED
  BY <1>1, Inductive, PTL

\* Together: the whole of what a run checks of the delivery.
THEOREM DeliveryIsInOrder == Spec => []DeliveredInOrder
<1>1. TypeOK /\ InOrder /\ TerminalIsLast => DeliveredInOrder
  BY DEF DeliveredInOrder
<1> QED
  BY <1>1, TypeCorrect, DeliveryInOrder, TerminalEndsDelivery, PTL

\* The relay never sleeps over an event it was given: every path of publish that
\* adds one leaves a wake token, and run takes a token only to look again.
THEOREM WakeupNeverLost == Spec => []NoLostWakeup
<1>1. Init => NoLostWakeup
  BY DEF Init, NoLostWakeup
<1>2. NoLostWakeup /\ [Next]_vars => NoLostWakeup'
  <2> SUFFICES ASSUME NoLostWakeup, [Next]_vars PROVE NoLostWakeup'
    OBVIOUS
  <2> USE DEF NoLostWakeup, relayVars, producerVars, Call, UnchangedByRun
  <2>1. CASE Publish
    BY <2>1 DEF Publish, PublishIgnored, PublishTerminal, PublishQueued, PublishRefused
  <2>2. CASE Run
    BY <2>2 DEF Run, TakePriority, TakeQueued, Sleep, NothingToSend, Awake, Send,
                CheckCleared, Recheck, Exit
  <2>3. CASE WakeRelay \/ NextOwner \/ Stop \/ Shutdown \/ Consume
    BY <2>3 DEF WakeRelay, NextOwner, Stop, Shutdown, Consume
  <2>4. CASE UNCHANGED vars
    BY <2>4 DEF vars
  <2> QED
    BY <2>1, <2>2, <2>3, <2>4 DEF Next
<1> QED
  BY <1>1, <1>2, PTL DEF Spec

-----------------------------------------------------------------------------
(* Induction over the numbers, for lists.                                  *)

\* The least member of a set of numbers: the induction the proofs below rest on.
LEMMA LeastNumber ==
  ASSUME NEW S \in SUBSET Nat, NEW n \in S
  PROVE  \E m \in S : \A k \in S : m <= k
<1>1. \E x \in S : \A y \in S : ~(<<y, x>> \in OpToRel(<, Nat))
  BY NatLessThanWellFounded, WFMin
<1>2. PICK x \in S : \A y \in S : ~(<<y, x>> \in OpToRel(<, Nat))
  BY <1>1
<1>3. \A y \in S : ~(y < x)
  BY <1>2 DEF OpToRel
<1> QED
  BY <1>3

\* Induction up to n, for a set of numbers.
LEMMA UpTo ==
  ASSUME NEW S, NEW n \in Nat, 0 \in S, \A k \in 0..(n - 1) : k \in S => k + 1 \in S
  PROVE  0..n \subseteq S
<1> DEFINE T == {k \in 0..n : k \notin S}
<1> SUFFICES ASSUME NEW k \in T PROVE FALSE
  OBVIOUS
<1>1. PICK m \in T : \A l \in T : m <= l
  <2>1. T \in SUBSET Nat
    OBVIOUS
  <2> HIDE DEF T
  <2> QED
    BY <2>1, LeastNumber
<1>2. m # 0 /\ m \in 0..n /\ m \notin S
  BY <1>1
<1>3. m - 1 \in 0..(n - 1) /\ m - 1 \notin T
  BY <1>1, <1>2
<1> QED
  BY <1>2, <1>3

-----------------------------------------------------------------------------
(* What Only gives.                                                        *)

Picks(f, s, kept) ==
  f = [n \in 0..Len(s) |-> IF n = 0 THEN <<>> ELSE IF s[n] \in kept THEN Append(f[n - 1], s[n]) ELSE f[n - 1]]

LEMMA PicksExist ==
  ASSUME NEW S, NEW s \in Seq(S), NEW kept
  PROVE  \E f \in [0..Len(s) -> Seq(S)] : Picks(f, s, kept)
<1> DEFINE Step(f, n) == IF n = 0 THEN <<>> ELSE IF s[n] \in kept THEN Append(f[n - 1], s[n]) ELSE f[n - 1]
           Has(n) == \E f \in [0..n -> Seq(S)] : \A i \in 0..n : f[i] = Step(f, i)
           T == {n \in Nat : Has(n)}
<1>1. Has(0)
  <2> DEFINE f == [i \in 0..0 |-> <<>>]
  <2>1. f \in [0..0 -> Seq(S)]
    OBVIOUS
  <2>2. \A i \in 0..0 : f[i] = Step(f, i)
    OBVIOUS
  <2> QED
    BY <2>1, <2>2
<1>2. ASSUME NEW n \in 0..(Len(s) - 1), Has(n) PROVE Has(n + 1)
  <2>1. PICK f \in [0..n -> Seq(S)] : \A i \in 0..n : f[i] = Step(f, i)
    BY <1>2
  <2> DEFINE next == IF s[n + 1] \in kept THEN Append(f[n], s[n + 1]) ELSE f[n]
             g == [i \in 0..(n + 1) |-> IF i = n + 1 THEN next ELSE f[i]]
  <2>2. n \in Nat /\ s[n + 1] \in S /\ f[n] \in Seq(S)
    OBVIOUS
  <2>3. next \in Seq(S)
    BY <2>2
  <2>4. g \in [0..(n + 1) -> Seq(S)]
    BY <2>3
  <2>5. \A i \in 0..n : g[i] = f[i]
    BY <2>2
  <2>6. ASSUME NEW i \in 0..(n + 1) PROVE g[i] = Step(g, i)
    <3>1. CASE i = n + 1
      <4>1. g[i] = next /\ i # 0 /\ i - 1 = n /\ g[i - 1] = f[n]
        BY <2>2, <2>5, <3>1
      <4> QED
        BY <3>1, <4>1
    <3>2. CASE i \in 0..n
      <4>1. g[i] = f[i] /\ f[i] = Step(f, i)
        BY <2>1, <2>5, <3>2
      <4>2. CASE i = 0
        BY <4>1, <4>2
      <4>3. CASE i # 0
        <5>1. i - 1 \in 0..n
          BY <2>2, <3>2, <4>3
        <5>2. g[i - 1] = f[i - 1]
          BY <2>5, <5>1
        <5> HIDE DEF g
        <5> QED
          BY <4>1, <5>2
      <4> QED
        BY <4>2, <4>3
    <3> QED
      BY <2>2, <3>1, <3>2
  <2> QED
    BY <2>4, <2>6
<1>3. Len(s) \in Nat /\ 0 \in T /\ \A n \in 0..(Len(s) - 1) : n \in T => n + 1 \in T
  <2> HIDE DEF Has
  <2> QED
    BY <1>1, <1>2
<1>4. Has(Len(s))
  <2> HIDE DEF Has
  <2>1. 0..Len(s) \subseteq T
    <3> HIDE DEF T
    <3> QED
      BY <1>3, UpTo
  <2>2. Len(s) \in T
    BY <1>3, <2>1
  <2> QED
    BY <2>2
<1>5. PICK f \in [0..Len(s) -> Seq(S)] : \A i \in 0..Len(s) : f[i] = Step(f, i)
  BY <1>4
<1>6. f = [n \in 0..Len(s) |-> Step(f, n)]
  BY <1>5
<1> QED
  BY <1>6 DEF Picks

LEMMA OnlyPicks ==
  ASSUME NEW S, NEW s \in Seq(S), NEW kept
  PROVE  \E f : Picks(f, s, kept) /\ Only(s, kept) = f[Len(s)]
<1>1. \E f : Picks(f, s, kept)
  BY PicksExist
<1> QED
  BY <1>1 DEF Picks, Only

\* The list gathered after each member, f.
Gathers(f, s, kept) ==
  /\ Only(s, kept) = f[Len(s)] /\ f[0] = <<>>
  /\ \A n \in 1..Len(s) : f[n] = IF s[n] \in kept THEN Append(f[n - 1], s[n]) ELSE f[n - 1]

\* The lists gathered on the way, from the empty one to what Only gives.
LEMMA OnlyGathers ==
  ASSUME NEW S, NEW s \in Seq(S), NEW kept
  PROVE  \E f \in [0..Len(s) -> Seq(S)] : Gathers(f, s, kept)
<1>1. PICK f : Picks(f, s, kept) /\ Only(s, kept) = f[Len(s)]
  BY OnlyPicks
<1>2. /\ Len(s) \in Nat /\ DOMAIN f = 0..Len(s) /\ f = [n \in 0..Len(s) |-> f[n]] /\ f[0] = <<>>
      /\ \A n \in 1..Len(s) : f[n] = IF s[n] \in kept THEN Append(f[n - 1], s[n]) ELSE f[n - 1]
  <2>1. f = [n \in 0..Len(s) |-> IF n = 0 THEN <<>> ELSE IF s[n] \in kept THEN Append(f[n - 1], s[n]) ELSE f[n - 1]]
    BY <1>1 DEF Picks
  <2>2. Len(s) \in Nat
    OBVIOUS
  <2>3. DOMAIN f = 0..Len(s) /\ \A n \in 0..Len(s) : f[n] = IF n = 0 THEN <<>> ELSE IF s[n] \in kept THEN Append(f[n - 1], s[n]) ELSE f[n - 1]
    BY <2>1
  <2>4. f = [n \in 0..Len(s) |-> f[n]]
    BY <2>1
  <2>5. 0 \in 0..Len(s) /\ \A n \in 1..Len(s) : n \in 0..Len(s) /\ n # 0
    BY <2>2
  <2> QED
    BY <2>2, <2>3, <2>4, <2>5
<1> DEFINE T == {n \in 0..Len(s) : f[n] \in Seq(S)}
<1>3. 0 \in T
  BY <1>2
<1>4. ASSUME NEW n \in 0..(Len(s) - 1), n \in T PROVE n + 1 \in T
  <2>1. n + 1 \in 1..Len(s) /\ s[n + 1] \in S /\ f[n] \in Seq(S) /\ (n + 1) - 1 = n
    BY <1>2, <1>4
  <2>2. f[n + 1] = IF s[n + 1] \in kept THEN Append(f[n], s[n + 1]) ELSE f[n]
    BY <1>2, <2>1
  <2>3. f[n + 1] \in Seq(S)
    BY <2>1, <2>2
  <2> QED
    BY <2>1, <2>3
<1>5. 0..Len(s) \subseteq T
  <2> HIDE DEF T
  <2> QED
    BY <1>2, <1>3, <1>4, UpTo
<1>6. f \in [0..Len(s) -> Seq(S)]
  BY <1>2, <1>5
<1>7. Gathers(f, s, kept)
  BY <1>1, <1>2 DEF Gathers
<1> QED
  BY <1>6, <1>7

LEMMA OnlyTyped ==
  ASSUME NEW S, NEW s \in Seq(S), NEW kept
  PROVE  Only(s, kept) \in Seq(S)
<1>1. PICK f \in [0..Len(s) -> Seq(S)] : Gathers(f, s, kept)
  BY OnlyGathers
<1> QED
  BY <1>1 DEF Gathers

\* Of a list without any there is nothing.
LEMMA OnlyOfNone ==
  ASSUME NEW S, NEW s \in Seq(S), NEW kept, \A i \in DOMAIN s : s[i] \notin kept
  PROVE  Only(s, kept) = <<>>
<1>a. PICK f \in [0..Len(s) -> Seq(S)] : Gathers(f, s, kept)
  BY OnlyGathers
<1>1. /\ Only(s, kept) = f[Len(s)] /\ f[0] = <<>>
      /\ \A n \in 1..Len(s) : f[n] = IF s[n] \in kept THEN Append(f[n - 1], s[n]) ELSE f[n - 1]
  BY <1>a DEF Gathers
<1> DEFINE T == {n \in 0..Len(s) : f[n] = <<>>}
<1>2. 0 \in T /\ Len(s) \in Nat
  BY <1>1
<1>3. ASSUME NEW n \in 0..(Len(s) - 1), n \in T PROVE n + 1 \in T
  <2>1. n + 1 \in 1..Len(s) /\ (n + 1) - 1 = n /\ s[n + 1] \notin kept
    BY <1>2
  <2>2. f[n + 1] = f[n]
    BY <1>1, <2>1
  <2> QED
    BY <1>3, <2>1, <2>2
<1>4. 0..Len(s) \subseteq T
  <2> HIDE DEF T
  <2> QED
    BY <1>2, <1>3, UpTo
<1> QED
  BY <1>1, <1>2, <1>4

LEMMA AppendAtEnd ==
  ASSUME NEW S, NEW s \in Seq(S), NEW t \in Seq(S), NEW e \in S
  PROVE  s \o Append(t, e) = Append(s \o t, e)
<1>1. /\ s \o Append(t, e) \in Seq(S) /\ Append(s \o t, e) \in Seq(S)
      /\ Len(s \o Append(t, e)) = Len(s) + Len(t) + 1 /\ Len(Append(s \o t, e)) = Len(s) + Len(t) + 1
  OBVIOUS
<1>2. ASSUME NEW i \in 1..(Len(s) + Len(t) + 1) PROVE (s \o Append(t, e))[i] = Append(s \o t, e)[i]
  OBVIOUS
<1> QED
  BY <1>1, <1>2, SeqEqual

\* Of two lists, one after the other.
LEMMA OnlyOfBoth ==
  ASSUME NEW S, NEW s \in Seq(S), NEW t \in Seq(S), NEW kept
  PROVE  Only(s \o t, kept) = Only(s, kept) \o Only(t, kept)
<1> DEFINE Longer(f, u, n) == IF u[n] \in kept THEN Append(f[n - 1], u[n]) ELSE f[n - 1]
<1>1. s \o t \in Seq(S) /\ Len(s \o t) = Len(s) + Len(t) /\ Len(s) \in Nat /\ Len(t) \in Nat
  OBVIOUS
<1>a. PICK f \in [0..Len(s) -> Seq(S)] : Gathers(f, s, kept)
  BY OnlyGathers
<1>b. PICK g \in [0..Len(t) -> Seq(S)] : Gathers(g, t, kept)
  BY OnlyGathers
<1>c. PICK h \in [0..Len(s \o t) -> Seq(S)] : Gathers(h, s \o t, kept)
  BY <1>1, OnlyGathers
<1>2. Only(s, kept) = f[Len(s)] /\ f[0] = <<>> /\ \A n \in 1..Len(s) : f[n] = Longer(f, s, n)
  BY <1>a DEF Gathers
<1>3. Only(t, kept) = g[Len(t)] /\ g[0] = <<>> /\ \A n \in 1..Len(t) : g[n] = Longer(g, t, n)
  BY <1>b DEF Gathers
<1>4. /\ Only(s \o t, kept) = h[Len(s \o t)] /\ h[0] = <<>>
      /\ \A n \in 1..Len(s \o t) : h[n] = Longer(h, s \o t, n)
  BY <1>c DEF Gathers
<1>5. \A n \in 1..Len(s) : (s \o t)[n] = s[n]
  OBVIOUS
<1>6. \A n \in 1..Len(t) : (s \o t)[Len(s) + n] = t[n]
  OBVIOUS
<1>7. 0..Len(s) \subseteq {n \in 0..Len(s) : h[n] = f[n]}
  <2> DEFINE T == {n \in 0..Len(s) : h[n] = f[n]}
  <2>1. 0 \in T
    BY <1>1, <1>2, <1>4
  <2>2. ASSUME NEW n \in 0..(Len(s) - 1), n \in T PROVE n + 1 \in T
    <3>1. /\ n + 1 \in 1..Len(s) /\ (n + 1) - 1 = n /\ (s \o t)[n + 1] = s[n + 1] /\ n + 1 \in 1..Len(s \o t)
          /\ h[n] = f[n]
      BY <1>1, <1>5, <2>2
    <3>2. f[n + 1] = Longer(f, s, n + 1) /\ h[n + 1] = Longer(h, s \o t, n + 1)
      BY <1>2, <1>4, <3>1
    <3>3. h[n + 1] = f[n + 1]
      BY <3>1, <3>2
    <3> QED
      BY <3>1, <3>3
  <2> HIDE DEF T
  <2>3. 0..Len(s) \subseteq T
    BY <1>1, <2>1, <2>2, UpTo
  <2> QED
    BY <2>3 DEF T
<1>8. 0..Len(t) \subseteq {n \in 0..Len(t) : h[Len(s) + n] = f[Len(s)] \o g[n]}
  <2> DEFINE T == {n \in 0..Len(t) : h[Len(s) + n] = f[Len(s)] \o g[n]}
  <2>1. 0 \in T
    <3>1. f[Len(s)] \in Seq(S) /\ g[0] = <<>> /\ h[Len(s)] = f[Len(s)] /\ Len(s) + 0 = Len(s)
      BY <1>1, <1>3, <1>7
    <3>2. f[Len(s)] \o g[0] = f[Len(s)]
      BY <3>1
    <3> QED
      BY <1>1, <3>1, <3>2
  <2>2. ASSUME NEW n \in 0..(Len(t) - 1), n \in T PROVE n + 1 \in T
    <3>1. /\ n + 1 \in 1..Len(t) /\ (n + 1) - 1 = n /\ (s \o t)[Len(s) + (n + 1)] = t[n + 1]
          /\ Len(s) + (n + 1) \in 1..Len(s \o t) /\ (Len(s) + (n + 1)) - 1 = Len(s) + n
          /\ h[Len(s) + n] = f[Len(s)] \o g[n]
      <4>1. n \in Nat /\ n + 1 \in 1..Len(t) /\ (n + 1) - 1 = n
        BY <1>1
      <4>2. Len(s) + (n + 1) \in 1..Len(s \o t) /\ (Len(s) + (n + 1)) - 1 = Len(s) + n
        BY <1>1, <4>1
      <4>3. (s \o t)[Len(s) + (n + 1)] = t[n + 1]
        BY <1>6, <4>1
      <4> QED
        BY <2>2, <4>1, <4>2, <4>3
    <3>2. g[n + 1] = Longer(g, t, n + 1) /\ h[Len(s) + (n + 1)] = Longer(h, s \o t, Len(s) + (n + 1))
      BY <1>3, <1>4, <3>1
    <3>3. f[Len(s)] \in Seq(S) /\ g[n] \in Seq(S) /\ t[n + 1] \in S
      <4>1. Len(s) \in 0..Len(s) /\ n \in 0..Len(t)
        BY <1>1
      <4>2. t[n + 1] \in S
        BY <3>1
      <4> QED
        BY <4>1, <4>2
    <3>4. f[Len(s)] \o Append(g[n], t[n + 1]) = Append(f[Len(s)] \o g[n], t[n + 1])
      <4>1. \A a, b \in Seq(S), e \in S : a \o Append(b, e) = Append(a \o b, e)
        BY AppendAtEnd
      <4> QED
        BY <3>3, <4>1
    <3>5. h[Len(s) + (n + 1)] = f[Len(s)] \o g[n + 1]
      BY <3>1, <3>2, <3>4
    <3>6. n + 1 \in 0..Len(t)
      BY <1>1
    <3> QED
      BY <3>5, <3>6
  <2> HIDE DEF T
  <2>3. 0..Len(t) \subseteq T
    BY <1>1, <2>1, <2>2, UpTo
  <2> QED
    BY <2>3 DEF T
<1>9. h[Len(s) + Len(t)] = f[Len(s)] \o g[Len(t)]
  <2>1. Len(t) \in 0..Len(t)
    BY <1>1
  <2> QED
    BY <1>8, <2>1
<1> QED
  BY <1>1, <1>2, <1>3, <1>4, <1>9

\* What is kept, o, comes from one place each, in the order of the places.
ComesFrom(o, s, kept, n) ==
  \E place \in [1..Len(o) -> 1..n] :
    /\ \A k \in 1..Len(o) : o[k] = s[place[k]] /\ s[place[k]] \in kept
    /\ \A k, l \in 1..Len(o) : k < l => place[k] < place[l]

LEMMA OnlyComesFrom ==
  ASSUME NEW S, NEW s \in Seq(S), NEW kept
  PROVE  ComesFrom(Only(s, kept), s, kept, Len(s))
<1>a. PICK f \in [0..Len(s) -> Seq(S)] : Gathers(f, s, kept)
  BY OnlyGathers
<1>1. /\ Only(s, kept) = f[Len(s)] /\ f[0] = <<>>
      /\ \A n \in 1..Len(s) : f[n] = IF s[n] \in kept THEN Append(f[n - 1], s[n]) ELSE f[n - 1]
  BY <1>a DEF Gathers
<1> DEFINE From(n) == ComesFrom(f[n], s, kept, n)
           T == {n \in 0..Len(s) : From(n)}
<1>2. Len(s) \in Nat
  OBVIOUS
<1>3. From(0)
  <2> DEFINE place == [k \in {} |-> 0]
  <2>1. f[0] = <<>> /\ 1..Len(f[0]) = {}
    BY <1>1
  <2>2. place \in [1..Len(f[0]) -> 1..0]
    BY <2>1
  <2> QED
    BY <2>1, <2>2 DEF ComesFrom
<1>4. ASSUME NEW n \in 0..(Len(s) - 1), From(n) PROVE From(n + 1)
  <2>1. PICK place \in [1..Len(f[n]) -> 1..n] :
                        /\ \A k \in 1..Len(f[n]) : f[n][k] = s[place[k]] /\ s[place[k]] \in kept
                        /\ \A k, l \in 1..Len(f[n]) : k < l => place[k] < place[l]
    BY <1>4 DEF ComesFrom
  <2>2. n \in Nat /\ n + 1 \in 1..Len(s) /\ (n + 1) - 1 = n /\ f[n] \in Seq(S) /\ s[n + 1] \in S /\ Len(f[n]) \in Nat
    BY <1>2
  <2>3. CASE s[n + 1] \in kept
    <3> DEFINE longer == [k \in 1..(Len(f[n]) + 1) |-> IF k = Len(f[n]) + 1 THEN n + 1 ELSE place[k]]
    <3>1. f[n + 1] = Append(f[n], s[n + 1])
      BY <1>1, <2>2, <2>3
    <3>2. /\ Len(f[n + 1]) = Len(f[n]) + 1 /\ f[n + 1][Len(f[n]) + 1] = s[n + 1]
          /\ \A k \in 1..Len(f[n]) : f[n + 1][k] = f[n][k]
      BY <2>2, <3>1
    <3>3. \A k \in 1..Len(f[n]) : place[k] \in Nat /\ 1 <= place[k] /\ place[k] <= n
      BY <2>2
    <3>4. /\ longer[Len(f[n]) + 1] = n + 1
          /\ \A k \in 1..Len(f[n]) : longer[k] = place[k]
      BY <2>2
    <3>5. longer \in [1..Len(f[n + 1]) -> 1..(n + 1)]
      BY <2>2, <3>2, <3>3
    <3>6. \A k \in 1..Len(f[n + 1]) : k \in 1..Len(f[n]) \/ k = Len(f[n]) + 1
      BY <2>2, <3>2
    <3> HIDE DEF longer
    <3>7. \A k \in 1..Len(f[n + 1]) : f[n + 1][k] = s[longer[k]] /\ s[longer[k]] \in kept
      BY <2>1, <2>3, <3>2, <3>4, <3>6
    <3>8. ASSUME NEW k \in 1..Len(f[n + 1]), NEW l \in 1..Len(f[n + 1]), k < l PROVE longer[k] < longer[l]
      <4>1. k \in 1..Len(f[n]) /\ longer[k] = place[k] /\ place[k] \in Nat /\ place[k] <= n
        <5>1. Len(f[n]) \in Nat /\ Len(f[n + 1]) = Len(f[n]) + 1
          BY <2>2, <3>2
        <5>2. k \in 1..Len(f[n])
          BY <3>8, <5>1
        <5> QED
          BY <3>3, <3>4, <5>2
      <4>2. CASE l \in 1..Len(f[n])
        BY <2>1, <3>4, <3>8, <4>1, <4>2
      <4>3. CASE l = Len(f[n]) + 1
        BY <3>4, <4>1, <4>3
      <4> QED
        BY <3>6, <4>2, <4>3
    <3> QED
      BY <3>5, <3>7, <3>8 DEF ComesFrom
  <2>4. CASE s[n + 1] \notin kept
    <3>1. f[n + 1] = f[n]
      BY <1>1, <2>2, <2>4
    <3>2. place \in [1..Len(f[n + 1]) -> 1..(n + 1)]
      BY <2>2, <3>1
    <3> QED
      BY <2>1, <3>1, <3>2 DEF ComesFrom
  <2> QED
    BY <2>3, <2>4
<1>5. 0 \in T /\ \A n \in 0..(Len(s) - 1) : n \in T => n + 1 \in T
  <2> HIDE DEF From
  <2>1. \A n \in 0..(Len(s) - 1) : n + 1 \in 0..Len(s)
    BY <1>2
  <2> QED
    BY <1>2, <1>3, <1>4, <2>1
<1>6. 0..Len(s) \subseteq T
  <2> HIDE DEF T
  <2> QED
    BY <1>2, <1>5, UpTo
<1>7. From(Len(s))
  <2> HIDE DEF From
  <2> QED
    BY <1>2, <1>6
<1> QED
  BY <1>1, <1>7

\* What is kept of a list is in Only.
LEMMA OnlyKeeps ==
  ASSUME NEW S, NEW s \in Seq(S), NEW kept, NEW i \in DOMAIN s, s[i] \in kept
  PROVE  \E k \in DOMAIN Only(s, kept) : Only(s, kept)[k] = s[i]
<1>a. PICK f \in [0..Len(s) -> Seq(S)] : Gathers(f, s, kept)
  BY OnlyGathers
<1>1. /\ Only(s, kept) = f[Len(s)]
      /\ \A n \in 1..Len(s) : f[n] = IF s[n] \in kept THEN Append(f[n - 1], s[n]) ELSE f[n - 1]
  BY <1>a DEF Gathers
<1>2. Len(s) \in Nat /\ i \in Nat /\ i >= 1 /\ i <= Len(s) /\ i \in 1..Len(s)
  OBVIOUS
<1> DEFINE Has(n) == \E k \in DOMAIN f[n] : f[n][k] = s[i]
           T == {n \in Nat : n + i <= Len(s) => Has(n + i)}
<1>3. Has(i)
  <2>1. f[i] = Append(f[i - 1], s[i]) /\ f[i - 1] \in Seq(S) /\ s[i] \in S
    <3>1. i - 1 \in 0..Len(s)
      BY <1>2
    <3>2. f[i - 1] \in Seq(S) /\ s[i] \in S
      BY <3>1
    <3>3. f[i] = Append(f[i - 1], s[i])
      BY <1>1, <1>2
    <3> QED
      BY <3>2, <3>3
  <2>2. Len(f[i - 1]) + 1 \in DOMAIN f[i] /\ f[i][Len(f[i - 1]) + 1] = s[i]
    BY <2>1
  <2> QED
    BY <2>2
<1>4. ASSUME NEW n \in Nat, n \in T PROVE n + 1 \in T
  <2> SUFFICES ASSUME (n + 1) + i <= Len(s) PROVE Has((n + 1) + i)
    OBVIOUS
  <2>1. n + i \in 0..Len(s) /\ (n + 1) + i \in 1..Len(s) /\ ((n + 1) + i) - 1 = n + i
    BY <1>2
  <2>2. PICK k \in DOMAIN f[n + i] : f[n + i][k] = s[i]
    BY <1>4, <2>1
  <2>3. f[n + i] \in Seq(S) /\ s[(n + 1) + i] \in S
    BY <2>1
  <2>4. CASE f[(n + 1) + i] = f[n + i]
    BY <2>2, <2>4
  <2>5. CASE f[(n + 1) + i] = Append(f[n + i], s[(n + 1) + i])
    <3>1. \A x \in Seq(S), e \in S : \A j \in DOMAIN x : j \in DOMAIN Append(x, e) /\ Append(x, e)[j] = x[j]
      OBVIOUS
    <3>2. k \in DOMAIN f[(n + 1) + i] /\ f[(n + 1) + i][k] = f[n + i][k]
      BY <2>2, <2>3, <2>5, <3>1
    <3> QED
      BY <2>2, <3>2
  <2> QED
    BY <1>1, <2>1, <2>4, <2>5
<1>5. Has(Len(s))
  <2>1. 0 \in T /\ \A n \in 0..((Len(s) - i) - 1) : n \in T => n + 1 \in T
    <3>1. 0 + i = i
      BY <1>2
    <3>2. \A n \in 0..((Len(s) - i) - 1) : n \in Nat
      BY <1>2
    <3> HIDE DEF Has
    <3>3. 0 \in T
      BY <1>3, <3>1
    <3> HIDE DEF T
    <3> QED
      BY <1>4, <3>2, <3>3
  <2>2. Len(s) - i \in Nat /\ (Len(s) - i) + i = Len(s)
    BY <1>2
  <2>3. 0..(Len(s) - i) \subseteq T
    <3> HIDE DEF T
    <3> QED
      BY <2>1, <2>2, UpTo
  <2> HIDE DEF Has
  <2>4. Len(s) - i \in T
    BY <2>2, <2>3
  <2>5. (Len(s) - i) + i <= Len(s) => Has((Len(s) - i) + i)
    BY <2>4
  <2> QED
    BY <1>2, <2>2, <2>5
<1> QED
  BY <1>1, <1>5

-----------------------------------------------------------------------------
(* The anime1 source.                                                      *)

Posts == [id : Nat, kind : PostKinds]

AnimeTyped ==
  /\ archive \in Seq(Posts) /\ first \in Seq(Posts) /\ newest \in Seq(Posts) /\ posted \in Seq(Nat)
  /\ page \in Nat \ {0} /\ lastId \in Nat /\ asked \in [what : {"nothing", "catalog", "episodes", "stream"}, id : Nat]
  /\ {withdrawn, live} \subseteq BOOLEAN /\ at \in {"idle", "page", "stream"}

\* A call answers once; its token is spent on the way.
Calls ==
  /\ reply # None => at = "idle"
  /\ at = "idle" /\ reply = None => page = 1 /\ newest = <<>> /\ seen = {} /\ posted = <<>>
  /\ at = "page" => posted = <<>>
  /\ at = "stream" => posted = <<asked.id>>

\* Posts that are new since the first page was read.
Shift == Len(archive) - Len(first)
Shifted == Shift >= 0 /\ \A i \in DOMAIN first : archive[Shift + i] = first[i]

NamedUpTo(c) == {first[i].id : i \in {j \in 1..c : first[j].kind # "nameless"}}

\* Posts of the pages before the one asked for.
Passed == (page - 1) * PageSize

\* So many posts were pushed in since that an episode on the first page is still to
\* come, a second time: the call can only fail.
Overtaken(i) == Passed < Shift + i

\* The posts up to c were gathered, and none is left out before the next page.
GatheredTo(c) ==
  /\ newest = EpisodesOf(SubSeq(first, 1, c)) /\ seen = NamedUpTo(c)
  /\ Passed - Shift <= c \/ c = Len(first)

Gathering ==
  \/ page = 1 /\ newest = <<>> /\ seen = {}
  \/ /\ page > 1 /\ Shifted
     /\ \E i \in DOMAIN first :
          /\ first[i].kind = "episode" /\ first[i].id \in seen
          /\ Overtaken(i) \/ \E c \in i..Len(first) : GatheredTo(c)

ListInv == at = "page" /\ asked.what = "episodes" /\ ~withdrawn => Gathering

AnimeInv == AnimeTyped /\ Calls /\ ListInv /\ AnswerIsTheSites

LEMMA PagesAreCounted ==
  ASSUME NEW n \in Nat, n >= 1
  PROVE  /\ PageSize \in Nat /\ PageSize >= 1
         /\ (n - 1) * PageSize \in Nat /\ n * PageSize \in Nat /\ n * PageSize = (n - 1) * PageSize + PageSize
<1>1. PageSize \in Nat /\ PageSize >= 1
  BY Anime1Assumption
<1>2. n * PageSize = (n - 1) * PageSize + PageSize
  BY <1>1
<1>3. \A a, b \in Nat : a * b \in Nat
  OBVIOUS
<1>4. (n - 1) \in Nat
  OBVIOUS
<1> QED
  BY <1>1, <1>2, <1>3, <1>4

LEMMA SubSeqIs ==
  ASSUME NEW S, NEW s \in Seq(S), NEW a \in Nat, NEW b \in 0..Len(s)
  PROVE  /\ SubSeq(s, a + 1, b) \in Seq(S)
         /\ Len(SubSeq(s, a + 1, b)) = IF a <= b THEN b - a ELSE 0
         /\ \A i \in 1..(b - a) : SubSeq(s, a + 1, b)[i] = s[a + i] /\ a + i \in 1..Len(s)
         /\ DOMAIN SubSeq(s, a + 1, b) = 1..(b - a)
OBVIOUS

\* A part of a list is its first part and the rest of it.
LEMMA SubSeqSplits ==
  ASSUME NEW S, NEW s \in Seq(S), NEW a \in Nat, NEW b \in Nat, NEW c \in 0..Len(s), a <= b, b <= c
  PROVE  SubSeq(s, a + 1, c) = SubSeq(s, a + 1, b) \o SubSeq(s, b + 1, c)
<1> DEFINE l == SubSeq(s, a + 1, b)
           r == SubSeq(s, b + 1, c)
           w == SubSeq(s, a + 1, c)
<1>1. b \in 0..Len(s) /\ Len(s) \in Nat
  OBVIOUS
<1>2. l \in Seq(S) /\ Len(l) = b - a /\ \A i \in 1..(b - a) : l[i] = s[a + i]
  BY <1>1, SubSeqIs
<1>3. r \in Seq(S) /\ Len(r) = c - b /\ \A i \in 1..(c - b) : r[i] = s[b + i]
  BY <1>1, SubSeqIs
<1>4. w \in Seq(S) /\ Len(w) = c - a /\ \A i \in 1..(c - a) : w[i] = s[a + i]
  <2>1. a <= c
    OBVIOUS
  <2> QED
    BY <2>1, SubSeqIs
<1> HIDE DEF l, r, w
<1>5. l \o r \in Seq(S) /\ Len(l \o r) = c - a
  <2>1. l \in Seq(S) /\ r \in Seq(S) /\ Len(l) = b - a /\ Len(r) = c - b
    BY <1>2, <1>3
  <2>2. \A x, y \in Seq(S) : x \o y \in Seq(S) /\ Len(x \o y) = Len(x) + Len(y)
    OBVIOUS
  <2>3. l \o r \in Seq(S) /\ Len(l \o r) = Len(l) + Len(r)
    BY <2>1, <2>2
  <2> QED
    BY <1>1, <2>1, <2>3
<1>6. ASSUME NEW i \in 1..(c - a) PROVE w[i] = (l \o r)[i]
  <2>1. CASE i <= b - a
    BY <1>2, <1>3, <1>4, <2>1
  <2>2. CASE i > b - a
    <3>1. i - (b - a) \in 1..(c - b) /\ b + (i - (b - a)) = a + i
      BY <2>2
    <3>2. (l \o r)[i] = r[i - (b - a)]
      <4>1. l \in Seq(S) /\ r \in Seq(S) /\ Len(l) = b - a /\ Len(r) = c - b
        BY <1>2, <1>3
      <4>2. i \in Nat /\ i > Len(l) /\ i <= Len(l) + Len(r)
        BY <1>1, <2>2, <4>1
      <4>3. (l \o r)[i] = r[i - Len(l)]
        BY <4>1, <4>2
      <4>4. i - Len(l) = i - (b - a)
        BY <4>1
      <4> QED
        BY <4>3, <4>4
    <3> QED
      BY <1>3, <1>4, <3>1, <3>2
  <2>3. i <= b - a \/ i > b - a
    BY <1>1
  <2> QED
    BY <2>1, <2>2, <2>3
<1>7. w = l \o r
  <2> DEFINE both == l \o r
  <2>1. w \in Seq(S) /\ both \in Seq(S) /\ Len(w) = Len(both) /\ Len(w) = c - a
    BY <1>4, <1>5
  <2>2. \A i \in 1..Len(w) : w[i] = both[i]
    BY <1>6, <2>1
  <2> HIDE DEF both
  <2>3. w = both
    BY <2>1, <2>2, SeqEqual
  <2> QED
    BY <2>3 DEF both
<1> QED
  BY <1>7 DEF l, r, w

LEMMA NoEpisodes ==
  ASSUME NEW s \in Seq(Posts), \A i \in DOMAIN s : s[i].kind # "episode"
  PROVE  EpisodesOf(s) = <<>>
<1>1. \A i \in DOMAIN s : s[i] \notin Episodes
  <2>1. \A p : p \in Episodes => p.kind = "episode"
    BY DEF Episodes
  <2> QED
    BY <2>1
<1>2. Only(s, Episodes) = <<>>
  <2> HIDE DEF Episodes, Posts
  <2> QED
    BY <1>1, OnlyOfNone
<1> QED
  BY <1>2 DEF EpisodesOf

LEMMA EpisodesOfBoth ==
  ASSUME NEW s \in Seq(Posts), NEW t \in Seq(Posts)
  PROVE  EpisodesOf(s \o t) = EpisodesOf(s) \o EpisodesOf(t) /\ EpisodesOf(s) \in Seq(Posts)
<1>1. Only(s \o t, Episodes) = Only(s, Episodes) \o Only(t, Episodes)
  BY OnlyOfBoth
<1>2. Only(s, Episodes) \in Seq(Posts)
  BY OnlyTyped
<1> QED
  BY <1>1, <1>2 DEF EpisodesOf

\* A page that overlaps what was gathered only in posts without an id adds what follows.
LEMMA OverlapAddsNothing ==
  ASSUME NEW f \in Seq(Posts), NEW s \in Nat, NEW c \in Nat, NEW e \in 0..Len(f), s <= c, c <= e,
         \A i \in (s + 1)..c : f[i].kind = "nameless"
  PROVE  EpisodesOf(SubSeq(f, 1, c)) \o EpisodesOf(SubSeq(f, s + 1, e)) = EpisodesOf(SubSeq(f, 1, e))
<1>1. c \in 0..Len(f) /\ Len(f) \in Nat /\ s <= e
  OBVIOUS
<1>2. /\ SubSeq(f, 0 + 1, c) \in Seq(Posts) /\ SubSeq(f, c + 1, e) \in Seq(Posts) /\ SubSeq(f, s + 1, c) \in Seq(Posts)
      /\ DOMAIN SubSeq(f, s + 1, c) = 1..(c - s) /\ \A i \in 1..(c - s) : SubSeq(f, s + 1, c)[i] = f[s + i]
  BY <1>1, SubSeqIs
<1>3. SubSeq(f, s + 1, e) = SubSeq(f, s + 1, c) \o SubSeq(f, c + 1, e)
  BY <1>1, SubSeqSplits
<1>4. SubSeq(f, 0 + 1, e) = SubSeq(f, 0 + 1, c) \o SubSeq(f, c + 1, e)
  <2>1. 0 \in Nat /\ 0 <= c
    OBVIOUS
  <2> QED
    BY <1>1, <2>1, SubSeqSplits
<1>5. EpisodesOf(SubSeq(f, s + 1, c)) = <<>>
  <2>1. \A i \in 1..(c - s) : s + i \in (s + 1)..c
    BY <1>1
  <2>2. \A i \in DOMAIN SubSeq(f, s + 1, c) : SubSeq(f, s + 1, c)[i].kind # "episode"
    BY <1>2, <2>1
  <2> QED
    BY <1>2, <2>2, NoEpisodes
<1>6. EpisodesOf(SubSeq(f, c + 1, e)) \in Seq(Posts)
  BY <1>2, EpisodesOfBoth
<1>7. EpisodesOf(SubSeq(f, s + 1, e)) = EpisodesOf(SubSeq(f, c + 1, e))
  <2>1. EpisodesOf(SubSeq(f, s + 1, e)) = <<>> \o EpisodesOf(SubSeq(f, c + 1, e))
    BY <1>2, <1>3, <1>5, EpisodesOfBoth
  <2> QED
    BY <1>6, <2>1
<1>8. EpisodesOf(SubSeq(f, 0 + 1, e)) = EpisodesOf(SubSeq(f, 0 + 1, c)) \o EpisodesOf(SubSeq(f, c + 1, e))
  BY <1>2, <1>4, EpisodesOfBoth
<1> QED
  BY <1>7, <1>8

-----------------------------------------------------------------------------
(* Its pages.                                                              *)

PageEnd == IF page * PageSize < Len(archive) THEN page * PageSize ELSE Len(archive)

\* What the page asked for shows: the posts from a + 1 to b of the archive.
LEMMA PageShows ==
  ASSUME AnimeTyped, page >= 1
  PROVE  /\ Passed \in Nat /\ page * PageSize \in Nat /\ page * PageSize = Passed + PageSize /\ PageSize >= 1
         /\ page * PageSize \in Nat /\ Len(archive) \in Nat /\ PageSize \in Nat
         /\ PostsOn(page) = SubSeq(archive, Passed + 1, PageEnd)
         /\ PageEnd \in Nat /\ PageEnd <= Len(archive)
         /\ PageEnd = page * PageSize \/ PageEnd = Len(archive)
         /\ Len(archive) > page * PageSize <=> PageEnd # Len(archive)
<1>1. page \in Nat /\ archive \in Seq(Posts)
  BY DEF AnimeTyped
<1>2. /\ PageSize \in Nat /\ PageSize >= 1
      /\ (page - 1) * PageSize \in Nat /\ page * PageSize \in Nat /\ page * PageSize = (page - 1) * PageSize + PageSize
  BY <1>1, PagesAreCounted
<1>3. PostsOn(page) = SubSeq(archive, Passed + 1, PageEnd)
  BY DEF PostsOn, Passed, PageEnd
<1>4. Len(archive) \in Nat
  BY <1>1
<1>5. /\ PageEnd \in Nat /\ PageEnd <= Len(archive) /\ (PageEnd = page * PageSize \/ PageEnd = Len(archive))
      /\ Len(archive) > page * PageSize <=> PageEnd # Len(archive)
  BY <1>2, <1>4 DEF PageEnd
<1> QED
  BY <1>2, <1>3, <1>4, <1>5 DEF Passed

\* A page that is added to the list: its posts are well formed and none is repeated.
Fits(p) == p \in PagesShown(page) /\ WellFormed(p) /\ ~Repeated(p)

LEMMA NoLinksIsLast ==
  ASSUME NEW p, Fits(p), p.links = {}
  PROVE  ~(Len(archive) > page * PageSize)
<1>1. PICK linked \in {LinksOn(page)} \cup {{l} : l \in OtherLinks(page)} \cup {LinksOn(page) \cup {l} : l \in OtherLinks(page)} :
        p = [posts |-> PostsOn(page), links |-> linked]
  BY DEF Fits, PagesShown
<1>2. linked = {}
  BY <1>1
<1>3. LinksOn(page) = {}
  BY <1>1, <1>2
<1> QED
  BY <1>3 DEF LinksOn

LEMMA PageHasEpisode ==
  ASSUME NEW p, WellFormed(p), p.posts \in Seq(Posts)
  PROVE  \E i \in DOMAIN p.posts : p.posts[i].kind = "episode"
<1>1. EpisodesOf(p.posts) # <<>>
  BY DEF WellFormed
<1> QED
  BY <1>1, NoEpisodes

\* The first page.
LEMMA FirstPage ==
  ASSUME AnimeTyped, page = 1, newest = <<>>, seen = {}, NEW p, Fits(p)
  PROVE  \E c \in 0..Len(archive) :
           /\ c = PageEnd
           /\ newest \o EpisodesOf(p.posts) = EpisodesOf(SubSeq(archive, 1, c))
           /\ seen \cup Named(p) = {archive[i].id : i \in {j \in 1..c : archive[j].kind # "nameless"}}
           /\ \E i \in 1..c : archive[i].kind = "episode" /\ archive[i].id \in Named(p)
<1> DEFINE c == PageEnd
<1>1. /\ Passed = 0 /\ page * PageSize = PageSize /\ PageSize \in Nat /\ Len(archive) \in Nat /\ archive \in Seq(Posts)
      /\ PostsOn(page) = SubSeq(archive, 0 + 1, c)
  <2>1. page >= 1 /\ archive \in Seq(Posts)
    BY DEF AnimeTyped
  <2>2. Passed = 0 /\ page * PageSize = PageSize
    <3>1. PageSize \in Nat
      BY Anime1Assumption
    <3> QED
      BY <3>1 DEF Passed
  <2> QED
    BY <2>1, <2>2, PageShows
<1>2. c \in 0..Len(archive)
  <2>1. page >= 1
    BY DEF AnimeTyped
  <2> QED
    BY <2>1, PageShows
<1> HIDE DEF c
<1>3. p.posts = SubSeq(archive, 0 + 1, c)
  BY <1>1 DEF Fits, PagesShown
<1>4. /\ p.posts \in Seq(Posts) /\ DOMAIN p.posts = 1..c
      /\ \A i \in 1..c : p.posts[i] = archive[i] /\ i \in 1..Len(archive)
  <2>1. 0 \in Nat /\ 0 <= c /\ c - 0 = c
    BY <1>2
  <2>2. \A i \in 1..c : 0 + i = i
    BY <1>2
  <2> QED
    BY <1>1, <1>2, <1>3, <2>1, <2>2, SubSeqIs
<1>5. newest \o EpisodesOf(p.posts) = EpisodesOf(SubSeq(archive, 1, c))
  BY <1>3, <1>4, EpisodesOfBoth
<1>6. Named(p) = {archive[i].id : i \in {j \in 1..c : archive[j].kind # "nameless"}}
  BY <1>4 DEF Named
<1>7. \E i \in 1..c : archive[i].kind = "episode" /\ archive[i].id \in Named(p)
  <2>1. PICK i \in DOMAIN p.posts : p.posts[i].kind = "episode"
    BY <1>4, PageHasEpisode DEF Fits
  <2> QED
    BY <1>4, <1>6, <2>1
<1> QED
  BY <1>2, <1>5, <1>6, <1>7 DEF c

LEMMA ShiftedFacts ==
  ASSUME AnimeTyped, Shifted
  PROVE  /\ archive \in Seq(Posts) /\ first \in Seq(Posts) /\ Shift \in Nat /\ Len(archive) = Shift + Len(first)
         /\ Len(first) \in Nat /\ DOMAIN first = 1..Len(first)
         /\ \A i \in 1..Len(first) : archive[Shift + i] = first[i] /\ Shift + i \in 1..Len(archive)
<1>1. archive \in Seq(Posts) /\ first \in Seq(Posts)
  BY DEF AnimeTyped
<1>2. Len(archive) \in Nat /\ Len(first) \in Nat /\ DOMAIN first = 1..Len(first)
  BY <1>1
<1>3. Shift \in Nat /\ Len(archive) = Shift + Len(first)
  BY <1>2 DEF Shifted, Shift
<1>4. \A i \in 1..Len(first) : archive[Shift + i] = first[i]
  BY <1>2 DEF Shifted
<1>5. \A i \in 1..Len(first) : Shift + i \in 1..Len(archive)
  BY <1>2, <1>3
<1> QED
  BY <1>1, <1>2, <1>3, <1>4, <1>5

\* A later page, of a call that was overtaken: it is not the last one.
LEMMA OvertakenPage ==
  ASSUME AnimeTyped, page > 1, Shifted, NEW i \in DOMAIN first, first[i].kind = "episode", first[i].id \in seen,
         Overtaken(i), NEW p, Fits(p)
  PROVE  page * PageSize < Shift + i /\ p.links # {}
<1> DEFINE b == PageEnd
<1>1. /\ Passed \in Nat /\ page * PageSize \in Nat /\ page * PageSize = Passed + PageSize /\ PageSize >= 1
      /\ Len(archive) \in Nat /\ PageSize \in Nat
      /\ PostsOn(page) = SubSeq(archive, Passed + 1, b) /\ b \in 0..Len(archive)
      /\ b = page * PageSize \/ b = Len(archive)
      /\ Len(archive) > page * PageSize <=> b # Len(archive)
  <2>1. page >= 1
    BY DEF AnimeTyped
  <2> QED
    BY <2>1, PageShows
<1>2. /\ archive \in Seq(Posts) /\ Shift \in Nat /\ i \in 1..Len(first) /\ Shift + i \in 1..Len(archive)
      /\ archive[Shift + i] = first[i]
  BY ShiftedFacts
<1>3. b \in 0..Len(archive) /\ p.posts = SubSeq(archive, Passed + 1, b)
  <2>1. p.posts = PostsOn(page)
    BY DEF Fits, PagesShown
  <2> QED
    BY <1>1, <2>1
<1>4. b < Shift + i
  <2> SUFFICES ASSUME Shift + i <= b PROVE FALSE
    BY <1>2, <1>3
  <2> DEFINE j == (Shift + i) - Passed
  <2>1. j \in 1..(b - Passed) /\ Passed + j = Shift + i
    <3>1. /\ Passed \in Nat /\ b \in Nat /\ Shift \in Nat /\ i \in Nat /\ Passed < Shift + i /\ Shift + i <= b
      <4>1. i \in Nat /\ Shift \in Nat
        BY <1>2
      <4>2. Passed \in Nat /\ b \in Nat
        BY <1>1, <1>3
      <4> QED
        BY <4>1, <4>2 DEF Overtaken
    <3> HIDE DEF b
    <3> QED
      BY <3>1
  <2>2. j \in DOMAIN p.posts /\ p.posts[j] = first[i]
    <3>1. /\ DOMAIN SubSeq(archive, Passed + 1, b) = 1..(b - Passed)
          /\ \A k \in 1..(b - Passed) : SubSeq(archive, Passed + 1, b)[k] = archive[Passed + k]
      BY <1>1, <1>2, <1>3, SubSeqIs
    <3> HIDE DEF j, b
    <3>2. p.posts[j] = archive[Passed + j]
      BY <1>3, <2>1, <3>1
    <3> QED
      BY <1>2, <1>3, <2>1, <3>1, <3>2
  <2>3. first[i].id \in Named(p)
    BY <2>2 DEF Named
  <2> QED
    BY <2>3 DEF Fits, Repeated
<1>5. page * PageSize < Len(archive) /\ b = page * PageSize
  BY <1>1, <1>2, <1>4
<1>6. p.links # {}
  BY <1>5, NoLinksIsLast
<1> QED
  BY <1>4, <1>5, <1>6

\* A later page of any other: it goes on where the one before it ended.
LEMMA LaterPage ==
  ASSUME AnimeTyped, page > 1, Shifted, NEW c \in 1..Len(first), GatheredTo(c), Passed >= Shift,
         NEW p, Fits(p)
  PROVE  \E e \in c..Len(first) :
           /\ newest \o EpisodesOf(p.posts) = EpisodesOf(SubSeq(first, 1, e))
           /\ seen \cup Named(p) = NamedUpTo(e)
           /\ page * PageSize - Shift <= e \/ e = Len(first)
           /\ p.links = {} => e = Len(first)
<1> DEFINE b == PageEnd
           s == Passed - Shift
           e == b - Shift
<1>1. /\ Passed \in Nat /\ page * PageSize \in Nat /\ page * PageSize = Passed + PageSize /\ PageSize >= 1
      /\ Len(archive) \in Nat /\ PageSize \in Nat
      /\ PostsOn(page) = SubSeq(archive, Passed + 1, b) /\ b \in 0..Len(archive)
      /\ b = page * PageSize \/ b = Len(archive)
      /\ Len(archive) > page * PageSize <=> b # Len(archive)
  <2>1. page >= 1
    BY DEF AnimeTyped
  <2> QED
    BY <2>1, PageShows
<1>2. /\ archive \in Seq(Posts) /\ first \in Seq(Posts) /\ Shift \in Nat /\ Len(archive) = Shift + Len(first)
      /\ Len(first) \in Nat /\ \A i \in 1..Len(first) : archive[Shift + i] = first[i]
  BY ShiftedFacts
<1>3. c \in Nat /\ 1 <= c /\ c <= Len(first)
  BY <1>2
<1>4. b \in 0..Len(archive) /\ b \in Nat
  BY <1>1
<1>5. s \in Nat /\ Passed = Shift + s
  BY <1>1, <1>2
<1>6. p.posts = SubSeq(archive, Passed + 1, b)
  BY <1>1 DEF Fits, PagesShown
<1>7. p.posts \in Seq(Posts) /\ DOMAIN p.posts = 1..(b - Passed) /\ \A j \in 1..(b - Passed) : p.posts[j] = archive[Passed + j]
  BY <1>1, <1>2, <1>4, <1>6, SubSeqIs
<1>8. PICK h \in 1..(b - Passed) : p.posts[h].kind = "episode"
  BY <1>7, PageHasEpisode DEF Fits
<1>9. e \in Nat /\ s < e /\ e <= Len(first) /\ b - Passed = e - s /\ b = Shift + e
  <2> HIDE DEF b
  <2>1. /\ Passed \in Nat /\ b \in Nat /\ Shift \in Nat /\ Len(first) \in Nat /\ s \in Nat /\ Passed = Shift + s
        /\ b <= Shift + Len(first)
    BY <1>1, <1>2, <1>4, <1>5
  <2>2. b - Passed >= 1
    BY <1>8, <2>1
  <2> HIDE DEF s
  <2>3. e = b - Shift
    OBVIOUS
  <2> QED
    BY <2>1, <2>2, <2>3
<1> HIDE DEF b, s, e
<1>n. /\ Passed \in Nat /\ Shift \in Nat /\ Len(first) \in Nat /\ s \in Nat /\ e \in Nat /\ b \in Nat /\ c \in Nat
      /\ Passed = Shift + s /\ s < e /\ e <= Len(first) /\ b = Shift + e /\ b - Passed = e - s
  BY <1>1, <1>2, <1>3, <1>4, <1>5, <1>9
<1>10. ASSUME NEW j \in 1..(e - s) PROVE s + j \in 1..Len(first) /\ p.posts[j] = first[s + j] /\ j \in DOMAIN p.posts
  <2>1. j \in 1..(b - Passed) /\ s + j \in 1..Len(first) /\ Passed + j = Shift + (s + j)
    BY <1>n
  <2> QED
    BY <1>2, <1>7, <2>1
<1>11. ASSUME NEW j \in 1..(e - s), s + j <= c PROVE first[s + j].kind = "nameless"
  <2> SUFFICES ASSUME first[s + j].kind # "nameless" PROVE FALSE
    OBVIOUS
  <2>1. first[s + j].id \in Named(p)
    BY <1>10 DEF Named
  <2>2. s + j \in 1..c
    BY <1>5, <1>11
  <2>3. first[s + j].id \in seen
    BY <2>2 DEF GatheredTo, NamedUpTo
  <2> QED
    BY <2>1, <2>3 DEF Fits, Repeated
<1>12. c < e
  <2> SUFFICES ASSUME e <= c PROVE FALSE
    BY <1>2, <1>9
  <2>1. h \in 1..(e - s) /\ s + h <= c
    <3>1. h \in 1..(e - s)
      BY <1>8, <1>9
    <3> QED
      BY <1>n, <3>1
  <2>2. first[s + h].kind = "nameless" /\ p.posts[h] = first[s + h]
    BY <1>10, <1>11, <2>1
  <2> QED
    BY <1>8, <2>2
<1>13. s <= c
  BY <1>2, <1>5, <1>9, <1>12 DEF GatheredTo, s
<1>14. newest \o EpisodesOf(p.posts) = EpisodesOf(SubSeq(first, 1, e))
  <2>1. \A i \in (s + 1)..c : first[i].kind = "nameless"
    <3> SUFFICES ASSUME NEW i \in (s + 1)..c PROVE first[i].kind = "nameless"
      OBVIOUS
    <3>1. i - s \in 1..(e - s) /\ s + (i - s) = i /\ i <= c
      BY <1>n, <1>12
    <3> QED
      BY <1>11, <3>1
  <2>2. p.posts = SubSeq(first, s + 1, e)
    <3>1. /\ SubSeq(first, s + 1, e) \in Seq(Posts) /\ Len(SubSeq(first, s + 1, e)) = e - s
          /\ \A i \in 1..(e - s) : SubSeq(first, s + 1, e)[i] = first[s + i]
      <4>1. e \in 0..Len(first) /\ s <= e
        BY <1>2, <1>5, <1>9
      <4> QED
        BY <1>2, <1>5, <4>1, SubSeqIs
    <3>2. Len(p.posts) = e - s
      <4>1. DOMAIN p.posts = 1..Len(p.posts) /\ Len(p.posts) \in Nat /\ e - s \in Nat /\ DOMAIN p.posts = 1..(e - s)
        BY <1>5, <1>7, <1>9
      <4> QED
        BY <4>1
    <3>3. \A i \in 1..Len(p.posts) : p.posts[i] = SubSeq(first, s + 1, e)[i]
      BY <1>10, <3>1, <3>2
    <3> DEFINE part == SubSeq(first, s + 1, e)
               shown == p.posts
    <3>4. part \in Seq(Posts) /\ shown \in Seq(Posts) /\ Len(shown) = Len(part) /\ \A i \in 1..Len(shown) : shown[i] = part[i]
      BY <1>7, <3>1, <3>2, <3>3
    <3> HIDE DEF part, shown
    <3>5. shown = part
      BY <3>4, SeqEqual
    <3> QED
      BY <3>5 DEF part, shown
  <2>3. newest = EpisodesOf(SubSeq(first, 1, c))
    BY DEF GatheredTo
  <2>4. e \in 0..Len(first) /\ c <= e
    BY <1>2, <1>9, <1>12
  <2>5. EpisodesOf(SubSeq(first, 1, c)) \o EpisodesOf(SubSeq(first, s + 1, e)) = EpisodesOf(SubSeq(first, 1, e))
    <3>1. /\ first \in Seq(Posts) /\ s \in Nat /\ c \in Nat /\ e \in 0..Len(first) /\ s <= c /\ c <= e
          /\ \A i \in (s + 1)..c : first[i].kind = "nameless"
      BY <1>2, <1>n, <1>13, <2>1, <2>4
    <3> QED
      BY <3>1, OverlapAddsNothing
  <2> QED
    BY <2>2, <2>3, <2>5
<1>15. seen \cup Named(p) = NamedUpTo(e)
  <2>1. seen = NamedUpTo(c) /\ c <= e
    BY <1>2, <1>9, <1>12 DEF GatheredTo
  <2>2. ASSUME NEW x \in Named(p) PROVE x \in NamedUpTo(e)
    <3>1. PICK j \in DOMAIN p.posts : p.posts[j].kind # "nameless" /\ x = p.posts[j].id
      BY DEF Named
    <3>2. j \in 1..(e - s)
      BY <1>7, <1>9
    <3>3. s + j \in 1..e /\ p.posts[j] = first[s + j]
      BY <1>5, <1>9, <1>10, <3>2
    <3> QED
      BY <3>1, <3>3 DEF NamedUpTo
  <2>3. ASSUME NEW x \in NamedUpTo(c) PROVE x \in NamedUpTo(e)
    BY <1>2, <1>9, <2>1 DEF NamedUpTo
  <2>4. ASSUME NEW x \in NamedUpTo(e) PROVE x \in NamedUpTo(c) \/ x \in Named(p)
    <3>1. PICK i \in 1..e : first[i].kind # "nameless" /\ x = first[i].id
      BY DEF NamedUpTo
    <3>2. CASE i <= c
      BY <1>2, <1>9, <3>1, <3>2 DEF NamedUpTo
    <3>3. CASE i > c
      <4>1. i - s \in 1..(e - s) /\ s + (i - s) = i
        BY <1>2, <1>5, <1>9, <1>13, <3>3
      <4>2. i - s \in DOMAIN p.posts /\ p.posts[i - s] = first[i]
        BY <1>10, <4>1
      <4> QED
        BY <3>1, <4>2 DEF Named
    <3> QED
      BY <1>2, <1>9, <3>2, <3>3
  <2> QED
    BY <2>1, <2>2, <2>3, <2>4
<1>16. page * PageSize - Shift <= e \/ e = Len(first)
  BY <1>1, <1>2, <1>9
<1>17. p.links = {} => e = Len(first)
  <2> SUFFICES ASSUME p.links = {} PROVE e = Len(first)
    OBVIOUS
  <2>1. ~(Len(archive) > page * PageSize)
    BY NoLinksIsLast
  <2>2. b = Len(archive)
    BY <1>1, <2>1
  <2> QED
    BY <1>2, <1>9, <2>2
<1>18. e \in c..Len(first)
  BY <1>2, <1>9, <1>12
<1> QED
  BY <1>14, <1>15, <1>16, <1>17, <1>18

\* Whatever ends a call without an answer.
LEMMA FailsStep ==
  ASSUME AnimeInv, Return(Failed), posted' \in Seq(Nat), Len(posted') <= 1, newest' \in Seq(Posts), first' \in Seq(Posts), page' \in Nat \ {0}
  PROVE  AnimeInv'
<1>1. AnimeTyped'
  BY DEF AnimeInv, AnimeTyped, Return, siteVars
<1>2. Calls'
  BY DEF Return, Calls, Failed, None
<1>3. ListInv'
  BY DEF Return, ListInv
<1>4. AnswerIsTheSites'
  BY DEF Return, AnswerIsTheSites, ListIsTheArchive, FoundIsInCatalog, StreamIsItsEpisode, Failed
<1> QED
  BY <1>1, <1>2, <1>3, <1>4 DEF AnimeInv

\* A step that leaves the call where it is.
LEMMA WaitsStep ==
  ASSUME AnimeInv, UNCHANGED <<siteVars, listVars, asked, at, posted, reply>>, live' \in BOOLEAN
  PROVE  AnimeInv'
<1>1. UNCHANGED <<archive, lastId, withdrawn, page, newest, seen, first, asked, at, posted, reply>>
  BY DEF siteVars, listVars
<1>2. AnimeTyped'
  BY <1>1 DEF AnimeInv, AnimeTyped
<1>3. Calls'
  BY <1>1 DEF AnimeInv, Calls
<1>4. ListInv'
  <2>1. Gathering' = Gathering
    BY <1>1 DEF Gathering, Shifted, Shift, Overtaken, GatheredTo, Passed, NamedUpTo
  <2> QED
    BY <1>1, <2>1 DEF AnimeInv, ListInv
<1>5. AnswerIsTheSites'
  BY <1>1 DEF AnimeInv, AnswerIsTheSites, ListIsTheArchive, FoundIsInCatalog, StreamIsItsEpisode
<1> QED
  BY <1>2, <1>3, <1>4, <1>5 DEF AnimeInv

LEMMA InitHolds == AnimeInit => AnimeInv
<1> SUFFICES ASSUME AnimeInit PROVE AnimeInv
  OBVIOUS
<1>1. AnimeTyped
  <2>1. archive \in Seq(Posts) /\ lastId \in Nat
    <3>1. PICK n \in 0..MaxPosts : \E k \in [1..n -> PostKinds] :
            lastId = n /\ archive = [i \in 1..n |-> [id |-> n + 1 - i, kind |-> k[i]]]
      BY DEF AnimeInit
    <3>2. PICK k \in [1..n -> PostKinds] : lastId = n /\ archive = [i \in 1..n |-> [id |-> n + 1 - i, kind |-> k[i]]]
      BY <3>1
    <3>3. n \in Nat
      BY Anime1Assumption
    <3>4. \A i \in 1..n : [id |-> n + 1 - i, kind |-> k[i]] \in Posts
      BY <3>3 DEF Posts
    <3> QED
      BY <3>2, <3>3, <3>4
  <2>2. asked \in [what : {"nothing", "catalog", "episodes", "stream"}, id : Nat]
    BY DEF AnimeInit, Ask
  <2>3. first = <<>> /\ newest = <<>> /\ posted = <<>> /\ page = 1 /\ withdrawn = FALSE /\ live = TRUE /\ at = "idle"
    BY DEF AnimeInit
  <2>4. first \in Seq(Posts) /\ newest \in Seq(Posts) /\ posted \in Seq(Nat) /\ page \in Nat \ {0}
    BY <2>3
  <2>5. withdrawn \in BOOLEAN /\ live \in BOOLEAN /\ at \in {"idle", "page", "stream"}
    BY <2>3
  <2> QED
    BY <2>1, <2>2, <2>4, <2>5 DEF AnimeTyped
<1>2. Calls
  BY DEF AnimeInit, Calls
<1>3. ListInv
  BY DEF AnimeInit, ListInv
<1>4. AnswerIsTheSites
  BY DEF AnimeInit, AnswerIsTheSites, ListIsTheArchive, FoundIsInCatalog, StreamIsItsEpisode, None
<1> QED
  BY <1>1, <1>2, <1>3, <1>4 DEF AnimeInv

\* A new post shifts what is listed already.
LEMMA NewPostStep == AnimeInv /\ NewPost => AnimeInv'
<1> SUFFICES ASSUME AnimeInv, NewPost PROVE AnimeInv'
  OBVIOUS
<1> DEFINE new == [id |-> lastId + 1, kind |-> "episode"]
<1>1. /\ archive' = <<new>> \o archive /\ lastId' = lastId + 1 /\ at # "idle"
      /\ UNCHANGED <<withdrawn, live, page, newest, seen, first, asked, at, posted, reply>>
  BY DEF NewPost, listVars
<1>2. /\ archive \in Seq(Posts) /\ first \in Seq(Posts) /\ new \in Posts /\ archive' \in Seq(Posts) /\ Len(archive') = Len(archive) + 1
      /\ lastId' \in Nat
  <2>1. archive \in Seq(Posts) /\ first \in Seq(Posts) /\ lastId \in Nat
    BY DEF AnimeInv, AnimeTyped
  <2>2. new \in Posts
    BY <2>1 DEF Posts, PostKinds
  <2> HIDE DEF new
  <2> QED
    BY <1>1, <2>1, <2>2
<1>3. AnimeTyped'
  BY <1>1, <1>2 DEF AnimeInv, AnimeTyped
<1>4. Calls'
  BY <1>1 DEF AnimeInv, Calls
<1>5. Shifted => Shift' = Shift + 1 /\ Shifted' /\ Shift \in Nat
  <2> SUFFICES ASSUME Shifted PROVE Shift' = Shift + 1 /\ Shifted' /\ Shift \in Nat
    OBVIOUS
  <2>1. /\ Shift \in Nat /\ Len(archive) = Shift + Len(first) /\ Len(first) \in Nat /\ DOMAIN first = 1..Len(first)
        /\ \A i \in 1..Len(first) : archive[Shift + i] = first[i] /\ Shift + i \in 1..Len(archive)
    BY ShiftedFacts DEF AnimeInv
  <2>2. Shift' = Shift + 1
    BY <1>1, <1>2, <2>1 DEF Shift
  <2>3. \A i \in 1..Len(archive) : archive'[1 + i] = archive[i]
    <3> HIDE DEF new
    <3> QED
      BY <1>1, <1>2
  <2>4. ASSUME NEW i \in DOMAIN first PROVE archive'[(Shift + 1) + i] = first[i]
    <3>1. Shift + i \in 1..Len(archive) /\ (Shift + 1) + i = 1 + (Shift + i) /\ archive[Shift + i] = first[i]
      BY <2>1
    <3> QED
      BY <2>3, <3>1
  <2> QED
    BY <1>1, <2>1, <2>2, <2>4 DEF Shifted
<1>6. ListInv'
  <2> SUFFICES ASSUME (at = "page" /\ asked.what = "episodes" /\ ~withdrawn)' PROVE Gathering'
    BY DEF ListInv
  <2>1. Gathering
    BY <1>1 DEF AnimeInv, ListInv
  <2>2. CASE page = 1 /\ newest = <<>> /\ seen = {}
    BY <1>1, <2>2 DEF Gathering
  <2>3. CASE page # 1
    <3>1. page > 1 /\ Shifted
      BY <2>1, <2>3 DEF Gathering
    <3>2. PICK i \in DOMAIN first : /\ first[i].kind = "episode" /\ first[i].id \in seen
                                    /\ Overtaken(i) \/ \E c \in i..Len(first) : GatheredTo(c)
      BY <2>1, <2>3 DEF Gathering
    <3>3. Passed' = Passed /\ Passed \in Int /\ Shift' = Shift + 1 /\ Shift \in Nat /\ i \in Nat /\ Len(first) \in Nat
      <4>1. page \in Nat /\ page >= 1
        BY <3>1 DEF AnimeInv, AnimeTyped
      <4>2. Passed \in Nat
        BY <4>1, PagesAreCounted DEF Passed
      <4> QED
        BY <1>1, <1>2, <1>5, <3>1, <4>2 DEF Passed
    <3>4. Overtaken(i) => Overtaken(i)'
      BY <1>1, <3>3 DEF Overtaken
    <3>5. ASSUME NEW c \in i..Len(first), GatheredTo(c) PROVE GatheredTo(c)'
      <4>1. Passed - Shift <= c => Passed' - Shift' <= c
        BY <3>3
      <4>2. newest' = EpisodesOf(SubSeq(first, 1, c))' /\ seen' = NamedUpTo(c)'
        BY <1>1, <3>5 DEF GatheredTo, NamedUpTo
      <4> QED
        BY <1>1, <3>5, <4>1, <4>2 DEF GatheredTo
    <3> QED
      BY <1>1, <1>5, <3>1, <3>2, <3>4, <3>5 DEF Gathering
  <2> QED
    BY <2>1, <2>2, <2>3 DEF Gathering
<1>7. AnswerIsTheSites'
  <2>1. reply = None
    BY <1>1 DEF AnimeInv, Calls
  <2> QED
    BY <1>1, <2>1 DEF AnimeInv, AnswerIsTheSites, ListIsTheArchive, FoundIsInCatalog, StreamIsItsEpisode, None
<1> QED
  BY <1>3, <1>4, <1>6, <1>7 DEF AnimeInv

LEMMA WithdrawStep == AnimeInv /\ Withdraw => AnimeInv'
<1> SUFFICES ASSUME AnimeInv, Withdraw PROVE AnimeInv'
  OBVIOUS
<1>1. withdrawn' /\ withdrawn' = TRUE /\ at # "idle" /\ UNCHANGED <<lastId, live, page, newest, seen, first, asked, at, posted, reply>>
  BY DEF Withdraw, listVars
<1>2. archive' \in Seq(Posts)
  <2>1. archive \in Seq(Posts)
    BY DEF AnimeInv, AnimeTyped
  <2>2. PICK i \in DOMAIN archive : archive' = RemoveAt(archive, i)
    BY DEF Withdraw
  <2> QED
    BY <2>1, <2>2 DEF RemoveAt
<1>3. AnimeTyped'
  BY <1>1, <1>2 DEF AnimeInv, AnimeTyped
<1>4. Calls'
  BY <1>1 DEF AnimeInv, Calls
<1>5. ListInv'
  BY <1>1 DEF ListInv
<1>6. AnswerIsTheSites'
  <2>1. reply = None
    BY <1>1 DEF AnimeInv, Calls
  <2> QED
    BY <1>1, <2>1 DEF AnimeInv, AnswerIsTheSites, ListIsTheArchive, FoundIsInCatalog, StreamIsItsEpisode, None
<1> QED
  BY <1>3, <1>4, <1>5, <1>6 DEF AnimeInv

LEMMA AskStep ==
  ASSUME AnimeInv, NEW what, what \in [what : {"nothing", "catalog", "episodes", "stream"}, id : Nat], Asks(what)
  PROVE  AnimeInv'
<1>1. /\ at = "idle" /\ reply = None /\ asked' = what /\ at' = "page"
      /\ UNCHANGED <<archive, lastId, withdrawn, live, page, newest, seen, first, posted, reply>>
  BY DEF Asks, siteVars, listVars
<1>2. page = 1 /\ newest = <<>> /\ seen = {} /\ posted = <<>>
  BY <1>1 DEF AnimeInv, Calls
<1>3. AnimeTyped'
  BY <1>1 DEF AnimeInv, AnimeTyped
<1>4. Calls'
  BY <1>1, <1>2 DEF Calls
<1>5. ListInv'
  BY <1>1, <1>2 DEF ListInv, Gathering
<1>6. AnswerIsTheSites'
  BY <1>1, <1>2 DEF AnimeInv, AnswerIsTheSites, ListIsTheArchive, FoundIsInCatalog, StreamIsItsEpisode, None
<1> QED
  BY <1>3, <1>4, <1>5, <1>6 DEF AnimeInv

\* A page fails the call, ends it with the list, or leads to the next.
LEMMA PageStep == AnimeInv /\ PageArrives => AnimeInv'
<1> SUFFICES ASSUME AnimeInv, PageArrives PROVE AnimeInv'
  OBVIOUS
<1>1. /\ at = "page" /\ asked.what = "episodes" /\ posted' = posted
      /\ first' = IF page = 1 THEN archive ELSE first
  BY DEF PageArrives
<1>2. PICK p \in PagesShown(page) :
        /\ newest' = newest \o EpisodesOf(p.posts) /\ seen' = seen \cup Named(p)
        /\ \/ Return(Failed) /\ UNCHANGED <<page, prefix>>
           \/ /\ WellFormed(p) /\ ~Repeated(p)
              /\ \/ p.links = {} /\ Return(ListOf(OldestFirst(newest'))) /\ UNCHANGED <<page, prefix>>
                 \/ \E l \in p.links : Follows(l) /\ Continue(p, l)
  BY DEF PageArrives
<1>3. /\ archive \in Seq(Posts) /\ first \in Seq(Posts) /\ newest \in Seq(Posts) /\ posted = <<>> /\ page \in Nat \ {0}
      /\ first' \in Seq(Posts)
  BY <1>1 DEF AnimeInv, AnimeTyped, Calls
<1>4. newest' \in Seq(Posts)
  <2>1. p.posts = PostsOn(page)
    BY DEF PagesShown
  <2>2. PostsOn(page) \in Seq(Posts)
    <3>1. page >= 1 /\ AnimeTyped
      BY <1>3 DEF AnimeInv
    <3>2. /\ PostsOn(page) = SubSeq(archive, Passed + 1, PageEnd) /\ Passed \in Nat
          /\ PageEnd \in Nat /\ PageEnd <= Len(archive) /\ Len(archive) \in Nat
      BY <3>1, PageShows
    <3>3. PageEnd \in 0..Len(archive)
      BY <3>2
    <3> QED
      BY <1>3, <3>2, <3>3, SubSeqIs
  <2> QED
    BY <1>2, <1>3, <2>1, <2>2, EpisodesOfBoth
<1>5. CASE Return(Failed) /\ UNCHANGED <<page, prefix>>
  BY <1>1, <1>3, <1>4, <1>5, FailsStep
<1>6. ASSUME WellFormed(p), ~Repeated(p)
      PROVE  Fits(p)
  BY <1>6 DEF Fits
<1>7. ASSUME ~withdrawn, page = 1, Fits(p)
      PROVE  /\ newest = <<>> /\ seen = {}
             /\ \E c \in 0..Len(archive) :
                  /\ c = PageEnd
                  /\ newest' = EpisodesOf(SubSeq(archive, 1, c))
                  /\ seen' = {archive[i].id : i \in {j \in 1..c : archive[j].kind # "nameless"}}
                  /\ \E i \in 1..c : archive[i].kind = "episode" /\ archive[i].id \in Named(p)
  <2>1. newest = <<>> /\ seen = {}
    BY <1>1, <1>7 DEF AnimeInv, ListInv, Gathering
  <2> QED
    BY <1>2, <1>7, <2>1, FirstPage DEF AnimeInv
<1>8. ASSUME ~withdrawn, page # 1, Fits(p)
      PROVE  /\ page > 1 /\ Shifted
             /\ \E i \in DOMAIN first :
                  /\ first[i].kind = "episode" /\ first[i].id \in seen
                  /\ \/ page * PageSize < Shift + i /\ p.links # {}
                     \/ \E e \in i..Len(first) :
                          /\ newest' = EpisodesOf(SubSeq(first, 1, e)) /\ seen' = NamedUpTo(e)
                          /\ page * PageSize - Shift <= e \/ e = Len(first)
                          /\ p.links = {} => e = Len(first)
  <2>1. Gathering /\ AnimeTyped
    BY <1>1, <1>8 DEF AnimeInv, ListInv
  <2>2. page > 1 /\ Shifted
    BY <1>8, <2>1 DEF Gathering
  <2>3. PICK i \in DOMAIN first : /\ first[i].kind = "episode" /\ first[i].id \in seen
                                  /\ Overtaken(i) \/ \E c \in i..Len(first) : GatheredTo(c)
    BY <1>8, <2>1 DEF Gathering
  <2>4. CASE Overtaken(i)
    BY <1>8, <2>1, <2>2, <2>3, <2>4, OvertakenPage
  <2>5. CASE ~Overtaken(i)
    <3>1. PICK c \in i..Len(first) : GatheredTo(c)
      BY <2>3, <2>5
    <3>2. i \in Nat /\ 1 <= i /\ Shift \in Nat /\ Len(first) \in Nat
      BY <2>1, <2>2, ShiftedFacts
    <3>3. Passed \in Nat
      <4>1. page >= 1
        BY <1>3, <2>2
      <4> QED
        BY <2>1, <4>1, PageShows
    <3>4. c \in 1..Len(first) /\ Passed >= Shift
      BY <2>5, <3>1, <3>2, <3>3 DEF Overtaken
    <3>5. PICK e \in c..Len(first) :
             /\ newest \o EpisodesOf(p.posts) = EpisodesOf(SubSeq(first, 1, e))
             /\ seen \cup Named(p) = NamedUpTo(e)
             /\ page * PageSize - Shift <= e \/ e = Len(first)
             /\ p.links = {} => e = Len(first)
      BY <1>8, <2>1, <2>2, <3>1, <3>4, LaterPage
    <3>6. e \in i..Len(first)
      BY <3>1, <3>2
    <3> QED
      BY <1>2, <2>2, <2>3, <3>5, <3>6
  <2> QED
    BY <2>4, <2>5
<1>9. CASE WellFormed(p) /\ ~Repeated(p) /\ p.links = {} /\ Return(ListOf(OldestFirst(newest'))) /\ UNCHANGED <<page, prefix>>
  <2>1. /\ reply' = ListOf(OldestFirst(newest')) /\ reply'.kind = "list" /\ reply'.ids = OldestFirst(newest') /\ at' = "idle"
        /\ UNCHANGED <<archive, lastId, withdrawn, asked, live, page>>
    BY <1>9 DEF Return, ListOf, siteVars
  <2>2. ~withdrawn => newest' = EpisodesOf(first')
    <3> SUFFICES ASSUME ~withdrawn PROVE newest' = EpisodesOf(first')
      OBVIOUS
    <3>1. Fits(p)
      BY <1>6, <1>9
    <3>2. first' \in Seq(Posts) => SubSeq(first', 1, Len(first')) = first'
      OBVIOUS
    <3>3. CASE page = 1
      <4>1. PageEnd = Len(archive)
        <5>1. ~(Len(archive) > page * PageSize)
          BY <1>9, <3>1, NoLinksIsLast
        <5>2. page >= 1
          BY <3>3
        <5> QED
          BY <5>1, <5>2, PageShows DEF AnimeInv
      <4> QED
        BY <1>1, <1>3, <1>7, <3>1, <3>2, <3>3, <4>1
    <3>4. CASE page # 1
      BY <1>1, <1>3, <1>8, <1>9, <3>1, <3>2, <3>4
    <3> QED
      BY <3>3, <3>4
  <2>3. AnimeTyped'
    BY <1>1, <1>3, <1>4, <2>1 DEF AnimeInv, AnimeTyped
  <2>4. Calls'
    BY <1>1, <2>1 DEF Calls, None
  <2>5. ListInv'
    BY <2>1 DEF ListInv
  <2>6. AnswerIsTheSites'
    BY <1>1, <1>3, <2>1, <2>2 DEF AnswerIsTheSites, ListIsTheArchive, FoundIsInCatalog, StreamIsItsEpisode
  <2> QED
    BY <2>3, <2>4, <2>5, <2>6 DEF AnimeInv
<1>10. CASE WellFormed(p) /\ ~Repeated(p) /\ \E l \in p.links : Follows(l) /\ Continue(p, l)
  <2>1. page' = page + 1 /\ UNCHANGED <<archive, lastId, withdrawn, asked, at, live, reply>>
    BY <1>10 DEF Follows, Continue, siteVars
  <2>2. Fits(p)
    BY <1>6, <1>10
  <2>3. page' \in Nat \ {0} /\ (page' - 1) * PageSize = page * PageSize
    BY <1>3, <2>1
  <2>4. AnimeTyped'
    BY <1>1, <1>3, <1>4, <2>1, <2>3 DEF AnimeInv, AnimeTyped
  <2>5. reply = None
    BY <1>1 DEF AnimeInv, Calls
  <2>6. Calls'
    BY <1>1, <1>3, <2>1, <2>5 DEF Calls
  <2>7. AnswerIsTheSites'
    BY <1>1, <1>3, <2>1, <2>5 DEF AnswerIsTheSites, ListIsTheArchive, FoundIsInCatalog, StreamIsItsEpisode, None
  <2>8. ~withdrawn => Gathering'
    <3>1. ASSUME ~withdrawn, page = 1 PROVE Gathering'
      <4>1. PICK c \in 0..Len(archive) :
                  /\ c = PageEnd
                  /\ newest' = EpisodesOf(SubSeq(archive, 1, c))
                  /\ seen' = {archive[i].id : i \in {j \in 1..c : archive[j].kind # "nameless"}}
                  /\ \E i \in 1..c : archive[i].kind = "episode" /\ archive[i].id \in Named(p)
        BY <1>7, <2>2, <3>1
      <4>2. PICK i \in 1..c : archive[i].kind = "episode" /\ archive[i].id \in Named(p)
        BY <4>1
      <4>3. first' = archive /\ archive' = archive /\ Len(archive) \in Nat /\ c \in Nat
        BY <1>1, <1>3, <2>1, <3>1
      <4>4. Shift' = 0 /\ Shifted'
        <5>1. Shift' = 0
          BY <4>3 DEF Shift
        <5>2. \A j \in DOMAIN archive : 0 + j = j
          BY <1>3
        <5> QED
          BY <4>3, <5>1, <5>2 DEF Shifted
      <4>5. Passed' - Shift' <= c \/ c = Len(first')
        <5>1. page >= 1
          BY <3>1
        <5>2. /\ page * PageSize \in Nat
              /\ PageEnd = page * PageSize \/ PageEnd = Len(archive)
          BY <5>1, PageShows DEF AnimeInv
        <5> QED
          BY <2>3, <4>1, <4>3, <4>4, <5>2 DEF Passed
      <4>6. GatheredTo(c)'
        BY <4>1, <4>3, <4>5 DEF GatheredTo, NamedUpTo
      <4>7. i \in DOMAIN first' /\ c \in i..Len(first') /\ first'[i].kind = "episode" /\ first'[i].id \in seen'
        <5>1. i \in 1..Len(archive) /\ c \in i..Len(archive)
          BY <4>3
        <5> QED
          BY <1>2, <1>3, <4>2, <4>3, <5>1
      <4>8. page' > 1
        BY <2>1, <3>1
      <4> QED
        BY <4>4, <4>6, <4>7, <4>8 DEF Gathering
    <3>2. ASSUME ~withdrawn, page # 1 PROVE Gathering'
      <4>1. page > 1 /\ Shifted
        BY <1>8, <2>2, <3>2
      <4>2. PICK i \in DOMAIN first :
                  /\ first[i].kind = "episode" /\ first[i].id \in seen
                  /\ \/ page * PageSize < Shift + i
                     \/ \E e \in i..Len(first) :
                          /\ newest' = EpisodesOf(SubSeq(first, 1, e)) /\ seen' = NamedUpTo(e)
                          /\ page * PageSize - Shift <= e \/ e = Len(first)
        BY <1>8, <2>2, <3>2
      <4>3. first' = first /\ archive' = archive /\ Shift' = Shift /\ Passed' = page * PageSize /\ Shifted' /\ page' > 1
        BY <1>1, <1>3, <2>1, <2>3, <3>2, <4>1 DEF Shift, Shifted, Passed
      <4>4. first[i].id \in seen'
        BY <1>2, <4>2
      <4>5. page * PageSize < Shift + i => Overtaken(i)'
        BY <4>3 DEF Overtaken
      <4>6. ASSUME NEW e \in i..Len(first), newest' = EpisodesOf(SubSeq(first, 1, e)), seen' = NamedUpTo(e),
                   page * PageSize - Shift <= e \/ e = Len(first)
            PROVE  GatheredTo(e)'
        BY <4>3, <4>6 DEF GatheredTo, NamedUpTo
      <4> QED
        BY <4>2, <4>3, <4>4, <4>5, <4>6 DEF Gathering
    <3> QED
      BY <3>1, <3>2
  <2>9. ListInv'
    BY <2>1, <2>8 DEF ListInv
  <2> QED
    BY <2>4, <2>6, <2>7, <2>9 DEF AnimeInv
<1> QED
  BY <1>2, <1>5, <1>9, <1>10

-----------------------------------------------------------------------------
(* Its catalog and its streams.                                            *)

\* The k-th of a set of numbers is there.
LEMMA KthExists ==
  ASSUME NEW n \in Nat, NEW S \in SUBSET (1..n), NEW k \in 1..Cardinality(S)
  PROVE  \E i \in S : k = Cardinality({j \in 1..i : j \in S})
<1> DEFINE Below(m) == {j \in 1..m : j \in S}
           T == {m \in Nat : Cardinality(Below(m)) >= k}
<1>1. \A m \in Nat : IsFiniteSet(Below(m)) /\ Cardinality(Below(m)) \in Nat
  <2> SUFFICES ASSUME NEW m \in Nat PROVE IsFiniteSet(Below(m)) /\ Cardinality(Below(m)) \in Nat
    OBVIOUS
  <2>1. IsFiniteSet(1..m)
    BY FS_Interval
  <2>2. Below(m) \subseteq 1..m
    OBVIOUS
  <2>3. IsFiniteSet(Below(m))
    BY <2>1, <2>2, FS_Subset
  <2> QED
    BY <2>3, FS_CardinalityType
<1>2. Below(n) = S
  OBVIOUS
<1>3. T \in SUBSET Nat /\ n \in T
  BY <1>1, <1>2
<1>4. PICK m \in T : \A l \in T : m <= l
  <2> HIDE DEF T
  <2> QED
    BY <1>3, LeastNumber
<1>5. m \in Nat /\ Cardinality(Below(m)) >= k
  BY <1>4
<1>6. m # 0
  <2> SUFFICES ASSUME m = 0 PROVE FALSE
    OBVIOUS
  <2>1. Below(m) = {}
    OBVIOUS
  <2> QED
    BY <1>5, <2>1, FS_EmptySet
<1>7. m - 1 \in Nat /\ ~(Cardinality(Below(m - 1)) >= k)
  <2>1. m - 1 \in Nat
    BY <1>5, <1>6
  <2>2. m - 1 \notin T
    BY <1>4, <1>5, <2>1
  <2> QED
    BY <2>1, <2>2
<1>8. m \in S
  <2> SUFFICES ASSUME m \notin S PROVE FALSE
    OBVIOUS
  <2>1. Below(m) = Below(m - 1)
    BY <1>5, <1>7
  <2> QED
    BY <1>5, <1>7, <2>1
<1>9. Cardinality(Below(m)) = Cardinality(Below(m - 1)) + 1
  <2>1. Below(m) = Below(m - 1) \cup {m} /\ m \notin Below(m - 1)
    BY <1>5, <1>7, <1>8
  <2> QED
    BY <1>1, <1>7, <2>1, FS_AddElement
<1>10. Cardinality(Below(m)) = k
  <2>1. Cardinality(Below(m)) \in Nat /\ Cardinality(Below(m - 1)) \in Nat /\ k \in Nat
    <3>1. Cardinality(S) \in Nat
      BY <1>1, <1>2
    <3> QED
      BY <1>1, <1>5, <1>7, <3>1
  <2> HIDE DEF Below
  <2> QED
    BY <1>5, <1>7, <1>9, <2>1
<1> QED
  BY <1>8, <1>10

\* A row of the catalog is a valid row of the page, the first one of its id.
LEMMA CatalogIs ==
  ASSUME NEW n \in Nat, NEW rows \in [1..n -> CatalogRows]
  PROVE  /\ Catalog(rows) \in Seq(CatalogRows)
         /\ \A k \in DOMAIN Catalog(rows) : \E i \in 1..n : Catalog(rows)[k] = rows[i]
         /\ \A k, l \in DOMAIN Catalog(rows) : Catalog(rows)[k].id = Catalog(rows)[l].id => k = l
<1> DEFINE isFirst(i) == ValidRow(rows[i]) /\ \A j \in 1..(i - 1) : ~(ValidRow(rows[j]) /\ rows[j].id = rows[i].id)
           S == {i \in DOMAIN rows : isFirst(i)}
           Nth(k, i) == i \in DOMAIN rows /\ isFirst(i) /\ k = Cardinality({j \in 1..i : isFirst(j)})
           at1(k) == CHOOSE i \in DOMAIN rows : isFirst(i) /\ k = Cardinality({j \in 1..i : isFirst(j)})
<1>1. Catalog(rows) = [k \in 1..Cardinality(S) |-> rows[at1(k)]]
  BY DEF Catalog
<1>2. S \in SUBSET (1..n) /\ Cardinality(S) \in Nat
  <2>1. S \subseteq 1..n /\ IsFiniteSet(1..n)
    BY FS_Interval
  <2>2. IsFiniteSet(S)
    BY <2>1, FS_Subset
  <2> QED
    BY <2>1, <2>2, FS_CardinalityType
<1>3. ASSUME NEW k \in 1..Cardinality(S) PROVE Nth(k, at1(k))
  <2>1. \E i \in S : k = Cardinality({j \in 1..i : j \in S})
    <3> HIDE DEF S
    <3> QED
      BY <1>2, KthExists
  <2>2. PICK i \in S : k = Cardinality({j \in 1..i : j \in S})
    BY <2>1
  <2>3. i \in 1..n
    BY <1>2, <2>2
  <2>4. {j \in 1..i : j \in S} = {j \in 1..i : isFirst(j)}
    <3>1. \A j \in 1..i : j \in DOMAIN rows
      BY <2>3
    <3> HIDE DEF isFirst
    <3> QED
      BY <3>1
  <2>5. Nth(k, i)
    BY <2>2, <2>4
  <2> QED
    BY <2>5
<1> HIDE DEF at1
<1>4. \A k \in 1..Cardinality(S) : at1(k) \in 1..n /\ rows[at1(k)] \in CatalogRows /\ isFirst(at1(k))
  BY <1>3
<1>5. Catalog(rows) \in Seq(CatalogRows) /\ DOMAIN Catalog(rows) = 1..Cardinality(S)
  <2> HIDE DEF isFirst, S
  <2> QED
    BY <1>1, <1>2, <1>4
<1>6. ASSUME NEW k \in 1..Cardinality(S), NEW l \in 1..Cardinality(S), rows[at1(k)].id = rows[at1(l)].id
      PROVE  k = l
  <2>1. isFirst(at1(k)) /\ isFirst(at1(l)) /\ at1(k) \in 1..n /\ at1(l) \in 1..n
    BY <1>4
  <2>2. ~(at1(k) < at1(l)) /\ ~(at1(l) < at1(k))
    <3>1. at1(k) < at1(l) => at1(k) \in 1..(at1(l) - 1)
      BY <2>1
    <3>2. at1(l) < at1(k) => at1(l) \in 1..(at1(k) - 1)
      BY <2>1
    <3> QED
      BY <1>6, <2>1, <3>1, <3>2
  <2>3. at1(k) = at1(l)
    BY <2>1, <2>2
  <2> HIDE DEF isFirst
  <2> QED
    BY <1>3, <2>3
<1> QED
  <2> HIDE DEF isFirst, S
  <2>1. \A k \in 1..Cardinality(S) : Catalog(rows)[k] = rows[at1(k)]
    BY <1>1
  <2> QED
    BY <1>4, <1>5, <1>6, <2>1

\* A search gives some of them, each once.
LEMMA SearchIs ==
  ASSUME NEW n \in Nat, NEW rows \in [1..n -> CatalogRows], NEW words
  PROVE  /\ IsInjective(Ids(SearchIn(rows, words)))
         /\ \A id \in Range(Ids(SearchIn(rows, words))) : \E i \in DOMAIN rows : rows[i].id = id /\ HasQuery(rows[i], words)
<1> DEFINE c == Catalog(rows)
           kept == {row \in CatalogRows : HasQuery(row, words)}
           o == Only(c, kept)
<1>1. /\ c \in Seq(CatalogRows)
      /\ \A k \in DOMAIN c : \E i \in 1..n : c[k] = rows[i]
      /\ \A k, l \in DOMAIN c : c[k].id = c[l].id => k = l
  BY CatalogIs
<1> HIDE DEF c, kept
<1>2. o \in Seq(CatalogRows) /\ ComesFrom(o, c, kept, Len(c)) /\ Len(c) \in Nat /\ DOMAIN c = 1..Len(c)
  BY <1>1, OnlyTyped, OnlyComesFrom
<1>3. SearchIn(rows, words) = o
  BY DEF SearchIn, c, kept
<1> HIDE DEF o
<1>4. PICK place \in [1..Len(o) -> 1..Len(c)] :
        /\ \A k \in 1..Len(o) : o[k] = c[place[k]] /\ c[place[k]] \in kept
        /\ \A k, l \in 1..Len(o) : k < l => place[k] < place[l]
  BY <1>2 DEF ComesFrom
<1>5. DOMAIN Ids(o) = 1..Len(o) /\ \A k \in 1..Len(o) : Ids(o)[k] = o[k].id
  BY <1>2 DEF Ids
<1>6. ASSUME NEW k \in 1..Len(o), NEW l \in 1..Len(o), Ids(o)[k] = Ids(o)[l] PROVE k = l
  <2>1. place[k] \in DOMAIN c /\ place[l] \in DOMAIN c /\ place[k] \in Nat /\ k \in Nat /\ l \in Nat
    BY <1>2
  <2>2. o[k].id = o[l].id /\ o[k] = c[place[k]] /\ o[l] = c[place[l]]
    BY <1>4, <1>5, <1>6
  <2>n. place[k] = place[l]
    BY <1>1, <2>1, <2>2
  <2>3. ~(k < l) /\ ~(l < k)
    BY <1>4, <2>1, <2>n
  <2> QED
    BY <2>1, <2>3
<1>7. ASSUME NEW k \in 1..Len(o) PROVE \E i \in DOMAIN rows : rows[i].id = Ids(o)[k] /\ HasQuery(rows[i], words)
  <2>1. place[k] \in 1..Len(c) /\ o[k] = c[place[k]] /\ c[place[k]] \in kept
    BY <1>4
  <2>2. PICK i \in 1..n : c[place[k]] = rows[i]
    BY <1>1, <1>2, <2>1
  <2>3. HasQuery(c[place[k]], words)
    BY <2>1 DEF kept
  <2> QED
    BY <1>5, <2>1, <2>2, <2>3
<1>8. IsInjective(Ids(o))
  BY <1>5, <1>6 DEF IsInjective
<1>9. Range(Ids(o)) = {Ids(o)[k] : k \in 1..Len(o)}
  BY <1>5 DEF Range
<1> QED
  BY <1>3, <1>7, <1>8, <1>9

LEMMA CatalogStep == AnimeInv /\ CatalogArrives => AnimeInv'
<1> SUFFICES ASSUME AnimeInv, CatalogArrives PROVE AnimeInv'
  OBVIOUS
<1>1. /\ at = "page" /\ asked.what = "catalog"
      /\ UNCHANGED <<page, newest, seen, first, posted>>
  BY DEF CatalogArrives, listVars
<1>2. PICK rows \in UNION {[1..n -> CatalogRows] : n \in 0..2}, words \in {"x", "xy"} :
        \/ Return([kind |-> "found", in |-> rows, query |-> words, ids |-> Ids(SearchIn(rows, words))])
        \/ Return(Failed)
  BY DEF CatalogArrives
<1>3. /\ newest \in Seq(Posts) /\ first \in Seq(Posts) /\ page \in Nat \ {0} /\ posted = <<>> /\ posted \in Seq(Nat) /\ Len(posted) <= 1
  BY <1>1 DEF AnimeInv, AnimeTyped, Calls
<1>4. CASE Return(Failed)
  BY <1>1, <1>3, <1>4, FailsStep
<1>5. CASE Return([kind |-> "found", in |-> rows, query |-> words, ids |-> Ids(SearchIn(rows, words))])
  <2>1. /\ reply' = [kind |-> "found", in |-> rows, query |-> words, ids |-> Ids(SearchIn(rows, words))]
        /\ at' = "idle" /\ UNCHANGED <<archive, lastId, withdrawn, asked, live>>
    BY <1>5 DEF Return, siteVars
  <2>2. PICK n \in 0..2 : rows \in [1..n -> CatalogRows]
    OBVIOUS
  <2>3. n \in Nat
    OBVIOUS
  <2>4. /\ IsInjective(Ids(SearchIn(rows, words)))
        /\ \A id \in Range(Ids(SearchIn(rows, words))) : \E i \in DOMAIN rows : rows[i].id = id /\ HasQuery(rows[i], words)
    BY <2>2, <2>3, SearchIs
  <2>5. reply'.kind = "found" /\ reply'.in = rows /\ reply'.query = words /\ reply'.ids = Ids(SearchIn(rows, words))
    BY <2>1
  <2>6. FoundIsInCatalog'
    BY <2>4, <2>5 DEF FoundIsInCatalog
  <2>7. ListIsTheArchive' /\ StreamIsItsEpisode'
    BY <1>1, <1>3, <2>5 DEF ListIsTheArchive, StreamIsItsEpisode
  <2>8. AnimeTyped'
    BY <1>1, <2>1 DEF AnimeInv, AnimeTyped
  <2>9. Calls'
    BY <2>1, <2>5 DEF Calls, None
  <2>10. ListInv'
    BY <2>1 DEF ListInv
  <2> QED
    BY <2>6, <2>7, <2>8, <2>9, <2>10 DEF AnimeInv, AnswerIsTheSites
<1> QED
  BY <1>2, <1>4, <1>5

\* A post page with one article, the episode's, and one token has the episode's token.
LEMMA PostPagesAre ==
  ASSUME AnimeInv, NEW p \in PostPages(asked.id), HasToken(p)
  PROVE  p.tokens = <<asked.id>>
<1> DEFINE shown == {<<x>> : x \in Range(Ids(archive))} \cup {Ids(archive)}
           own == IF asked.id \in Range(Ids(archive)) THEN {<<asked.id>>} ELSE shown
<1>1. PICK a \in own, t \in own \cup {<<>>} : p = [articles |-> a, tokens |-> t]
  BY DEF PostPages
<1>2. a = <<asked.id>> /\ Len(t) = 1
  BY <1>1 DEF HasToken, NamesEpisode
<1>3. t \in own
  <2>1. Len(<<>>) = 0
    OBVIOUS
  <2> QED
    BY <1>1, <1>2, <2>1
<1>4. CASE asked.id \in Range(Ids(archive))
  BY <1>1, <1>3, <1>4
<1>5. CASE asked.id \notin Range(Ids(archive))
  \* the episode is withdrawn, and no page of another post names it
  <2>1. a \in shown
    BY <1>1, <1>5
  <2>2. \A x \in Range(Ids(archive)) : <<x>> # <<asked.id>>
    BY <1>5
  <2>3. Ids(archive) # <<asked.id>>
    <3> SUFFICES ASSUME Ids(archive) = <<asked.id>> PROVE FALSE
      OBVIOUS
    <3>1. 1 \in DOMAIN <<asked.id>> /\ <<asked.id>>[1] = asked.id
      OBVIOUS
    <3>2. asked.id \in Range(Ids(archive))
      BY <3>1 DEF Range
    <3> QED
      BY <1>5, <3>2
  <2> QED
    BY <1>2, <2>1, <2>2, <2>3
<1> QED
  BY <1>4, <1>5

LEMMA TokenStep == AnimeInv /\ TokenArrives => AnimeInv'
<1> SUFFICES ASSUME AnimeInv, TokenArrives PROVE AnimeInv'
  OBVIOUS
<1>1. at = "page" /\ UNCHANGED <<page, newest, seen, first>>
  BY DEF TokenArrives, listVars
<1>2. /\ newest \in Seq(Posts) /\ first \in Seq(Posts) /\ page \in Nat \ {0} /\ posted = <<>> /\ posted \in Seq(Nat) /\ asked.id \in Nat
      /\ reply = None /\ Len(posted) <= 1
  BY <1>1 DEF AnimeInv, AnimeTyped, Calls
<1>3. PICK p \in PostPages(asked.id) :
        \/ /\ HasToken(p) /\ at' = "stream" /\ posted' = posted \o p.tokens
           /\ UNCHANGED <<siteVars, asked, attempt, live, reply>>
        \/ Return(Failed) /\ UNCHANGED posted
  BY DEF TokenArrives
<1>4. CASE Return(Failed) /\ UNCHANGED posted
  BY <1>1, <1>2, <1>4, FailsStep
<1>5. CASE HasToken(p) /\ at' = "stream" /\ posted' = posted \o p.tokens /\ UNCHANGED <<siteVars, asked, attempt, live, reply>>
  <2>1. p.tokens = <<asked.id>>
    BY <1>2, <1>5, PostPagesAre
  <2>2. posted' = <<asked.id>>
    BY <1>2, <1>5, <2>1
  <2>3. posted' \in Seq(Nat) /\ Len(posted') <= 1
    BY <1>2, <2>2
  <2>4. at' = "stream" /\ UNCHANGED <<archive, lastId, withdrawn, asked, live, reply>>
    BY <1>5 DEF siteVars
  <2>5. AnimeTyped'
    BY <1>1, <2>3, <2>4 DEF AnimeInv, AnimeTyped
  <2>6. Calls'
    BY <1>2, <2>2, <2>4 DEF Calls
  <2>7. ListInv'
    BY <2>4 DEF ListInv
  <2>8. AnswerIsTheSites'
    BY <1>1, <1>2, <2>3, <2>4 DEF AnswerIsTheSites, ListIsTheArchive, FoundIsInCatalog, StreamIsItsEpisode, None
  <2> QED
    BY <2>5, <2>6, <2>7, <2>8 DEF AnimeInv
<1> QED
  BY <1>3, <1>4, <1>5

LEMMA StreamStep == AnimeInv /\ StreamArrives => AnimeInv'
<1> SUFFICES ASSUME AnimeInv, StreamArrives PROVE AnimeInv'
  OBVIOUS
<1>1. at = "stream" /\ UNCHANGED <<page, newest, seen, first, posted>>
  BY DEF StreamArrives, listVars
<1>2. /\ newest \in Seq(Posts) /\ first \in Seq(Posts) /\ page \in Nat \ {0} /\ posted = <<asked.id>> /\ posted \in Seq(Nat) /\ asked.id \in Nat
      /\ Len(posted) <= 1 /\ Last(posted) = asked.id
  <2>1. posted = <<asked.id>> /\ asked.id \in Nat
    BY <1>1 DEF AnimeInv, AnimeTyped, Calls
  <2>2. Len(posted) <= 1 /\ Last(posted) = asked.id
    BY <2>1 DEF Last
  <2> QED
    BY <2>1, <2>2 DEF AnimeInv, AnimeTyped
<1>3. PICK sources \in Sources, cookies \in SUBSET Cookies, succeeds \in BOOLEAN :
        \/ Return([kind |-> "stream", of |-> Last(posted), source |-> FirstPlayable(sources)])
        \/ Return(Failed)
  BY DEF StreamArrives
<1>4. CASE Return(Failed)
  BY <1>1, <1>2, <1>4, FailsStep
<1>5. CASE Return([kind |-> "stream", of |-> Last(posted), source |-> FirstPlayable(sources)])
  <2>1. /\ reply' = [kind |-> "stream", of |-> Last(posted), source |-> FirstPlayable(sources)]
        /\ at' = "idle" /\ UNCHANGED <<archive, lastId, withdrawn, asked, live>>
    BY <1>5 DEF Return, siteVars
  <2>2. reply'.kind = "stream" /\ reply'.of = Last(posted)
    BY <2>1
  <2>3. AnimeTyped'
    BY <1>1, <2>1 DEF AnimeInv, AnimeTyped
  <2>4. Calls'
    BY <2>1, <2>2 DEF Calls, None
  <2>5. ListInv'
    BY <2>1 DEF ListInv
  <2>6. AnswerIsTheSites'
    BY <1>1, <1>2, <2>1, <2>2 DEF AnswerIsTheSites, ListIsTheArchive, FoundIsInCatalog, StreamIsItsEpisode
  <2> QED
    BY <2>3, <2>4, <2>5, <2>6 DEF AnimeInv
<1> QED
  BY <1>3, <1>4, <1>5

LEMMA AnimeStepHolds == AnimeInv /\ [AnimeNext]_animeVars => AnimeInv'
<1> SUFFICES ASSUME AnimeInv, [AnimeNext]_animeVars PROVE AnimeInv'
  OBVIOUS
<1> USE DEF AnimeInv
<1>1. AnimeTyped /\ live \in BOOLEAN
  BY DEF AnimeTyped
<1> HIDE DEF AnimeInv
<1>2. CASE AskCatalog
  <2>1. Ask("catalog", 0) \in [what : {"nothing", "catalog", "episodes", "stream"}, id : Nat]
    BY DEF Ask
  <2> QED
    BY <1>2, <2>1, AskStep DEF AskCatalog
<1>3. CASE AskEpisodes
  <2>1. Ask("episodes", 0) \in [what : {"nothing", "catalog", "episodes", "stream"}, id : Nat]
    BY DEF Ask
  <2> QED
    BY <1>3, <2>1, AskStep DEF AskEpisodes
<1>4. CASE AskStream
  <2>1. PICK i \in DOMAIN archive : Asks(Ask("stream", archive[i].id))
    BY <1>4 DEF AskStream
  <2>2. archive[i].id \in Nat
    <3>1. archive \in Seq(Posts)
      BY <1>1 DEF AnimeTyped
    <3>2. archive[i] \in Posts
      BY <3>1
    <3> QED
      BY <3>2 DEF Posts
  <2>3. Ask("stream", archive[i].id) \in [what : {"nothing", "catalog", "episodes", "stream"}, id : Nat]
    BY <2>2 DEF Ask
  <2> QED
    BY <2>1, <2>3, AskStep
<1>5. ASSUME Return(Failed), UNCHANGED <<listVars, posted>> PROVE AnimeInv'
  <2>1. UNCHANGED <<newest, first, page, posted>>
    BY <1>5 DEF listVars
  <2>2. newest \in Seq(Posts) /\ first \in Seq(Posts) /\ page \in Nat \ {0} /\ posted \in Seq(Nat)
    BY <1>1 DEF AnimeTyped
  <2>3. Len(posted) <= 1
    BY DEF AnimeInv, AnswerIsTheSites, StreamIsItsEpisode
  <2> QED
    BY <1>5, <2>1, <2>2, <2>3, FailsStep
<1>6. CASE RequestTimesOut
  <2>1. CASE Repeats
    BY <1>1, <1>6, <2>1, WaitsStep DEF RequestTimesOut
  <2>2. CASE ~Repeats
    BY <1>5, <1>6, <2>2 DEF RequestTimesOut
  <2> QED
    BY <2>1, <2>2
<1>7. CASE RequestFails
  BY <1>5, <1>7 DEF RequestFails
<1>8. CASE Cancel
  <2>1. live' \in BOOLEAN
    BY <1>8 DEF Cancel
  <2> QED
    BY <1>8, <2>1, WaitsStep DEF Cancel
<1>9. CASE UNCHANGED animeVars
  <2>1. live' \in BOOLEAN /\ UNCHANGED <<siteVars, listVars, asked, at, posted, reply>>
    BY <1>1, <1>9 DEF animeVars
  <2> QED
    BY <2>1, WaitsStep
<1> QED
  BY <1>2, <1>3, <1>4, <1>6, <1>7, <1>8, <1>9, NewPostStep, WithdrawStep, CatalogStep, PageStep, TokenStep, StreamStep DEF AnimeNext

\* What the anime1 source answers is what the site has (ListInv says what of
\* the first page's archive a call has gathered): a list without a hole or a
\* repetition, a search of the catalog, the stream of the episode asked for.
THEOREM AnswersAreTheSites == AnimeSpec => []AnswerIsTheSites
<1>1. AnimeInit => AnimeInv
  BY InitHolds
<1>2. AnimeInv /\ [AnimeNext]_animeVars => AnimeInv'
  BY AnimeStepHolds
<1>3. AnimeInv => AnswerIsTheSites
  BY DEF AnimeInv
<1> QED
  BY <1>1, <1>2, <1>3, PTL DEF AnimeSpec

-----------------------------------------------------------------------------
(* The match of a metadata record.                                         *)

Records == {Record(p, w, k) : p \in {"bangumi", "anilist"}, w \in Works, k \in Knowing}

\* No two of the candidates are the same record of the same provider.
Distinct(cs) == \A i, j \in DOMAIN cs : RefOf(cs[i]) = RefOf(cs[j]) => i = j

LEMMA RecordIs ==
  ASSUME NEW p \in {"bangumi", "anilist"}, NEW w \in Works, NEW k \in Knowing
  PROVE  /\ Record(p, w, k) \in Records
         /\ Record(p, w, k).provider = p /\ Record(p, w, k).id = w.id /\ RefOf(Record(p, w, k)) = <<p, w.id>>
         /\ w.id \in Nat
<1>1. Record(p, w, k).provider = p /\ Record(p, w, k).id = w.id
  BY DEF Record
<1>2. w.id \in Nat
  BY MatchingAssumption
<1> QED
  BY <1>1, <1>2 DEF Records, RefOf

LEMMA RecordHas ==
  ASSUME NEW r \in Records
  PROVE  r.provider \in {"bangumi", "anilist"} /\ r.id \in Nat
<1>1. PICK p \in {"bangumi", "anilist"}, w \in Works, k \in Knowing : r = Record(p, w, k)
  BY DEF Records
<1> QED
  BY <1>1, RecordIs

\* Scores of names.
Points == {0, 52, 60, 70}

LEMMA BestIs ==
  ASSUME NEW S \in SUBSET Points, S # {}
  PROVE  Best(S) \in S /\ Best(S) \in Points /\ \A t \in S : t <= Best(S)
<1>1. \E s \in S : \A t \in S : t <= s
  <2>1. CASE 70 \in S
    BY <2>1 DEF Points
  <2>2. CASE 70 \notin S /\ 60 \in S
    BY <2>2 DEF Points
  <2>3. CASE 70 \notin S /\ 60 \notin S /\ 52 \in S
    BY <2>3 DEF Points
  <2>4. CASE 70 \notin S /\ 60 \notin S /\ 52 \notin S
    <3>1. PICK x \in S : TRUE
      OBVIOUS
    <3>2. \A t \in S : t = 0
      BY <2>4 DEF Points
    <3> QED
      BY <3>1, <3>2
  <2> QED
    BY <2>1, <2>2, <2>3, <2>4
<1>2. Best(S) \in S /\ \A t \in S : t <= Best(S)
  BY <1>1 DEF Best
<1> QED
  BY <1>2

LEMMA TextScoreIs == \A a, b : TextScore(a, b) \in Points
<1> SUFFICES ASSUME NEW a, NEW b PROVE TextScore(a, b) \in Points
  OBVIOUS
<1> HIDE DEF FullMatch, OneSided, ParticleMatch, SubtitlesDiffer, PartOf
<1> QED
  BY DEF TextScore, Points, HighScore, WeakExactScore, MediumScore

LEMMA NameScoreIs == \A q, c, series : NameScore(q, c, series) \in Points
<1> SUFFICES ASSUME NEW q, NEW c, NEW series PROVE NameScore(q, c, series) \in Points
  OBVIOUS
<1>1. TitleScore(q, c) \in Points
  <2> DEFINE S == {TextScore(a, n) : a \in AskedNames(q), n \in Names(c)}
                    \cup {IF \E a \in AskedNames(q), n \in c.aliases : Exactly(a, n) THEN WeakExactScore ELSE 0}
  <2>1. S \in SUBSET Points
    <3>1. {TextScore(a, n) : a \in AskedNames(q), n \in Names(c)} \subseteq Points
      BY TextScoreIs
    <3>2. WeakExactScore \in Points /\ 0 \in Points
      BY DEF WeakExactScore, HighScore, Points
    <3> HIDE DEF Points
    <3> QED
      BY <3>1, <3>2
  <2>2. S # {}
    OBVIOUS
  <2>3. TitleScore(q, c) = Best(S)
    BY DEF TitleScore
  <2> HIDE DEF S
  <2> QED
    BY <2>1, <2>2, <2>3, BestIs
<1>2. WeakExactScore \in Points /\ 0 \in Points
  BY DEF WeakExactScore, HighScore, Points
<1> DEFINE R == {TitleScore(q, c), IF \E s \in series, n \in Names(c) : Exactly(s, n) THEN WeakExactScore ELSE 0}
<1>3. R \in SUBSET Points /\ R # {}
  BY <1>1, <1>2
<1>4. NameScore(q, c, series) = Best(R)
  BY DEF NameScore
<1> HIDE DEF R
<1> QED
  BY <1>3, <1>4, BestIs

LEMMA HintScoreIs == \A q, c : HintScore(q, c) \in Int
<1> SUFFICES ASSUME NEW q, NEW c PROVE HintScore(q, c) \in Int
  OBVIOUS
<1>1. \A a, b : Hint(a, b, 12, -14) \in Int /\ Hint(a, b, 8, -10) \in Int
  BY DEF Hint
<1>2. \A a, b : SeasonHint(a, b) \in Int
  BY DEF SeasonHint
<1>3. \A a, b : YearHint(a, b) \in Int
  BY <1>1 DEF YearHint
<1> QED
  BY <1>1, <1>2, <1>3 DEF HintScore

ScoredRecords == [of : Records, title : Points, score : Int]

LEMMA BeforeIsTotal ==
  ASSUME NEW a \in ScoredRecords, NEW b \in ScoredRecords
  PROVE  /\ Before(a, b) \/ Before(b, a) \/ RefOf(a.of) = RefOf(b.of)
         /\ ~(Before(a, b) /\ Before(b, a))
<1>1. /\ a.score \in Int /\ b.score \in Int /\ a.of \in Records /\ b.of \in Records
  BY DEF ScoredRecords
<1>2. /\ a.of.provider \in {"bangumi", "anilist"} /\ a.of.id \in Nat
      /\ b.of.provider \in {"bangumi", "anilist"} /\ b.of.id \in Nat
  BY <1>1, RecordHas
<1> QED
  BY <1>1, <1>2 DEF Before, Rank, RefOf

LEMMA BeforeIsTransitive ==
  ASSUME NEW a \in ScoredRecords, NEW b \in ScoredRecords, NEW c \in ScoredRecords, Before(a, b), Before(b, c)
  PROVE  Before(a, c)
<1>1. /\ a.score \in Int /\ b.score \in Int /\ c.score \in Int /\ a.of \in Records /\ b.of \in Records /\ c.of \in Records
  BY DEF ScoredRecords
<1>2. /\ a.of.provider \in {"bangumi", "anilist"} /\ a.of.id \in Nat
      /\ b.of.provider \in {"bangumi", "anilist"} /\ b.of.id \in Nat
      /\ c.of.provider \in {"bangumi", "anilist"} /\ c.of.id \in Nat
  BY <1>1, RecordHas
<1> QED
  BY <1>1, <1>2 DEF Before, Rank

-----------------------------------------------------------------------------
(* The ranking.                                                            *)

\* Scored records, each of its own record.
Rankable(s) == s \in Seq(ScoredRecords) /\ \A i, j \in DOMAIN s : RefOf(s[i].of) = RefOf(s[j].of) => i = j

\* One of them is before every other.
LEMMA TopExists ==
  ASSUME NEW s, Rankable(s), s # <<>>
  PROVE  \E i \in DOMAIN s : \A j \in DOMAIN s \ {i} : Before(s[i], s[j])
<1>1. s \in Seq(ScoredRecords) /\ Len(s) \in Nat /\ Len(s) >= 1 /\ DOMAIN s = 1..Len(s)
  BY DEF Rankable
<1>2. \A i, j \in 1..Len(s) : i # j => Before(s[i], s[j]) \/ Before(s[j], s[i])
  <2> SUFFICES ASSUME NEW i \in 1..Len(s), NEW j \in 1..Len(s), i # j PROVE Before(s[i], s[j]) \/ Before(s[j], s[i])
    OBVIOUS
  <2>1. s[i] \in ScoredRecords /\ s[j] \in ScoredRecords
    BY <1>1
  <2>2. RefOf(s[i].of) # RefOf(s[j].of)
    BY <1>1 DEF Rankable
  <2> QED
    BY <2>1, <2>2, BeforeIsTotal
<1>3. \A i, j, k \in 1..Len(s) : Before(s[i], s[j]) /\ Before(s[j], s[k]) => Before(s[i], s[k])
  <2>1. \A i \in 1..Len(s) : s[i] \in ScoredRecords
    BY <1>1
  <2> QED
    BY <2>1, BeforeIsTransitive
<1> DEFINE Tops(n) == \E i \in 1..n : \A j \in 1..n \ {i} : Before(s[i], s[j])
           T == {n \in Nat : Tops(n + 1)}
<1>4. Tops(1)
  <2>1. 1 \in 1..1 /\ \A j \in 1..1 \ {1} : FALSE
    OBVIOUS
  <2> QED
    BY <2>1
<1>5. ASSUME NEW n \in 1..(Len(s) - 1), Tops(n) PROVE Tops(n + 1)
  <2>1. PICK i \in 1..n : \A j \in 1..n \ {i} : Before(s[i], s[j])
    BY <1>5
  <2>2. n + 1 \in 1..Len(s) /\ i \in 1..Len(s) /\ i # n + 1 /\ i \in 1..(n + 1) /\ n + 1 \in 1..(n + 1)
    BY <1>1
  <2>3. \A j \in 1..(n + 1) : j \in 1..n \/ j = n + 1
    OBVIOUS
  <2>4. CASE Before(s[i], s[n + 1])
    <3>1. \A j \in 1..(n + 1) \ {i} : Before(s[i], s[j])
      BY <2>1, <2>3, <2>4
    <3> QED
      BY <2>2, <3>1
  <2>5. CASE Before(s[n + 1], s[i])
    <3>1. \A j \in 1..n : j \in 1..Len(s)
      BY <1>1
    <3>2. \A j \in 1..n : Before(s[n + 1], s[j])
      BY <1>3, <2>1, <2>2, <2>5, <3>1
    <3>3. \A j \in 1..(n + 1) \ {n + 1} : Before(s[n + 1], s[j])
      BY <2>3, <3>2
    <3> QED
      BY <2>2, <3>3
  <2> QED
    BY <1>2, <2>2, <2>4, <2>5
<1> HIDE DEF Tops
<1>6. Tops(Len(s))
  <2>1. 0 \in T /\ \A n \in 0..((Len(s) - 1) - 1) : n \in T => n + 1 \in T
    <3>1. 0 + 1 = 1
      OBVIOUS
    <3>2. \A n \in 0..((Len(s) - 1) - 1) : n + 1 \in 1..(Len(s) - 1) /\ n \in Nat /\ n + 1 \in Nat
      BY <1>1
    <3> QED
      BY <1>4, <1>5, <3>1, <3>2
  <2>2. Len(s) - 1 \in Nat /\ (Len(s) - 1) + 1 = Len(s) /\ Len(s) - 1 \in 0..(Len(s) - 1)
    BY <1>1
  <2>3. 0..(Len(s) - 1) \subseteq T
    <3> HIDE DEF T
    <3> QED
      BY <2>1, <2>2, UpTo
  <2>4. Tops((Len(s) - 1) + 1)
    BY <2>2, <2>3
  <2> QED
    BY <2>2, <2>4
<1> QED
  BY <1>1, <1>6 DEF Tops

LEMMA TopOfIs ==
  ASSUME NEW s, Rankable(s), s # <<>>
  PROVE  TopOf(s) \in DOMAIN s /\ \A j \in DOMAIN s \ {TopOf(s)} : Before(s[TopOf(s)], s[j])
<1> DEFINE First(i) == \A j \in DOMAIN s \ {i} : ~Before(s[j], s[i]) /\ (j < i => Before(s[i], s[j]))
<1>1. \A i \in DOMAIN s : s[i] \in ScoredRecords
  BY DEF Rankable
<1>2. PICK i \in DOMAIN s : \A j \in DOMAIN s \ {i} : Before(s[i], s[j])
  BY TopExists
<1>3. First(i)
  BY <1>1, <1>2, BeforeIsTotal
<1>4. TopOf(s) = CHOOSE k \in DOMAIN s : First(k)
  BY DEF TopOf
<1> DEFINE t == TopOf(s)
<1>5. t \in DOMAIN s /\ First(t)
  <2> HIDE DEF First
  <2> QED
    BY <1>3, <1>4
<1> HIDE DEF t
<1>6. ASSUME NEW j \in DOMAIN s \ {t} PROVE Before(s[t], s[j])
  <2>1. ~Before(s[j], s[t])
    BY <1>5
  <2>2. RefOf(s[j].of) # RefOf(s[t].of)
    BY <1>5 DEF Rankable
  <2> QED
    BY <1>1, <1>5, <2>1, <2>2, BeforeIsTotal
<1> QED
  BY <1>5, <1>6 DEF t

\* Which one is the top, and which are the others, depends on what is ranked only.
LEMMA RankedIs ==
  ASSUME NEW s, NEW u, Rankable(s), Rankable(u), Range(s) = Range(u)
  PROVE  Ranked(s) = Ranked(u)
<1>1. CASE s = <<>>
  <2>1. Range(s) = {}
    BY <1>1 DEF Range
  <2>2. DOMAIN u = {}
    BY <2>1 DEF Range
  <2>3. u = <<>>
    BY <2>2 DEF Rankable
  <2> QED
    BY <1>1, <2>3
<1>2. CASE u = <<>>
  <2>1. Range(u) = {}
    BY <1>2 DEF Range
  <2>2. DOMAIN s = {}
    BY <2>1 DEF Range
  <2>3. s = <<>>
    BY <2>2 DEF Rankable
  <2> QED
    BY <1>2, <2>3
<1>3. CASE s # <<>> /\ u # <<>>
  <2> DEFINE a == TopOf(s)
             b == TopOf(u)
  <2>1. a \in DOMAIN s /\ \A j \in DOMAIN s \ {a} : Before(s[a], s[j])
    BY <1>3, TopOfIs
  <2>2. b \in DOMAIN u /\ \A j \in DOMAIN u \ {b} : Before(u[b], u[j])
    BY <1>3, TopOfIs
  <2> HIDE DEF a, b
  <2>3. (\A i \in DOMAIN s : s[i] \in ScoredRecords) /\ (\A i \in DOMAIN u : u[i] \in ScoredRecords)
    BY DEF Rankable
  <2>4. PICK k \in DOMAIN u : s[a] = u[k]
    BY <2>1 DEF Range
  <2>5. PICK l \in DOMAIN s : u[b] = s[l]
    BY <2>2 DEF Range
  <2>6. s[a] = u[b]
    <3> SUFFICES ASSUME s[a] # u[b] PROVE FALSE
      OBVIOUS
    <3>1. k # b /\ l # a
      BY <2>4, <2>5
    <3>2. Before(u[b], u[k]) /\ Before(s[a], s[l])
      BY <2>1, <2>2, <2>4, <2>5, <3>1
    <3> QED
      BY <2>1, <2>2, <2>3, <2>4, <2>5, <3>2, BeforeIsTotal
  <2>7. {s[i] : i \in DOMAIN s \ {a}} = Range(s) \ {s[a]}
    BY <2>1 DEF Rankable, Range
  <2>8. {u[i] : i \in DOMAIN u \ {b}} = Range(u) \ {u[b]}
    BY <2>2 DEF Rankable, Range
  <2>9. Accepted(s, a) = Accepted(u, b)
    BY <2>6, <2>7, <2>8 DEF Accepted
  <2> QED
    BY <1>3, <2>9 DEF Ranked, a, b
<1> QED
  BY <1>1, <1>2, <1>3

\* What is scored is each candidate whose names match.
LEMMA ScoredIs ==
  ASSUME NEW cs \in Seq(Records), Distinct(cs), NEW q, NEW series
  PROVE  /\ Rankable(Scored(q, cs, series))
         /\ Range(Scored(q, cs, series)) =
              {s \in {ScoredAs(c, NameScore(q, c, series), HintScore(q, c)) : c \in Range(cs)} : s.title # 0}
<1> DEFINE As(c) == ScoredAs(c, NameScore(q, c, series), HintScore(q, c))
           all == [i \in DOMAIN cs |-> As(cs[i])]
           kept == {s \in Range(all) : s.title # 0}
           o == Only(all, kept)
<1>1. \A c \in Records : As(c) \in ScoredRecords /\ As(c).of = c
  <2> SUFFICES ASSUME NEW c \in Records PROVE As(c) \in ScoredRecords /\ As(c).of = c
    OBVIOUS
  <2>1. NameScore(q, c, series) \in Points /\ HintScore(q, c) \in Int
    BY NameScoreIs, HintScoreIs
  <2>2. NameScore(q, c, series) + HintScore(q, c) \in Int
    BY <2>1 DEF Points
  <2> QED
    BY <2>1, <2>2 DEF ScoredAs, ScoredRecords
<1> HIDE DEF As
<1>2. /\ cs \in Seq(Records) /\ Len(cs) \in Nat /\ DOMAIN cs = 1..Len(cs)
      /\ \A i \in DOMAIN cs : cs[i] \in Records
  OBVIOUS
<1>3. /\ all \in Seq(ScoredRecords) /\ Len(all) = Len(cs) /\ DOMAIN all = DOMAIN cs
      /\ \A i \in DOMAIN cs : all[i] = As(cs[i]) /\ all[i].of = cs[i]
  BY <1>1, <1>2
<1>4. Scored(q, cs, series) = o
  BY DEF Scored, As
<1> HIDE DEF all
<1>5. o \in Seq(ScoredRecords) /\ ComesFrom(o, all, kept, Len(all))
  <2> HIDE DEF kept
  <2> QED
    BY <1>3, OnlyTyped, OnlyComesFrom
<1>6. \A i \in DOMAIN all : all[i] \in kept => \E k \in DOMAIN o : o[k] = all[i]
  <2> HIDE DEF kept
  <2> QED
    BY <1>3, OnlyKeeps
<1> HIDE DEF o, kept
<1>7. Len(o) \in Nat /\ DOMAIN o = 1..Len(o)
  BY <1>5
<1>8. PICK place \in [1..Len(o) -> 1..Len(all)] :
        /\ \A k \in 1..Len(o) : o[k] = all[place[k]] /\ all[place[k]] \in kept
        /\ \A k, l \in 1..Len(o) : k < l => place[k] < place[l]
  BY <1>5 DEF ComesFrom
<1>9. \A k \in 1..Len(o) : place[k] \in DOMAIN cs /\ place[k] \in Nat /\ o[k].of = cs[place[k]]
  BY <1>2, <1>3, <1>8
<1>10. Rankable(o)
  <2> SUFFICES ASSUME NEW k \in 1..Len(o), NEW l \in 1..Len(o), RefOf(o[k].of) = RefOf(o[l].of) PROVE k = l
    BY <1>5, <1>7 DEF Rankable
  <2>1. place[k] = place[l]
    BY <1>9 DEF Distinct
  <2>2. ~(k < l) /\ ~(l < k)
    BY <1>8, <1>9, <2>1
  <2> QED
    BY <1>7, <2>2
<1>11. kept = {s \in {As(c) : c \in Range(cs)} : s.title # 0}
  <2>1. Range(all) = {As(c) : c \in Range(cs)}
    BY <1>3 DEF Range
  <2> QED
    BY <2>1 DEF kept
<1>12. Range(o) = kept
  <2>1. \A k \in 1..Len(o) : o[k] \in kept
    BY <1>8
  <2>2. \A s \in kept : \E i \in DOMAIN all : s = all[i]
    BY DEF kept, Range
  <2>3. \A s \in kept : \E k \in DOMAIN o : o[k] = s
    BY <1>6, <2>2
  <2> QED
    BY <1>7, <2>1, <2>3 DEF Range
<1> QED
  BY <1>4, <1>10, <1>11, <1>12 DEF As

\* The match is one of what is named, in whatever order it is named.
LEMMA MatchOfTheSame ==
  ASSUME NEW cs \in Seq(Records), NEW ds \in Seq(Records), Distinct(cs), Distinct(ds),
         Range(cs) = Range(ds), Len(cs) = Len(ds), NEW q
  PROVE  MatchMetadata(q, cs) = MatchMetadata(q, ds)
<1>1. SeriesNames(q, cs) = SeriesNames(q, ds)
  BY DEF SeriesNames
<1> DEFINE series == SeriesNames(q, cs)
           s == Scored(q, cs, series)
           u == Scored(q, ds, series)
<1>2. Rankable(s) /\ Rankable(u) /\ Range(s) = Range(u)
  <2> DEFINE Of(es) == {e \in {ScoredAs(c, NameScore(q, c, series), HintScore(q, c)) : c \in Range(es)} : e.title # 0}
  <2>1. Rankable(s) /\ Range(s) = Of(cs)
    <3> HIDE DEF series
    <3> QED
      BY ScoredIs
  <2>2. Rankable(u) /\ Range(u) = Of(ds)
    <3> HIDE DEF series
    <3> QED
      BY ScoredIs
  <2>3. Of(cs) = Of(ds)
    OBVIOUS
  <2> HIDE DEF s, u, Of
  <2> QED
    BY <2>1, <2>2, <2>3
<1>3. Ranked(s) = Ranked(u)
  <2> HIDE DEF s, u
  <2> QED
    BY <1>2, RankedIs
<1> QED
  BY <1>1, <1>3 DEF MatchMetadata

LEMMA ReverseIs ==
  ASSUME NEW cs \in Seq(Records), Distinct(cs)
  PROVE  /\ Reverse(cs) \in Seq(Records) /\ Distinct(Reverse(cs))
         /\ Range(Reverse(cs)) = Range(cs) /\ Len(Reverse(cs)) = Len(cs)
<1> DEFINE n == Len(cs)
           r == Reverse(cs)
<1>1. n \in Nat /\ DOMAIN cs = 1..n /\ \A i \in 1..n : cs[i] \in Records
  OBVIOUS
<1>2. \A i \in 1..n : (n - i) + 1 \in 1..n /\ (n - ((n - i) + 1)) + 1 = i
  BY <1>1
<1>3. r \in Seq(Records) /\ Len(r) = n /\ DOMAIN r = 1..n /\ \A i \in 1..n : r[i] = cs[(n - i) + 1]
  BY <1>1, <1>2 DEF Reverse
<1> HIDE DEF r
<1>4. Distinct(r)
  <2> SUFFICES ASSUME NEW i \in 1..n, NEW j \in 1..n, RefOf(r[i]) = RefOf(r[j]) PROVE i = j
    BY <1>3 DEF Distinct
  <2>1. (n - i) + 1 = (n - j) + 1
    <3>1. \A k, l \in 1..n : RefOf(cs[k]) = RefOf(cs[l]) => k = l
      BY <1>1 DEF Distinct
    <3>2. RefOf(cs[(n - i) + 1]) = RefOf(cs[(n - j) + 1])
      BY <1>3
    <3> QED
      BY <1>2, <3>1, <3>2
  <2> QED
    BY <1>1, <2>1
<1>5. \A i \in 1..n : cs[i] = r[(n - i) + 1]
  BY <1>2, <1>3
<1>6. Range(r) = Range(cs)
  <2>1. Range(r) = {r[i] : i \in 1..n} /\ Range(cs) = {cs[i] : i \in 1..n}
    BY <1>1, <1>3 DEF Range
  <2>2. \A i \in 1..n : r[i] \in {cs[j] : j \in 1..n} /\ cs[i] \in {r[j] : j \in 1..n}
    <3> HIDE DEF n
    <3> QED
      BY <1>2, <1>3, <1>5
  <2> QED
    BY <2>1, <2>2
<1> QED
  BY <1>3, <1>4, <1>6 DEF r

\* An answer names each work once.
LEMMA FoundIs ==
  ASSUME NEW p \in {"bangumi", "anilist"}, NEW ws \in SUBSET Works, NEW k \in Knowing
  PROVE  /\ Found(p, ws, k) \in Seq(Records) /\ Distinct(Found(p, ws, k))
         /\ \A i \in DOMAIN Found(p, ws, k) : Found(p, ws, k)[i].provider = p
<1> DEFINE n == Cardinality(ws)
           listed == SetToSeq(ws)
<1>1. IsFiniteSet(ws)
  BY MatchingAssumption, FS_Subset
<1>2. n \in Nat /\ \E f \in [1..n -> ws] : IsInjective(f)
  <2>1. n \in Nat /\ ExistsBijection(1..n, ws)
    BY <1>1, FS_CardinalityType
  <2> QED
    BY <2>1 DEF ExistsBijection, Bijection, Injection
<1>3. listed \in [1..n -> ws] /\ IsInjective(listed)
  BY <1>2 DEF SetToSeq
<1>4. Found(p, ws, k) = [i \in DOMAIN listed |-> Record(p, listed[i], k)]
  BY DEF Found
<1> HIDE DEF listed, n
<1>5. DOMAIN listed = 1..n /\ \A i \in 1..n : listed[i] \in Works
  BY <1>3
<1>6. \A i \in 1..n : /\ Record(p, listed[i], k) \in Records /\ Record(p, listed[i], k).provider = p
                      /\ RefOf(Record(p, listed[i], k)) = <<p, listed[i].id>>
  BY <1>5, RecordIs
<1>7. /\ Found(p, ws, k) \in Seq(Records) /\ DOMAIN Found(p, ws, k) = 1..n
      /\ \A i \in 1..n : Found(p, ws, k)[i] = Record(p, listed[i], k)
  BY <1>2, <1>4, <1>5, <1>6
<1>8. Distinct(Found(p, ws, k))
  <2> SUFFICES ASSUME NEW i \in 1..n, NEW j \in 1..n, RefOf(Found(p, ws, k)[i]) = RefOf(Found(p, ws, k)[j]) PROVE i = j
    BY <1>7 DEF Distinct
  <2>1. listed[i].id = listed[j].id
    BY <1>6, <1>7
  <2>2. listed[i] = listed[j]
    BY <1>5, <2>1, MatchingAssumption
  <2> QED
    BY <1>3, <1>5, <2>2 DEF IsInjective
<1> QED
  BY <1>6, <1>7, <1>8

-----------------------------------------------------------------------------
(* The search for it.                                                      *)

\* What was named so far: Bangumi is asked first, and once.
MatchInv ==
  /\ candidates \in Seq(Records) /\ Distinct(candidates) /\ turn \in {1, 2}
  /\ step = "search" => /\ turn = 1 => candidates = <<>>
                        /\ turn = 2 => \A i \in DOMAIN candidates : candidates[i].provider = "bangumi"

\* Two lists without a record in common are one without a record twice.
LEMMA DistinctBoth ==
  ASSUME NEW cs \in Seq(Records), NEW ds \in Seq(Records), Distinct(cs), Distinct(ds),
         \A i \in DOMAIN cs, j \in DOMAIN ds : RefOf(cs[i]) # RefOf(ds[j])
  PROVE  cs \o ds \in Seq(Records) /\ Distinct(cs \o ds)
<1> DEFINE n == Len(cs)
           m == Len(ds)
           b == cs \o ds
<1>1. n \in Nat /\ m \in Nat /\ DOMAIN cs = 1..n /\ DOMAIN ds = 1..m
  OBVIOUS
<1>2. b \in Seq(Records) /\ DOMAIN b = 1..(n + m)
  OBVIOUS
<1>3. \A i \in 1..n : b[i] = cs[i]
  OBVIOUS
<1>4. \A i \in 1..(n + m) : i > n => b[i] = ds[i - n] /\ i - n \in 1..m
  OBVIOUS
<1> HIDE DEF b, n, m
<1>5. ASSUME NEW i \in 1..(n + m), NEW j \in 1..(n + m), RefOf(b[i]) = RefOf(b[j]) PROVE i = j
  <2>1. CASE i <= n /\ j <= n
    <3>1. i \in 1..n /\ j \in 1..n
      BY <1>1, <2>1
    <3> QED
      BY <1>1, <1>3, <1>5, <3>1 DEF Distinct
  <2>2. CASE i > n /\ j > n
    <3>1. b[i] = ds[i - n] /\ i - n \in DOMAIN ds /\ b[j] = ds[j - n] /\ j - n \in DOMAIN ds
      BY <1>1, <1>4, <2>2
    <3>2. i - n = j - n
      BY <1>5, <3>1 DEF Distinct
    <3> QED
      BY <1>1, <3>2
  <2>3. CASE i <= n /\ j > n
    <3>1. b[i] = cs[i] /\ i \in DOMAIN cs /\ b[j] = ds[j - n] /\ j - n \in DOMAIN ds
      BY <1>1, <1>3, <1>4, <2>3
    <3> QED
      BY <1>5, <3>1
  <2>4. CASE i > n /\ j <= n
    <3>1. b[j] = cs[j] /\ j \in DOMAIN cs /\ b[i] = ds[i - n] /\ i - n \in DOMAIN ds
      BY <1>1, <1>3, <1>4, <2>4
    <3> QED
      BY <1>5, <3>1
  <2> QED
    BY <1>1, <2>1, <2>2, <2>3, <2>4
<1> QED
  BY <1>2, <1>5 DEF b, Distinct

\* What the season's list adds was not named before.
LEMMA AddedIs ==
  ASSUME candidates \in Seq(Records), Distinct(candidates), NEW found \in Seq(Records), Distinct(found)
  PROVE  Added(found) \in Seq(Records) /\ Distinct(Added(found))
<1> DEFINE isNew(c) == /\ RefOf(c) \notin {RefOf(d) : d \in Range(candidates)}
                       /\ NameScore(query, c, SeriesNames(query, candidates)) > 0
           room == IF MaxCandidates > Len(candidates) THEN MaxCandidates - Len(candidates) ELSE 0
           kept == {c \in Range(found) : isNew(c)}
           o == Only(found, kept)
           short == FirstOf(o, room)
<1>1. Added(found) = candidates \o short
  BY DEF Added
<1>2. \A c \in kept : \A i \in DOMAIN candidates : RefOf(candidates[i]) # RefOf(c)
  BY DEF Range
<1>3. room \in Nat
  BY MatchingAssumption
<1> HIDE DEF isNew, room, kept
<1>4. o \in Seq(Records) /\ ComesFrom(o, found, kept, Len(found))
  BY OnlyTyped, OnlyComesFrom
<1> HIDE DEF o
<1>5. PICK place \in [1..Len(o) -> 1..Len(found)] :
        /\ \A k \in 1..Len(o) : o[k] = found[place[k]] /\ found[place[k]] \in kept
        /\ \A k, l \in 1..Len(o) : k < l => place[k] < place[l]
  BY <1>4 DEF ComesFrom
<1>6. Len(o) \in Nat /\ Len(found) \in Nat /\ DOMAIN o = 1..Len(o) /\ DOMAIN found = 1..Len(found)
  BY <1>4
<1>7. \A k \in 1..Len(o) : o[k] = found[place[k]] /\ o[k] \in kept /\ place[k] \in DOMAIN found /\ place[k] \in Nat
  BY <1>5, <1>6
<1>8. Distinct(o)
  <2> SUFFICES ASSUME NEW k \in 1..Len(o), NEW l \in 1..Len(o), RefOf(o[k]) = RefOf(o[l]) PROVE k = l
    BY <1>6 DEF Distinct
  <2>1. place[k] = place[l]
    <3>1. \A i, j \in DOMAIN found : RefOf(found[i]) = RefOf(found[j]) => i = j
      BY DEF Distinct
    <3>2. place[k] \in DOMAIN found /\ place[l] \in DOMAIN found /\ o[k] = found[place[k]] /\ o[l] = found[place[l]]
      BY <1>7
    <3> QED
      BY <3>1, <3>2
  <2>2. ~(k < l) /\ ~(l < k)
    BY <1>5, <1>7, <2>1
  <2> QED
    BY <1>6, <2>2
<1>9. /\ short \in Seq(Records) /\ DOMAIN short \subseteq DOMAIN o /\ \A k \in DOMAIN short : short[k] = o[k]
  <2> DEFINE m == IF Len(o) < room THEN Len(o) ELSE room
  <2>1. short = SubSeq(o, 1, m) /\ m \in 0..Len(o)
    BY <1>3, <1>6 DEF FirstOf
  <2> HIDE DEF m, short
  <2>2. SubSeq(o, 1, m) \in Seq(Records) /\ DOMAIN SubSeq(o, 1, m) = 1..m /\ \A k \in 1..m : SubSeq(o, 1, m)[k] = o[k] /\ k \in DOMAIN o
    BY <1>4, <1>6, <2>1
  <2> QED
    BY <2>1, <2>2
<1> HIDE DEF short
<1>10. Distinct(short)
  BY <1>8, <1>9 DEF Distinct
<1>11. \A i \in DOMAIN candidates, j \in DOMAIN short : RefOf(candidates[i]) # RefOf(short[j])
  BY <1>2, <1>6, <1>7, <1>9
<1> QED
  BY <1>1, <1>9, <1>10, <1>11, DistinctBoth

\* The candidates stay, or there is no search going on.
LEMMA MatchStays ==
  ASSUME MatchInv, candidates' \in Seq(Records), Distinct(candidates'), turn' = turn, step' # "search"
  PROVE  MatchInv'
BY DEF MatchInv

LEMMA SearchedStep ==
  ASSUME MatchInv, step = "search", NEW cs, NEW failed, Searched(cs, failed),
         cs \in Seq(Records), Distinct(cs), turn = 1 => \A i \in DOMAIN cs : cs[i].provider = "bangumi"
  PROVE  MatchInv'
<1>1. candidates' = cs /\ turn \in {1, 2} /\ Len(Providers) = 2
  BY DEF Searched, MatchInv, Providers
<1>2. CASE turn = 1
  <2>1. turn' = 2
    BY <1>1, <1>2 DEF Searched
  <2> QED
    BY <1>1, <1>2, <2>1 DEF MatchInv
<1>3. CASE turn = 2
  <2>1. turn' = turn /\ step' # "search"
    BY <1>1, <1>3 DEF Searched, Settle, EndRefresh
  <2> QED
    BY <1>1, <2>1, MatchStays
<1> QED
  BY <1>1, <1>2, <1>3

LEMMA AnswersStep == MatchInv /\ SearchAnswers => MatchInv'
<1> SUFFICES ASSUME MatchInv, SearchAnswers PROVE MatchInv'
  OBVIOUS
<1>1. step = "search" /\ turn \in {1, 2} /\ candidates \in Seq(Records) /\ Distinct(candidates)
  BY DEF SearchAnswers, MatchInv
<1>2. PICK ws \in SUBSET Works, k \in Knowing : Searched(candidates \o Found(Providers[turn], ws, k), failures)
  BY DEF SearchAnswers, Searches
<1> DEFINE p == Providers[turn]
           found == Found(p, ws, k)
<1>3. p \in {"bangumi", "anilist"} /\ (turn = 1 => p = "bangumi") /\ (turn = 2 => p = "anilist")
  BY <1>1 DEF Providers
<1> HIDE DEF p
<1>4. found \in Seq(Records) /\ Distinct(found) /\ \A i \in DOMAIN found : found[i].provider = p
  BY <1>3, FoundIs
<1> HIDE DEF found
<1>5. \A i \in DOMAIN candidates : turn = 2 /\ candidates[i].provider = "bangumi"
  BY <1>1 DEF MatchInv
<1>6. \A i \in DOMAIN candidates, j \in DOMAIN found : RefOf(candidates[i]) # RefOf(found[j])
  BY <1>3, <1>4, <1>5 DEF RefOf
<1>7. candidates \o found \in Seq(Records) /\ Distinct(candidates \o found)
  BY <1>1, <1>4, <1>6, DistinctBoth
<1>8. turn = 1 => \A i \in DOMAIN (candidates \o found) : (candidates \o found)[i].provider = "bangumi"
  <2> SUFFICES ASSUME turn = 1 PROVE \A i \in DOMAIN (candidates \o found) : (candidates \o found)[i].provider = "bangumi"
    OBVIOUS
  <2>1. candidates \o found = found
    <3>1. candidates = <<>>
      BY <1>1 DEF MatchInv
    <3> QED
      BY <1>4, <3>1
  <2> QED
    BY <1>3, <1>4, <2>1
<1>9. Searched(candidates \o found, failures)
  BY <1>2 DEF found, p
<1> QED
  BY <1>1, <1>7, <1>8, <1>9, SearchedStep

LEMMA MatchStep == MatchInv /\ [MatchingNext]_matchVars => MatchInv'
<1> SUFFICES ASSUME MatchInv, [MatchingNext]_matchVars PROVE MatchInv'
  OBVIOUS
<1>1. candidates \in Seq(Records) /\ Distinct(candidates) /\ turn \in {1, 2}
  BY DEF MatchInv
<1>2. CASE LookupEnds
  BY <1>2 DEF LookupEnds, MatchInv
<1>3. CASE SearchAnswers
  BY <1>3, AnswersStep
<1>4. CASE SearchFailed
  <2>1. step = "search" /\ Searched(candidates, failures + 1)
    BY <1>4 DEF SearchFailed
  <2>2. turn = 1 => \A i \in DOMAIN candidates : candidates[i].provider = "bangumi"
    BY <2>1 DEF MatchInv
  <2> QED
    BY <1>1, <2>1, <2>2, SearchedStep
<1>5. ASSUME NEW cs, Browsed(cs), cs \in Seq(Records), Distinct(cs) PROVE MatchInv'
  <2>1. candidates' = cs /\ turn' = turn /\ step' # "search"
    BY <1>5 DEF Browsed, Settle, EndRefresh
  <2> QED
    BY <1>5, <2>1, MatchStays
<1>6. CASE SeasonAnswers
  <2>1. PICK ws \in SUBSET InSeason, k \in Knowing : Browsed(Added(Found("bangumi", ws, k)))
    BY <1>6 DEF SeasonAnswers
  <2>2. ws \in SUBSET Works
    BY DEF InSeason
  <2>3. Found("bangumi", ws, k) \in Seq(Records) /\ Distinct(Found("bangumi", ws, k))
    BY <2>2, FoundIs
  <2> QED
    BY <1>1, <1>5, <2>1, <2>3, AddedIs
<1>7. CASE SeasonFails
  BY <1>1, <1>5, <1>7 DEF SeasonFails
<1>8. ASSUME UNCHANGED <<turn, candidates>>, step' # "search" PROVE MatchInv'
  BY <1>1, <1>8, MatchStays
<1>9. CASE SearchEnds \/ SeasonEnds \/ GetAnswers \/ GetFails \/ SaveMetadata
  BY <1>8, <1>9 DEF SearchEnds, SeasonEnds, GetAnswers, GetFails, SaveMetadata, EndRefresh
<1>10. CASE UNCHANGED matchVars
  BY <1>10 DEF matchVars, MatchInv
<1> QED
  BY <1>2, <1>3, <1>4, <1>6, <1>7, <1>9, <1>10 DEF MatchingNext

\* The record a refresh takes is the same in whatever order the candidates come:
\* none is named twice, so one is the first of the ranking (MatchMetadata).
THEOREM OrderDecidesNothing == MatchingSpec => []OrderIsNoMatter
<1>1. MatchingInit => MatchInv
  BY DEF MatchingInit, MatchInv, Distinct
<1>2. MatchInv /\ [MatchingNext]_matchVars => MatchInv'
  BY MatchStep
<1>3. MatchInv => OrderIsNoMatter
  BY ReverseIs, MatchOfTheSame DEF MatchInv, OrderIsNoMatter
<1> QED
  BY <1>1, <1>2, <1>3, PTL DEF MatchingSpec

-----------------------------------------------------------------------------
(* The record that is taken.                                               *)

\* What the name of a candidate counts for, and where it comes from.
LEMMA TitleScoreFrom ==
  ASSUME NEW q, NEW c
  PROVE  /\ TitleScore(q, c) \in Points
         /\ \A a \in AskedNames(q), n \in Names(c) : TextScore(a, n) <= TitleScore(q, c)
         /\ (\E a \in AskedNames(q), n \in c.aliases : Exactly(a, n)) => 60 <= TitleScore(q, c)
         /\ \/ TitleScore(q, c) = 0
            \/ TitleScore(q, c) = 60 /\ \E a \in AskedNames(q), n \in c.aliases : Exactly(a, n)
            \/ \E a \in AskedNames(q), n \in Names(c) : TitleScore(q, c) = TextScore(a, n)
<1> DEFINE Alias == \E a \in AskedNames(q), n \in c.aliases : Exactly(a, n)
           Direct == {TextScore(a, n) : a \in AskedNames(q), n \in Names(c)}
           byAlias == IF Alias THEN WeakExactScore ELSE 0
           S == Direct \cup {byAlias}
<1>1. Direct \subseteq Points
  BY TextScoreIs
<1>2. byAlias \in Points /\ (Alias => byAlias = 60) /\ (~Alias => byAlias = 0)
  BY DEF WeakExactScore, HighScore, Points
<1>3. TitleScore(q, c) = Best(S)
  BY DEF TitleScore
<1>4. \A a \in AskedNames(q), n \in Names(c) : TextScore(a, n) \in S
  OBVIOUS
<1>5. \A s \in S : s = byAlias \/ \E a \in AskedNames(q), n \in Names(c) : s = TextScore(a, n)
  OBVIOUS
<1>6. S \in SUBSET Points /\ S # {} /\ byAlias \in S
  <2> HIDE DEF Points, byAlias, Direct
  <2> QED
    BY <1>1, <1>2
<1> HIDE DEF S, byAlias, Direct, Points
<1>7. Best(S) \in S /\ Best(S) \in Points /\ \A t \in S : t <= Best(S)
  BY <1>6, BestIs
<1>8. \A a \in AskedNames(q), n \in Names(c) : TextScore(a, n) <= TitleScore(q, c)
  BY <1>3, <1>4, <1>7
<1>9. Alias => 60 <= TitleScore(q, c)
  BY <1>2, <1>3, <1>6, <1>7
<1>10. TitleScore(q, c) = byAlias \/ \E a \in AskedNames(q), n \in Names(c) : TitleScore(q, c) = TextScore(a, n)
  BY <1>3, <1>5, <1>7
<1> QED
  BY <1>2, <1>3, <1>7, <1>8, <1>9, <1>10

LEMMA NameScoreFrom ==
  ASSUME NEW q, NEW c, NEW series
  PROVE  /\ NameScore(q, c, series) \in Points
         /\ \A a \in AskedNames(q), n \in Names(c) : TextScore(a, n) <= NameScore(q, c, series)
         /\ (\E a \in AskedNames(q), n \in c.aliases : Exactly(a, n)) => 60 <= NameScore(q, c, series)
         /\ \/ NameScore(q, c, series) = 0
            \/ NameScore(q, c, series) = 60 /\ \E a \in AskedNames(q), n \in c.aliases : Exactly(a, n)
            \/ NameScore(q, c, series) = 60 /\ \E s \in series, n \in Names(c) : Exactly(s, n)
            \/ \E a \in AskedNames(q), n \in Names(c) : NameScore(q, c, series) = TextScore(a, n)
<1> DEFINE Series == \E s \in series, n \in Names(c) : Exactly(s, n)
           bySeries == IF Series THEN WeakExactScore ELSE 0
           R == {TitleScore(q, c), bySeries}
<1>1. bySeries \in Points /\ (Series => bySeries = 60) /\ (~Series => bySeries = 0)
  BY DEF WeakExactScore, HighScore, Points
<1>2. NameScore(q, c, series) = Best(R)
  BY DEF NameScore
<1>3. TitleScore(q, c) \in Points
  BY TitleScoreFrom
<1>4. R \in SUBSET Points /\ R # {}
  BY <1>1, <1>3
<1> HIDE DEF bySeries
<1>5. TitleScore(q, c) \in R /\ \A r \in R : r = TitleScore(q, c) \/ r = bySeries
  OBVIOUS
<1> HIDE DEF R
<1>6. Best(R) \in R /\ Best(R) \in Points /\ TitleScore(q, c) <= Best(R)
  BY <1>4, <1>5, BestIs
<1>7. TitleScore(q, c) \in Int /\ Best(R) \in Int /\ \A a, n : TextScore(a, n) \in Int
  BY <1>3, <1>6, TextScoreIs DEF Points
<1>8. \A a \in AskedNames(q), n \in Names(c) : TextScore(a, n) <= NameScore(q, c, series)
  <2>1. \A a \in AskedNames(q), n \in Names(c) : TextScore(a, n) <= TitleScore(q, c)
    BY TitleScoreFrom
  <2> QED
    BY <1>2, <1>6, <1>7, <2>1
<1>9. (\E a \in AskedNames(q), n \in c.aliases : Exactly(a, n)) => 60 <= NameScore(q, c, series)
  <2>1. (\E a \in AskedNames(q), n \in c.aliases : Exactly(a, n)) => 60 <= TitleScore(q, c)
    BY TitleScoreFrom
  <2> QED
    BY <1>2, <1>6, <1>7, <2>1
<1>10. Best(R) = TitleScore(q, c) \/ Best(R) = bySeries
  BY <1>5, <1>6
<1> QED
  BY <1>1, <1>2, <1>6, <1>8, <1>9, <1>10, TitleScoreFrom

\* A name is exactly another if the words are the same.
LEMMA ExactlyIs ==
  /\ \A a, b : Exactly(a, b) => FullMatch(a, b) /\ TextScore(a, b) = 70 /\ a # NoName
  /\ \A a : a # NoName => Exactly(a, a) /\ TextScore(a, a) = 70
  /\ \A a : TextScore(NoName, a) = 0 /\ TextScore(a, NoName) = 0
<1> HIDE DEF OneSided, ParticleMatch, SubtitlesDiffer, PartOf
<1>1. \A a : TextScore(NoName, a) = 0 /\ TextScore(a, NoName) = 0
  BY DEF TextScore
<1>2. \A a, b : Exactly(a, b) => FullMatch(a, b) /\ TextScore(a, b) = 70 /\ a # NoName
  <2> SUFFICES ASSUME NEW a, NEW b, Exactly(a, b) PROVE FullMatch(a, b) /\ TextScore(a, b) = 70 /\ a # NoName
    OBVIOUS
  <2>1. TextScore(a, b) = 70
    BY DEF Exactly, HighScore
  <2> HIDE DEF NoName, FullMatch
  <2> QED
    BY <2>1 DEF TextScore, WeakExactScore, HighScore, MediumScore
<1>3. \A a : a # NoName => Exactly(a, a) /\ TextScore(a, a) = 70
  <2> SUFFICES ASSUME NEW a, a # NoName PROVE Exactly(a, a) /\ TextScore(a, a) = 70
    OBVIOUS
  <2>1. FullMatch(a, a)
    BY DEF FullMatch
  <2> HIDE DEF NoName, FullMatch
  <2> QED
    BY <2>1 DEF Exactly, TextScore, HighScore
<1> QED
  BY <1>1, <1>2, <1>3

\* What a record tells of its work.
IsRecord(c, w) ==
  /\ c.season = w.season /\ c.native = NoName /\ c.title \in Called(w) /\ c.id = w.id
  /\ c.year \in {0, w.year} /\ c.episodes \in {0, w.episodes}
  /\ c.aliases \subseteq {w.title} /\ (c.aliases # {} => w.season = 0 /\ c.title = w.own /\ w.own # w.title)
  /\ w.season = 0 /\ c.title # w.title => c.aliases = {w.title}

LEMMA RecordTells ==
  ASSUME NEW c \in Records
  PROVE  \E w \in Works : IsRecord(c, w)
<1>1. PICK p \in {"bangumi", "anilist"}, w \in Works, k \in Knowing : c = Record(p, w, k)
  BY DEF Records
<1> DEFINE own == p = "bangumi"
<1>2. /\ c.season = w.season /\ c.native = NoName /\ c.id = w.id
      /\ c.title = IF own THEN w.own ELSE w.title
      /\ c.aliases = IF own /\ w.season = 0 /\ w.own # w.title THEN {w.title} ELSE {}
      /\ c.year = IF k = "all" THEN w.year ELSE 0
      /\ c.episodes = IF k = "all" THEN w.episodes ELSE 0
  BY <1>1 DEF Record
<1> HIDE DEF own, NoName
<1>3. CASE own
  BY <1>2, <1>3 DEF IsRecord, Called
<1>4. CASE ~own
  BY <1>2, <1>4 DEF IsRecord, Called
<1> QED
  BY <1>3, <1>4

\* What the site tells of the anime, when it has the year right or none.
IsQuery(q, v) ==
  /\ v.title \in AskedNames(q) /\ AskedNames(q) \subseteq {v.title, NoName, LatinName}
  /\ q.season = v.season /\ q.year \in {0, v.year} /\ q.episodes \in {0, v.episodes}

LEMMA QueryAsks ==
  ASSUME NEW v \in Works, NEW q \in Queries(v), q.year \in {0, v.year}
  PROVE  IsQuery(q, v)
<1>1. PICK t \in {<<v.title, NoName>>, <<LatinName, v.title>>}, y \in {0, v.year, v.year + 1}, e \in {0, v.episodes} :
        q = [title |-> t[1], native |-> t[2], season |-> v.season, year |-> y, episodes |-> e]
  BY DEF Queries
<1>2. q.title = t[1] /\ q.native = t[2] /\ q.season = v.season /\ q.episodes = e
  BY <1>1
<1>3. (t[1] = v.title /\ t[2] = NoName) \/ (t[1] = LatinName /\ t[2] = v.title)
  BY <1>1
<1> HIDE DEF NoName, LatinName
<1> QED
  BY <1>2, <1>3 DEF IsQuery, AskedNames

LEMMA WorkHas ==
  ASSUME NEW w \in Works
  PROVE  /\ w.season \in Nat /\ w.year \in Nat /\ w.episodes \in Nat
         /\ w.title \in Called(w) /\ w.own \in Called(w) /\ NoName \notin Called(w)
         /\ \A n \in Called(w) : TextScore(LatinName, n) = 0
BY MatchingAssumption, WorksAssumption DEF Called

\* Hints speak for the anime's own records, whatever they leave out,
LEMMA OwnHints ==
  ASSUME NEW v \in Works, NEW q, IsQuery(q, v), NEW c, IsRecord(c, v)
  PROVE  HintScore(q, c) >= IF v.season = 0 THEN 0 ELSE 12
<1>1. v.season \in Nat /\ v.year \in Nat /\ v.episodes \in Nat
  BY WorkHas
<1>2. /\ q.season = v.season /\ q.year \in {0, v.year} /\ q.episodes \in {0, v.episodes}
      /\ c.season = v.season /\ c.year \in {0, v.year} /\ c.episodes \in {0, v.episodes}
  BY DEF IsQuery, IsRecord
<1>3. SeasonHint(q.season, c.season) = IF v.season = 0 THEN 0 ELSE 12
  BY <1>1, <1>2 DEF SeasonHint
<1>4. YearHint(q.year, c.year) \in {0, 12}
  BY <1>1, <1>2 DEF YearHint, Hint
<1>5. Hint(q.episodes, c.episodes, 8, -10) \in {0, 8}
  BY <1>1, <1>2 DEF Hint
<1> QED
  BY <1>3, <1>4, <1>5 DEF HintScore

\* and for those of another work at most by a number that may be the same.
LEMMA OtherHints ==
  ASSUME NEW v \in Works, NEW q, IsQuery(q, v), NEW w \in Works, NEW t, IsRecord(t, w)
  PROVE  /\ v.season = 0 /\ w.season = 0 => HintScore(q, t) <= 20
         /\ v.season = 0 /\ w.season = 0 /\ v.year # w.year => HintScore(q, t) <= 8
         /\ v.season # w.season /\ v.year # w.year => HintScore(q, t) <= -2
<1>1. v.season \in Nat /\ v.year \in Nat /\ v.episodes \in Nat /\ w.season \in Nat /\ w.year \in Nat /\ w.episodes \in Nat
  BY WorkHas
<1>2. /\ q.season = v.season /\ q.year \in {0, v.year} /\ q.episodes \in {0, v.episodes}
      /\ t.season = w.season /\ t.year \in {0, w.year} /\ t.episodes \in {0, w.episodes}
  BY DEF IsQuery, IsRecord
<1>3. v.season = 0 /\ w.season = 0 => SeasonHint(q.season, t.season) = 0
  BY <1>2 DEF SeasonHint
<1>4. v.season # w.season => SeasonHint(q.season, t.season) \in {-10, -14}
  BY <1>1, <1>2 DEF SeasonHint
<1>5. YearHint(q.year, t.year) \in {-14, 0, 12}
  BY <1>1, <1>2 DEF YearHint, Hint
<1>6. v.year # w.year => YearHint(q.year, t.year) \in {-14, 0}
  <2> SUFFICES ASSUME v.year # w.year PROVE YearHint(q.year, t.year) \in {-14, 0}
    OBVIOUS
  <2>1. q.year = 0 \/ t.year = 0 \/ q.year # t.year
    BY <1>2
  <2>2. Hint(q.year, t.year, 12, -14) \in {-14, 0}
    BY <2>1 DEF Hint
  <2> QED
    BY <2>2 DEF YearHint
<1>7. Hint(q.episodes, t.episodes, 8, -10) \in {-10, 0, 8}
  BY <1>1, <1>2 DEF Hint
<1> QED
  BY <1>3, <1>4, <1>5, <1>6, <1>7 DEF HintScore

\* A record of the anime that matches has one of its names.
LEMMA OwnName ==
  ASSUME NEW v \in Works, NEW q, IsQuery(q, v), NEW c, IsRecord(c, v), NEW series
  PROVE  /\ v.season = 0 => NameScore(q, c, series) >= 60
         /\ v.season = 0 /\ v.own = v.title => NameScore(q, c, series) = 70
<1>1. v.title \in AskedNames(q) /\ v.title # NoName
  <2>1. v.title \in Called(v) /\ NoName \notin Called(v)
    BY WorkHas
  <2> QED
    BY <2>1 DEF IsQuery
<1>2. NameScore(q, c, series) \in Points
  BY NameScoreFrom
<1>3. CASE c.title = v.title
  <2>1. v.title \in Names(c)
    BY <1>3 DEF Names
  <2>2. TextScore(v.title, v.title) = 70
    BY <1>1, ExactlyIs
  <2>3. 70 <= NameScore(q, c, series)
    <3>1. \A a \in AskedNames(q), n \in Names(c) : TextScore(a, n) <= NameScore(q, c, series)
      BY NameScoreFrom
    <3> QED
      BY <1>1, <2>1, <2>2, <3>1
  <2> QED
    BY <1>2, <2>3 DEF Points
<1>4. CASE c.title # v.title
  <2>1. c.title = v.own /\ v.own # v.title
    BY <1>4 DEF IsRecord, Called
  <2>2. v.season = 0 => v.title \in c.aliases
    BY <1>4 DEF IsRecord
  <2>3. v.season = 0 => 60 <= NameScore(q, c, series)
    <3>1. Exactly(v.title, v.title)
      BY <1>1, ExactlyIs
    <3>2. (\E a \in AskedNames(q), n \in c.aliases : Exactly(a, n)) => 60 <= NameScore(q, c, series)
      BY NameScoreFrom
    <3> QED
      BY <1>1, <2>2, <3>1, <3>2
  <2> QED
    BY <1>2, <2>1, <2>3 DEF Points
<1> QED
  BY <1>3, <1>4

\* Whoever has the title as an alias is called otherwise, in a first season.
LEMMA SeriesIs ==
  ASSUME NEW v \in Works, NEW q, IsQuery(q, v), NEW cs \in Seq(Records), NEW s \in SeriesNames(q, cs)
  PROVE  \E u \in Works : /\ u.season = 0 /\ u.own # u.title /\ s = u.own
                          /\ FullMatch(v.title, u.title) /\ TextScore(v.title, u.title) = 70
<1>1. PICK d \in Range(cs) : /\ s \in Names(d) /\ s # NoName
                             /\ \E a \in AskedNames(q), n \in d.aliases : Exactly(a, n)
  <2> DEFINE D == {d \in Range(cs) : \E a \in AskedNames(q), n \in d.aliases : Exactly(a, n)}
             U == UNION {Names(c) : c \in D}
  <2>1. SeriesNames(q, cs) = U \ (AskedNames(q) \cup {NoName})
    BY DEF SeriesNames
  <2> HIDE DEF D, U, NoName
  <2>2. s \in U /\ s # NoName
    BY <2>1
  <2>3. PICK d \in D : s \in Names(d)
    BY <2>2 DEF U
  <2> QED
    BY <2>2, <2>3 DEF D
<1>2. d \in Records
  BY DEF Range
<1>3. PICK u \in Works : IsRecord(d, u)
  BY <1>2, RecordTells
<1>4. PICK a \in AskedNames(q), n \in d.aliases : Exactly(a, n)
  BY <1>1
<1>5. n = u.title /\ u.season = 0 /\ d.title = u.own /\ u.own # u.title /\ s = u.own
  BY <1>1, <1>3 DEF IsRecord, Names
<1>6. FullMatch(a, n) /\ TextScore(a, n) = 70 /\ a # NoName
  BY <1>4, ExactlyIs
<1>7. a # LatinName
  <2>1. TextScore(LatinName, u.title) = 0
    BY WorkHas
  <2> QED
    BY <1>5, <1>6, <2>1
<1>8. a = v.title
  BY <1>6, <1>7 DEF IsQuery
<1> QED
  BY <1>5, <1>6, <1>8

\* The name of another work's record counts for what is alike in it, or because
\* the work has the title, or because it is called as one that has.
LEMMA OtherName ==
  ASSUME NEW v \in Works, NEW q, IsQuery(q, v), NEW cs \in Seq(Records), NEW w \in Works, NEW t, IsRecord(t, w)
  PROVE  LET n == NameScore(q, t, SeriesNames(q, cs))
         IN \/ n = 0
            \/ n = TextScore(v.title, t.title)
            \/ n = 60 /\ w.season = 0 /\ w.own # w.title /\ TextScore(v.title, w.title) = 70
            \/ n = 60 /\ \E u \in Works : /\ u.season = 0 /\ u.own # u.title /\ TextScore(u.own, t.title) = 70
                                          /\ FullMatch(v.title, u.title) /\ TextScore(v.title, u.title) = 70
<1> DEFINE series == SeriesNames(q, cs)
           n == NameScore(q, t, series)
<1>1. \A m \in Called(w) : TextScore(LatinName, m) = 0
  BY WorkHas
<1>2. Names(t) = {t.title, NoName} /\ t.title \in Called(w)
  BY DEF Names, IsRecord
<1>3. \/ n = 0
      \/ n = 60 /\ \E a \in AskedNames(q), m \in t.aliases : Exactly(a, m)
      \/ n = 60 /\ \E s \in series, m \in Names(t) : Exactly(s, m)
      \/ \E a \in AskedNames(q), m \in Names(t) : n = TextScore(a, m)
  BY NameScoreFrom
<1> HIDE DEF n
<1>4. ASSUME NEW a \in AskedNames(q), NEW m \in Names(t), n = TextScore(a, m)
      PROVE  n = 0 \/ n = TextScore(v.title, t.title)
  <2>1. a = v.title \/ a = NoName \/ a = LatinName
    BY DEF IsQuery
  <2>2. m = t.title \/ m = NoName
    BY <1>2
  <2> QED
    BY <1>1, <1>2, <1>4, <2>1, <2>2, ExactlyIs
<1>5. ASSUME NEW a \in AskedNames(q), NEW m \in t.aliases, Exactly(a, m)
      PROVE  w.season = 0 /\ w.own # w.title /\ TextScore(v.title, w.title) = 70
  <2>1. m = w.title /\ w.season = 0 /\ w.own # w.title /\ w.title \in Called(w)
    BY DEF IsRecord, Called
  <2>2. TextScore(a, m) = 70 /\ a # NoName
    BY <1>5, ExactlyIs
  <2>3. a # LatinName
    BY <1>1, <2>1, <2>2
  <2> QED
    BY <2>1, <2>2, <2>3 DEF IsQuery
<1>6. ASSUME NEW s \in series, NEW m \in Names(t), Exactly(s, m)
      PROVE  \E u \in Works : /\ u.season = 0 /\ u.own # u.title /\ TextScore(u.own, t.title) = 70
                              /\ FullMatch(v.title, u.title) /\ TextScore(v.title, u.title) = 70
  <2>1. TextScore(s, m) = 70
    BY <1>6, ExactlyIs
  <2>2. m = t.title
    BY <1>2, <2>1, ExactlyIs
  <2>3. PICK u \in Works : /\ u.season = 0 /\ u.own # u.title /\ s = u.own
                           /\ FullMatch(v.title, u.title) /\ TextScore(v.title, u.title) = 70
    BY SeriesIs
  <2> QED
    BY <2>1, <2>2, <2>3
<1>7. CASE n = 60 /\ \E a \in AskedNames(q), m \in t.aliases : Exactly(a, m)
  BY <1>5, <1>7 DEF n
<1>8. CASE n = 60 /\ \E s \in series, m \in Names(t) : Exactly(s, m)
  BY <1>6, <1>8 DEF n
<1>9. CASE \E a \in AskedNames(q), m \in Names(t) : n = TextScore(a, m)
  BY <1>4, <1>9 DEF n
<1>10. CASE n = 0
  BY <1>10 DEF n
<1> QED
  BY <1>3, <1>7, <1>8, <1>9, <1>10

\* The record of another work, told apart from the anime, does not leave a record
\* of the anime that matches far behind, and is behind it if the two seem the same.
LEMMA NeverFarAhead ==
  ASSUME NEW v \in Works, NEW q, IsQuery(q, v), NEW cs \in Seq(Records),
         NEW c, IsRecord(c, v), NameScore(q, c, SeriesNames(q, cs)) # 0,
         NEW w \in Works, v # w, NEW t, IsRecord(t, w), NameScore(q, t, SeriesNames(q, cs)) # 0
  PROVE  /\ NameScore(q, t, SeriesNames(q, cs)) + HintScore(q, t)
              <= NameScore(q, c, SeriesNames(q, cs)) + HintScore(q, c) + 8
         /\ t.title = c.title => NameScore(q, t, SeriesNames(q, cs)) + HintScore(q, t)
                                   < NameScore(q, c, SeriesNames(q, cs)) + HintScore(q, c)
         /\ t.season = c.season => t.season = 0
<1> DEFINE series == SeriesNames(q, cs)
           m == NameScore(q, c, series)
           n == NameScore(q, t, series)
           g == HintScore(q, c)
           h == HintScore(q, t)
<1>1. /\ m \in Points /\ m # 0 /\ n \in Points /\ n # 0 /\ g \in Int /\ h \in Int
      /\ g >= IF v.season = 0 THEN 0 ELSE 12
  BY NameScoreIs, HintScoreIs, OwnHints
<1>2. /\ v.season = 0 => m >= 60
      /\ v.season = 0 /\ v.own = v.title => m = 70
  BY OwnName
<1>3. /\ v.season = 0 /\ w.season = 0 => h <= 20
      /\ v.season = 0 /\ w.season = 0 /\ v.year # w.year => h <= 8
      /\ v.season # w.season /\ v.year # w.year => h <= -2
  BY OtherHints
<1>4. \/ n = TextScore(v.title, t.title)
      \/ n = 60 /\ w.season = 0 /\ w.own # w.title /\ TextScore(v.title, w.title) = 70
      \/ n = 60 /\ \E u \in Works : /\ u.season = 0 /\ u.own # u.title /\ TextScore(u.own, t.title) = 70
                                    /\ FullMatch(v.title, u.title) /\ TextScore(v.title, u.title) = 70
  BY <1>1, OtherName
<1>5. /\ v.title \in Called(v) /\ c.title \in Called(v) /\ t.title \in Called(w) /\ w.title \in Called(w)
      /\ c.title # NoName /\ c.season = v.season /\ t.season = w.season
  BY WorkHas DEF IsRecord
<1>6. t.title = c.title => TextScore(v.title, t.title) <= m
  <2>1. v.title \in AskedNames(q) /\ c.title \in Names(c)
    BY DEF IsQuery, Names
  <2>2. \A a \in AskedNames(q), b \in Names(c) : TextScore(a, b) <= NameScore(q, c, series)
    BY NameScoreFrom
  <2> QED
    BY <2>1, <2>2
<1>7. t.title = c.title => \E a \in Called(v), b \in Called(w) : TextScore(a, b) = 70
  BY <1>5, ExactlyIs
<1>8. ToldApart(v, w) /\ \A u \in Works : v # u => ToldApart(v, u)
  BY WorksAssumption
<1> HIDE DEF m, n, g, h
<1> SUFFICES n + h <= m + g + 8 /\ (t.title = c.title => n + h < m + g) /\ (t.season = c.season => t.season = 0)
  BY DEF m, n, g, h
<1>9. n = TextScore(v.title, t.title) \/ n = 60
  BY <1>4
<1>10. CASE v.season # w.season /\ v.year # w.year
  <2>1. h <= -2 /\ (t.season = c.season => t.season = 0)
    BY <1>3, <1>5, <1>10
  <2>2. n + h <= m + g + 8
    BY <1>1, <1>2, <2>1 DEF Points
  <2>3. t.title = c.title => n <= m \/ n = 60
    BY <1>6, <1>9
  <2>4. t.title = c.title => n + h < m + g
    BY <1>1, <1>2, <2>1, <2>3 DEF Points
  <2> QED
    BY <2>1, <2>2, <2>4
<1>11. CASE v.season = 0 /\ w.season = 0 /\ AtMostAlike(v, w, WeakExactScore) /\ v.year # w.year
  <2>1. \A a \in Called(v), b \in Called(w) : TextScore(a, b) <= 60
    BY <1>11 DEF AtMostAlike, WeakExactScore, HighScore
  <2>2. t.title # c.title /\ n <= 60
    BY <1>5, <1>7, <1>9, <2>1
  <2>3. h <= 8 /\ m >= 60 /\ g >= 0
    BY <1>1, <1>2, <1>3, <1>11
  <2>4. n + h <= m + g + 8
    BY <1>1, <2>2, <2>3 DEF Points
  <2> QED
    BY <1>5, <1>11, <2>2, <2>4
<1>12. CASE v.season = 0 /\ w.season = 0 /\ AtMostAlike(v, w, MediumScore + 2) /\ v.own = v.title /\ w.own = w.title
  <2>1. \A a \in Called(v), b \in Called(w) : TextScore(a, b) <= 52
    BY <1>12 DEF AtMostAlike, MediumScore
  <2>2. t.title # c.title
    BY <1>7, <2>1
  <2>3. ASSUME NEW u \in Works, u.season = 0, u.own # u.title, TextScore(v.title, u.title) = 70 PROVE FALSE
    <3>1. v # u /\ u.title \in Called(u)
      BY <1>12, <2>3, WorkHas
    <3>2. ~AtMostAlike(v, u, WeakExactScore) /\ ~AtMostAlike(v, u, 0)
      BY <1>5, <2>3, <3>1 DEF AtMostAlike, WeakExactScore, HighScore
    <3>3. ToldApart(v, u)
      BY <1>8, <3>1
    <3>4. FullMatch(v.title, v.title)
      BY DEF FullMatch
    <3> QED
      BY <1>12, <2>3, <3>2, <3>3, <3>4 DEF ToldApart
  <2>4. n <= 52
    BY <1>4, <1>5, <1>12, <2>1, <2>3
  <2>5. h <= 20 /\ m = 70 /\ g >= 0
    BY <1>1, <1>2, <1>3, <1>12
  <2>6. n + h <= m + g + 8
    BY <1>1, <2>4, <2>5 DEF Points
  <2> QED
    BY <1>5, <1>12, <2>2, <2>6
<1>13. CASE \A u \in Works : FullMatch(u.title, v.title) => AtMostAlike(u, w, 0)
  <2>1. FullMatch(v.title, v.title)
    BY DEF FullMatch
  <2>2. \A a \in Called(v), b \in Called(w) : TextScore(a, b) <= 0
    BY <1>13, <2>1 DEF AtMostAlike
  <2>3. n # TextScore(v.title, t.title)
    <3>1. TextScore(v.title, t.title) \in Points /\ TextScore(v.title, t.title) <= 0
      BY <1>5, <2>2, TextScoreIs
    <3> QED
      BY <1>1, <3>1 DEF Points
  <2>4. TextScore(v.title, w.title) # 70
    BY <1>5, <2>2
  <2>5. PICK u \in Works : TextScore(u.own, t.title) = 70 /\ FullMatch(v.title, u.title)
    BY <1>4, <2>3, <2>4
  <2>6. FullMatch(u.title, v.title) /\ u.own \in Called(u)
    BY <2>5, WorkHas DEF FullMatch
  <2>7. TextScore(u.own, t.title) <= 0
    BY <1>5, <1>13, <2>6 DEF AtMostAlike
  <2> QED
    BY <2>5, <2>7
<1> QED
  BY <1>8, <1>10, <1>11, <1>12, <1>13 DEF ToldApart

\* So whatever is taken is of the anime.
LEMMA MatchIsOwn ==
  ASSUME NEW v \in Works, NEW q, IsQuery(q, v), NEW cs \in Seq(Records), Distinct(cs),
         NEW c \in Range(cs), c.id = v.id, NameScore(q, c, SeriesNames(q, cs)) # 0,
         MatchMetadata(q, cs) # NoMatch
  PROVE  MatchMetadata(q, cs).id = v.id
<1> DEFINE series == SeriesNames(q, cs)
           s == Scored(q, cs, series)
           top == TopOf(s)
           As(d) == ScoredAs(d, NameScore(q, d, series), HintScore(q, d))
<1>1. /\ Rankable(s) /\ Range(s) = {e \in {As(d) : d \in Range(cs)} : e.title # 0}
  <2> HIDE DEF series
  <2> QED
    BY ScoredIs
<1>2. \A d : /\ As(d).of = d /\ As(d).title = NameScore(q, d, series)
             /\ As(d).score = NameScore(q, d, series) + HintScore(q, d)
  BY DEF ScoredAs
<1>3. MatchMetadata(q, cs) = Ranked(s)
  BY DEF MatchMetadata
<1>4. As(c) \in Range(s)
  BY <1>1, <1>2
<1> HIDE DEF s, As, series
<1>5. s # <<>> /\ MatchMetadata(q, cs) = Accepted(s, top)
  BY <1>3 DEF Ranked
<1>6. Certain(s[top], {s[i] : i \in DOMAIN s \ {top}}) /\ MatchMetadata(q, cs) = s[top].of
  BY <1>5 DEF Accepted
<1>7. top \in DOMAIN s /\ \A j \in DOMAIN s \ {top} : Before(s[top], s[j])
  BY <1>1, <1>5, TopOfIs
<1> HIDE DEF top
<1>8. PICK i \in DOMAIN s : s[i] = As(c)
  BY <1>4 DEF Range
<1>9. PICK t \in Range(cs) : s[top] = As(t) /\ NameScore(q, t, series) # 0
  <2>1. s[top] \in Range(s)
    BY <1>7 DEF Range
  <2> QED
    BY <1>1, <1>2, <2>1
<1>10. c \in Records /\ t \in Records
  BY DEF Range
<1>11. IsRecord(c, v)
  <2>1. PICK u \in Works : IsRecord(c, u)
    BY <1>10, RecordTells
  <2>2. u.id = v.id
    BY <2>1 DEF IsRecord
  <2> QED
    BY <2>1, <2>2, MatchingAssumption
<1>12. PICK w \in Works : IsRecord(t, w)
  BY <1>10, RecordTells
<1> SUFFICES ASSUME v # w PROVE FALSE
  BY <1>2, <1>6, <1>9, <1>12 DEF IsRecord
<1>13. t.id # c.id
  <2>1. t.id = w.id /\ c.id = v.id
    BY <1>11, <1>12 DEF IsRecord
  <2> QED
    BY <2>1, MatchingAssumption
<1>14. i # top
  BY <1>2, <1>8, <1>9, <1>13
<1> DEFINE x == As(t).score
           y == As(c).score
<1>15. /\ x <= y + 8 /\ (t.title = c.title => x < y)
       /\ (t.season = c.season => t.season = 0)
  BY <1>2, <1>9, <1>11, <1>12, NeverFarAhead DEF series
<1>16. x \in Int /\ y \in Int
  <2>1. NameScore(q, t, series) \in Int /\ NameScore(q, c, series) \in Int
    BY NameScoreIs DEF Points
  <2> QED
    BY <1>2, <2>1, HintScoreIs
<1> HIDE DEF x, y
<1>17. Before(As(t), As(c))
  BY <1>7, <1>8, <1>9, <1>14
<1>18. x >= y
  BY <1>16, <1>17 DEF Before, x, y
<1>19. Close(As(t), As(c))
  BY <1>15, <1>16 DEF Close, AmbiguityGap, x, y
<1>20. ~SameWork(t, c)
  <2>1. t.title # c.title
    BY <1>15, <1>16, <1>18
  <2>2. t.native = NoName
    BY <1>12 DEF IsRecord
  <2> QED
    BY <2>1, <2>2 DEF SameWork, Equivalent
<1>21. ~SeasonArcs(t, c)
  BY <1>15 DEF SeasonArcs
<1>22. ~Conflict(s[top], {s[j] : j \in DOMAIN s \ {top}})
  BY <1>6 DEF Certain
<1>23. SameWork(As(t).of, As(c).of) \/ SeasonArcs(As(t).of, As(c).of) \/ ~Close(As(t), As(c))
  BY <1>8, <1>9, <1>14, <1>22 DEF Conflict
<1> QED
  BY <1>2, <1>19, <1>20, <1>21, <1>23

\* What is stored is the match of what was named.
ChosenInv ==
  /\ anime \in Works /\ query \in Queries(anime)
  /\ chosen # NoMatch => step \in {"get", "save", "ended"} /\ chosen = MatchMetadata(query, candidates)
  /\ stored # NoMatch => stored = chosen

LEMMA ChosenStep == ChosenInv /\ [MatchingNext]_matchVars => ChosenInv'
<1> SUFFICES ASSUME ChosenInv, [MatchingNext]_matchVars PROVE ChosenInv'
  OBVIOUS
<1> HIDE DEF NoMatch
<1>1. anime' = anime /\ query' = query
  BY DEF MatchingNext, matchVars, LookupEnds, SearchAnswers, SearchFailed, SearchEnds, Searched, SeasonAnswers,
         SeasonFails, SeasonEnds, Browsed, GetAnswers, GetFails, SaveMetadata
<1>2. anime' \in Works /\ query' \in Queries(anime')
  BY <1>1 DEF ChosenInv
<1>3. ASSUME candidates' = candidates, chosen' = chosen, stored' = stored \/ stored' = chosen,
             chosen # NoMatch => step' \in {"get", "save", "ended"}
      PROVE  ChosenInv'
  BY <1>1, <1>2, <1>3 DEF ChosenInv
<1>4. ASSUME NEW match, step \in {"search", "browse"}, stored' = stored, match = MatchMetadata(query, candidates'),
             \/ match # NoMatch /\ chosen' = match /\ step' = "get"
             \/ match = NoMatch /\ chosen' = chosen
      PROVE  ChosenInv'
  <2>1. chosen = NoMatch /\ stored' = NoMatch
    BY <1>4 DEF ChosenInv
  <2>2. CASE match # NoMatch
    BY <1>1, <1>2, <1>4, <2>1, <2>2 DEF ChosenInv
  <2>3. CASE match = NoMatch
    BY <1>2, <1>4, <2>1, <2>3 DEF ChosenInv
  <2> QED
    BY <2>2, <2>3
<1>5. ASSUME NEW cs, NEW failed, step = "search", Searched(cs, failed) PROVE ChosenInv'
  <2>1. chosen = NoMatch /\ stored = NoMatch /\ stored' = stored /\ candidates' = cs
    BY <1>5 DEF ChosenInv, Searched
  <2>2. CASE chosen' = chosen
    BY <1>2, <2>1, <2>2 DEF ChosenInv
  <2>3. CASE Settle(MatchMetadata(query, cs), query.year # 0)
    BY <1>4, <1>5, <2>1, <2>3 DEF Settle
  <2> QED
    BY <1>5, <2>2, <2>3 DEF Searched
<1>6. ASSUME NEW cs, Browsed(cs) PROVE ChosenInv'
  <2>1. step = "browse" /\ candidates' = cs /\ stored' = stored /\ Settle(MatchMetadata(query, cs), FALSE)
    BY <1>6 DEF Browsed
  <2> QED
    BY <1>4, <2>1 DEF Settle
<1>7. CASE LookupEnds
  BY <1>3, <1>7 DEF LookupEnds, ChosenInv
<1>8. CASE SearchAnswers \/ SearchFailed
  BY <1>5, <1>8 DEF SearchAnswers, SearchFailed
<1>9. CASE SeasonAnswers \/ SeasonFails
  BY <1>6, <1>9 DEF SeasonAnswers, SeasonFails
<1>10. CASE SearchEnds \/ SeasonEnds
  BY <1>3, <1>10 DEF SearchEnds, SeasonEnds, EndRefresh
<1>11. CASE GetAnswers \/ GetFails \/ SaveMetadata
  BY <1>3, <1>11 DEF GetAnswers, GetFails, SaveMetadata, EndRefresh
<1>12. CASE UNCHANGED matchVars
  BY <1>3, <1>12 DEF matchVars, ChosenInv
<1> QED
  BY <1>7, <1>8, <1>9, <1>10, <1>11, <1>12 DEF MatchingNext

\* No metadata is better than that of another work: whatever the providers name and
\* leave out, a record of the anime whose names match is not beaten by that of a work
\* told apart from it, so nothing else is stored (MatchMetadata, RefreshMetadata).
THEOREM NoOtherIsStored == MatchingSpec => []StoredIsTheAnime
<1>1. MatchingInit => MatchInv /\ ChosenInv
  BY DEF MatchingInit, MatchInv, Distinct, ChosenInv
<1>2. MatchInv /\ [MatchingNext]_matchVars => MatchInv'
  BY MatchStep
<1>3. ChosenInv /\ [MatchingNext]_matchVars => ChosenInv'
  BY ChosenStep
<1>4. MatchInv /\ ChosenInv => StoredIsTheAnime
  <2> SUFFICES ASSUME MatchInv, ChosenInv, stored # NoMatch, Recognised, query.year \in {0, anime.year}
               PROVE  stored.id = anime.id
    BY DEF StoredIsTheAnime
  <2>1. PICK c \in Range(candidates) : c.id = anime.id /\ NameScore(query, c, SeriesNames(query, candidates)) > 0
    BY DEF Recognised
  <2>2. /\ anime \in Works /\ query \in Queries(anime) /\ candidates \in Seq(Records) /\ Distinct(candidates)
        /\ stored = MatchMetadata(query, candidates)
    BY DEF MatchInv, ChosenInv
  <2>3. IsQuery(query, anime)
    BY <2>2, QueryAsks
  <2>4. NameScore(query, c, SeriesNames(query, candidates)) # 0
    BY <2>1, NameScoreIs DEF Points
  <2> QED
    BY <2>1, <2>2, <2>3, <2>4, MatchIsOwn
<1> QED
  BY <1>1, <1>2, <1>3, <1>4, PTL DEF MatchingSpec
=============================================================================
