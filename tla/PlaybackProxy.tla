---------------------------- MODULE PlaybackProxy ----------------------------
(***************************************************************************)
(* The local playback proxy (adapters/playback/proxy/proxy.go): requests   *)
(* of mpv that stream from upstream, while their sessions expire, are      *)
(* closed by their owner, or go down with the whole server.                *)
(*                                                                         *)
(* Every critical section of server.mu, session.mu and transfer.mu is one  *)
(* step.  Whoever revokes a session first does the work, and the others    *)
(* wait for closeDone; the model keeps the work with the session and lets  *)
(* all its callers wait.                                                   *)
(***************************************************************************)
EXTENDS Integers, FiniteSets

CONSTANTS
  Sessions, Requests,      \* bounds: the sessions made, the requests that arrive
  MaxSessions,             \* config.MaxSessions
  MaxConcurrentStreams,    \* config.MaxConcurrentStreams
  MaxStreamsPerSession     \* config.MaxStreamsPerSession

None == "none"

\* Who calls Session.Close: its owner, its timer, a request that finds it expired.
OwnCallers == {"owner", "timer"} \X Sessions
Callers    == OwnCallers \cup Requests

\* normalizeConfig; and a request is neither a session's owner nor its timer.
ASSUME ProxyAssumption ==
  /\ {MaxSessions, MaxConcurrentStreams, MaxStreamsPerSession} \subseteq Nat \ {0}
  /\ MaxStreamsPerSession <= MaxConcurrentStreams
  /\ None \notin Sessions \cup Requests
  /\ Requests \cap OwnCallers = {}

\* Where a request is while session.wg and server.wg count it, in order.
Served == {"acquired", "reserved", "admitted", "attached", "opening", "opened", "reading",
           "writing", "finishing", "closing", "finished", "detached"}

VARIABLES
  server,    \* the Server, and its Close
  session,   \* the Sessions, and the revoke of each
  caller,    \* the calls of Session.Close
  request    \* the requests, their transfers and their bodies

vars == <<server, session, caller, request>>

Init ==
  /\ server = [closed |-> FALSE, listening |-> TRUE, serving |-> TRUE, shutdown |-> "no",
               toRevoke |-> {}, joins |-> None, wg |-> 1, streams |-> 0]
  /\ session = [s \in Sessions |->
       [made |-> FALSE, mapped |-> FALSE, expired |-> FALSE, revoked |-> FALSE,
        transfers |-> {}, toInterrupt |-> {}, breaking |-> None, wg |-> 0, streams |-> 0,
        cleared |-> FALSE]]
  /\ caller = [c \in Callers |-> [at |-> "idle", of |-> None]]
  /\ request = [r \in Requests |->
       [pc |-> "new", of |-> None, cancelled |-> FALSE, deadline |-> FALSE,
        interrupted |-> FALSE, interruptDone |-> FALSE, finished |-> FALSE, body |-> None]]

Mapped == {s \in Sessions : session[s].mapped}   \* server.sessions

-----------------------------------------------------------------------------
(* Sessions come, expire and are closed.                                   *)

BelowLimit == Cardinality(Mapped) < MaxSessions

NewSession(s) ==
  /\ ~session[s].made
  /\ ~server.closed
  /\ BelowLimit
  /\ session' = [session EXCEPT ![s].made = TRUE, ![s].mapped = TRUE]
  /\ UNCHANGED <<server, caller, request>>

\* The deadline passes.
Expire(s) ==
  /\ session[s].made /\ ~session[s].expired
  /\ session' = [session EXCEPT ![s].expired = TRUE]
  /\ UNCHANGED <<server, caller, request>>

CallClose(c, s) ==
  /\ caller[c].at = "idle"
  /\ caller' = [caller EXCEPT ![c] = [at |-> "remove", of |-> s]]

OwnerCloses(s) ==
  /\ session[s].made
  /\ CallClose(<<"owner", s>>, s)
  /\ UNCHANGED <<server, session, request>>

\* Unless revoke has stopped the timer.
TimerCloses(s) ==
  /\ session[s].expired /\ ~session[s].revoked
  /\ CallClose(<<"timer", s>>, s)
  /\ UNCHANGED <<server, session, request>>

Remove(c) ==
  /\ caller[c].at = "remove"
  /\ caller' = [caller EXCEPT ![c].at = "revoke"]
  /\ session' = [session EXCEPT ![caller[c].of].mapped = FALSE]
  /\ UNCHANGED <<server, request>>

\* The first section of revoke, which does nothing the second time.
Revoked(s) ==
  IF session[s].revoked
  THEN session
  ELSE [session EXCEPT ![s].revoked = TRUE, ![s].toInterrupt = session[s].transfers]

Revoke(c) ==
  /\ caller[c].at = "revoke"
  /\ caller' = [caller EXCEPT ![c].at = "join"]
  /\ session' = Revoked(caller[c].of)
  /\ UNCHANGED <<server, request>>

\* interrupt: its section, and what it does after it.
Interrupt(s, r) ==
  /\ r \in session[s].toInterrupt
  /\ session[s].breaking = None
  /\ IF request[r].interrupted \/ request[r].finished
     THEN /\ session' = [session EXCEPT ![s].toInterrupt = @ \ {r}]
          /\ UNCHANGED request
     ELSE /\ session' = [session EXCEPT ![s].toInterrupt = @ \ {r}, ![s].breaking = r]
          /\ request' = [request EXCEPT ![r].interrupted = TRUE]
  /\ UNCHANGED <<server, caller>>

\* A body that comes later is closed by attachBody.
ClosedBody(r) == IF request[r].body = "attached" THEN "closed" ELSE request[r].body

BrokenWithoutDeadline(r) ==   \* fault: a blocked write is not woken
  [request[r] EXCEPT !.cancelled = TRUE, !.body = ClosedBody(r), !.interruptDone = TRUE]
Broken(r) ==
  [request[r] EXCEPT !.cancelled = TRUE, !.deadline = TRUE, !.body = ClosedBody(r),
                     !.interruptDone = TRUE]

Break(s) ==
  LET r == session[s].breaking
  IN /\ r # None
     /\ session' = [session EXCEPT ![s].breaking = None]
     /\ request' = [request EXCEPT ![r] = Broken(r)]
     /\ UNCHANGED <<server, caller>>

\* session.wg.Wait returned: the session forgets its source and closes closeDone.
Clearable(s) ==
  session[s].toInterrupt = {} /\ session[s].breaking = None /\ session[s].wg = 0

Clear(s) ==
  /\ session[s].revoked /\ ~session[s].cleared
  /\ Clearable(s)
  /\ session' = [session EXCEPT ![s].cleared = TRUE, ![s].transfers = {}]
  /\ UNCHANGED <<server, caller, request>>

CloseReturns(c) ==
  /\ caller[c].at = "join"
  /\ session[caller[c].of].cleared
  /\ caller' = [caller EXCEPT ![c].at = "returned"]
  /\ request' = IF c \in Requests THEN [request EXCEPT ![c].pc = "returned"] ELSE request
  /\ UNCHANGED <<server, session>>

SessionStep ==
  \/ \E s \in Sessions : \/ NewSession(s) \/ Expire(s) \/ OwnerCloses(s) \/ TimerCloses(s)
                         \/ Break(s) \/ Clear(s) \/ \E r \in Requests : Interrupt(s, r)
  \/ \E c \in Callers : Remove(c) \/ Revoke(c) \/ CloseReturns(c)

-----------------------------------------------------------------------------
(* Server.Close.                                                           *)

ServerCloses ==
  /\ ~server.closed
  /\ server' = [server EXCEPT !.closed = TRUE, !.shutdown = "revoking", !.toRevoke = Mapped]
  /\ session' = [s \in Sessions |-> [session[s] EXCEPT !.mapped = FALSE]]
  /\ UNCHANGED <<caller, request>>

\* Closing the connections cancels the contexts of their requests.
StopListening ==
  /\ server.shutdown = "revoking" /\ server.listening
  /\ server' = [server EXCEPT !.listening = FALSE]
  /\ request' = [r \in Requests |-> [request[r] EXCEPT !.cancelled = @ \/ request[r].pc \in Served]]
  /\ UNCHANGED <<session, caller>>

ServeReturns ==
  /\ server.serving /\ ~server.listening
  /\ server' = [server EXCEPT !.serving = FALSE, !.wg = @ - 1]
  /\ UNCHANGED <<session, caller, request>>

\* One session after the other, each until its closeDone is closed.
ServerRevokes(s) ==
  /\ server.shutdown = "revoking" /\ ~server.listening
  /\ server.joins = None
  /\ s \in server.toRevoke
  /\ server' = [server EXCEPT !.toRevoke = @ \ {s}, !.joins = s]
  /\ session' = Revoked(s)
  /\ UNCHANGED <<caller, request>>

ServerJoins ==
  /\ server.joins # None
  /\ session[server.joins].cleared
  /\ server' = [server EXCEPT !.joins = None]
  /\ UNCHANGED <<session, caller, request>>

ServerWaits ==
  /\ server.shutdown = "revoking" /\ ~server.listening
  /\ server.toRevoke = {} /\ server.joins = None
  /\ server' = [server EXCEPT !.shutdown = "waiting"]
  /\ UNCHANGED <<session, caller, request>>

ServerReturns ==
  /\ server.shutdown = "waiting"
  /\ server.wg = 0
  /\ server' = [server EXCEPT !.shutdown = "returned"]
  /\ UNCHANGED <<session, caller, request>>

ServerStep ==
  \/ ServerCloses \/ StopListening \/ ServeReturns \/ ServerJoins \/ ServerWaits \/ ServerReturns
  \/ \E s \in Sessions : ServerRevokes(s)

-----------------------------------------------------------------------------
(* A request: handle and serveSession.                                     *)

Of(r) == request[r].of

Goto(r, from, to) == request[r].pc = from /\ request' = [request EXCEPT ![r].pc = to]

\* A token that is not in the map, or a server that is closed.
Refuse(r) ==
  /\ Goto(r, "new", "returned")
  /\ UNCHANGED <<server, session, caller>>

\* acquire, under server.mu and session.mu.
Acquirable(s) == ~session[s].revoked /\ ~session[s].expired

Arrive(r, s) ==
  /\ server.listening
  /\ request[r].pc = "new"
  /\ session[s].mapped
  /\ IF Acquirable(s)
     THEN /\ request' = [request EXCEPT ![r].pc = "acquired", ![r].of = s]
          /\ session' = [session EXCEPT ![s].wg = @ + 1]
          /\ server' = [server EXCEPT !.wg = @ + 1]
          /\ UNCHANGED caller
     ELSE /\ request' = [request EXCEPT ![r].pc = "expiring", ![r].of = s]
          /\ CallClose(r, s)
          /\ UNCHANGED <<server, session>>

\* The range is not valid, or no slot of the server's is free.
Answer(r) ==
  /\ Goto(r, "acquired", "detached")
  /\ UNCHANGED <<server, session, caller>>

\* tryAcquire of the server's slots.
Reserve(r) ==
  /\ server.streams < MaxConcurrentStreams
  /\ Goto(r, "acquired", "reserved")
  /\ server' = [server EXCEPT !.streams = @ + 1]
  /\ UNCHANGED <<session, caller>>

\* And of the session's.
SlotFree(s) == session[s].streams < MaxStreamsPerSession

Admit(r) ==
  /\ Goto(r, "reserved", "admitted")
  /\ SlotFree(Of(r))
  /\ session' = [session EXCEPT ![Of(r)].streams = @ + 1]
  /\ UNCHANGED <<server, caller>>

SlotGivenBack == [server EXCEPT !.streams = @ - 1]

Busy(r) ==
  /\ Goto(r, "reserved", "detached")
  /\ ~SlotFree(Of(r))
  /\ server' = SlotGivenBack
  /\ UNCHANGED <<session, caller>>

AttachableAlways(s) == TRUE   \* fault: also to a session that is revoked
Attachable(s) == ~session[s].revoked

Attach(r) ==
  /\ request[r].pc = "admitted"
  /\ IF Attachable(Of(r))
     THEN /\ Goto(r, "admitted", "attached")
          /\ session' = [session EXCEPT ![Of(r)].transfers = @ \cup {r}]
     ELSE /\ Goto(r, "admitted", "finished")
          /\ UNCHANGED session
  /\ UNCHANGED <<server, caller>>

\* remoteRequest, then Open.
Request(r) ==
  /\ Goto(r, "attached", "opening")
  /\ UNCHANGED <<server, session, caller>>

OpenFails(r) ==
  /\ Goto(r, "opening", "finishing")
  /\ UNCHANGED <<server, session, caller>>

\* Also when the request has just been cancelled.
OpenReturns(r) ==
  /\ request[r].pc = "opening"
  /\ request' = [request EXCEPT ![r].pc = "opened", ![r].body = "open"]
  /\ UNCHANGED <<server, session, caller>>

RejectedBody(r) == "closed"

AttachBody(r) ==
  /\ request[r].pc = "opened"
  /\ request' = IF request[r].interrupted
                THEN [request EXCEPT ![r].pc = "finishing", ![r].body = RejectedBody(r)]
                ELSE [request EXCEPT ![r].pc = "reading", ![r].body = "attached"]
  /\ UNCHANGED <<server, session, caller>>

\* io.Copy.
Read(r)  == Goto(r, "reading", "writing") /\ UNCHANGED <<server, session, caller>>
Write(r) == Goto(r, "writing", "reading") /\ UNCHANGED <<server, session, caller>>

\* The response is rejected, or over, or one of its ends has gone.
CopyEnds(r) ==
  /\ request[r].pc \in {"reading", "writing"}
  /\ request' = [request EXCEPT ![r].pc = "finishing"]
  /\ UNCHANGED <<server, session, caller>>

\* finish: its section, and what it does after it.
Finish(r) ==
  /\ request[r].pc = "finishing"
  /\ request' = [request EXCEPT ![r].pc = "closing", ![r].finished = TRUE]
  /\ UNCHANGED <<server, session, caller>>

FinishableAtOnce(r) == TRUE   \* fault: interrupt is not waited for
Finishable(r) == request[r].interrupted => request[r].interruptDone

CloseBody(r) ==
  /\ request[r].pc = "closing"
  /\ Finishable(r)
  /\ request' = [request EXCEPT ![r].pc = "finished", ![r].cancelled = TRUE,
                                ![r].body = ClosedBody(r), ![r].deadline = FALSE]
  /\ UNCHANGED <<server, session, caller>>

\* detach and the release of both slots; a transfer that was not attached is not there.
Detach(r) ==
  /\ Goto(r, "finished", "detached")
  /\ session' = [session EXCEPT ![Of(r)].transfers = @ \ {r}, ![Of(r)].streams = @ - 1]
  /\ server' = SlotGivenBack
  /\ UNCHANGED caller

Return(r) ==
  /\ Goto(r, "detached", "returned")
  /\ session' = [session EXCEPT ![Of(r)].wg = @ - 1]
  /\ server' = [server EXCEPT !.wg = @ - 1]
  /\ UNCHANGED caller

Serve(r) ==
  \/ Answer(r) \/ Reserve(r) \/ Admit(r) \/ Busy(r) \/ Attach(r) \/ Request(r)
  \/ OpenFails(r) \/ OpenReturns(r) \/ AttachBody(r) \/ Read(r) \/ Write(r)
  \/ CopyEnds(r) \/ Finish(r) \/ CloseBody(r) \/ Detach(r) \/ Return(r)

RequestStep == \E r \in Requests : Refuse(r) \/ Serve(r) \/ \E s \in Sessions : Arrive(r, s)

-----------------------------------------------------------------------------
Next == SessionStep \/ ServerStep \/ RequestStep

Spec == Init /\ [][Next]_vars

\* What a request does by itself, and what only its interruption makes it do: an open
\* or a read ends when its context is cancelled, a write at its deadline or with its
\* connection.
ContextDone(r) == request[r].cancelled \/ session[Of(r)].revoked
GoesOn(r) ==
  \/ Answer(r) \/ Attach(r) \/ Request(r) \/ Admit(r) \/ Busy(r) \/ AttachBody(r)
  \/ Finish(r) \/ CloseBody(r) \/ Detach(r) \/ Return(r)
  \/ request[r].pc = "opening" /\ ContextDone(r) /\ OpenFails(r)
  \/ request[r].pc = "reading" /\ ContextDone(r) /\ CopyEnds(r)
  \/ request[r].pc = "writing" /\ (request[r].deadline \/ ~server.listening) /\ CopyEnds(r)

\* Every goroutine that can go on does; nobody is obliged to come, to call or to expire.
FairSpec ==
  /\ Spec
  /\ \A r \in Requests : WF_vars(GoesOn(r))
  /\ \A c \in Callers : WF_vars(Remove(c) \/ Revoke(c) \/ CloseReturns(c))
  /\ \A s \in Sessions :
       WF_vars(Break(s) \/ Clear(s) \/ \E r \in Requests : Interrupt(s, r))
  /\ WF_vars(\/ StopListening \/ ServerJoins \/ ServerWaits \/ ServerReturns
             \/ \E s \in Sessions : ServerRevokes(s))
  /\ WF_vars(ServeReturns)

-----------------------------------------------------------------------------
(* Properties.                                                             *)

Serves(s) == {r \in Requests : Of(r) = s /\ request[r].pc \in Served}

\* Each variable has its type, no limit of the configuration is exceeded, and the two
\* wait groups count the requests that are being served.
TypeOK ==
  /\ server \in [closed : BOOLEAN, listening : BOOLEAN, serving : BOOLEAN,
                 shutdown : {"no", "revoking", "waiting", "returned"},
                 toRevoke : SUBSET Sessions, joins : Sessions \cup {None},
                 wg : Nat, streams : 0..MaxConcurrentStreams]
  /\ session \in [Sessions ->
       [made : BOOLEAN, mapped : BOOLEAN, expired : BOOLEAN, revoked : BOOLEAN,
        transfers : SUBSET Requests, toInterrupt : SUBSET Requests,
        breaking : Requests \cup {None}, wg : Nat, streams : 0..MaxStreamsPerSession,
        cleared : BOOLEAN]]
  /\ caller \in [Callers -> [at : {"idle", "remove", "revoke", "join", "returned"},
                             of : Sessions \cup {None}]]
  /\ request \in [Requests ->
       [pc : {"new", "expiring", "returned"} \cup Served, of : Sessions \cup {None},
        cancelled : BOOLEAN, deadline : BOOLEAN, interrupted : BOOLEAN,
        interruptDone : BOOLEAN, finished : BOOLEAN, body : {None, "open", "attached", "closed"}]]
  /\ \A s \in Sessions : session[s].wg = Cardinality(Serves(s))

\* A request that builds or sends its upstream request never finds the session's source
\* and client gone: revoke forgets them only when no request is served any more.
SourceIsThere ==
  \A r \in Requests : request[r].pc \in {"attached", "opening"} => ~session[Of(r)].cleared

\* A request that gives its slots back leaves nothing behind: its upstream body is
\* closed, whoever had to close it, interrupt does not use its response writer any more,
\* and the connection has no write deadline.
NothingLeftBehind ==
  \A r \in Requests : request[r].pc \in {"detached", "returned"} =>
    /\ request[r].body \in {None, "closed"}
    /\ ~request[r].deadline
    /\ \A s \in Sessions : session[s].breaking # r

\* Once revoke has interrupted what it found, no transfer of the session is left that
\* nobody has interrupted: attach and revoke do not miss each other.
NoTransferMissed ==
  \A s \in Sessions :
    session[s].revoked /\ session[s].toInterrupt = {} /\ session[s].breaking = None =>
      \A r \in session[s].transfers : request[r].interrupted \/ request[r].finished

\* A stream that is not being served holds no slot.
SlotsReturned ==
  /\ server.streams = Cardinality({r \in Requests : request[r].pc \in Served \ {"acquired", "detached"}})
  /\ \A s \in Sessions :
       session[s].streams = Cardinality({r \in Serves(s) :
                                           request[r].pc \notin {"acquired", "reserved", "detached"}})

\* What a stream uses is there while it uses it, and nothing of it is left when it is
\* over (serveStream, attach, interrupt, detach and revoke, in whatever order).
StreamsAreClean == TypeOK /\ SourceIsThere /\ NothingLeftBehind /\ SlotsReturned

\* The closeDone that every Session.Close waits for is closed, and Server.Close returns,
\* whatever mpv and the upstream do with the streams.
CloseEnds ==
  /\ \A s \in Sessions : session[s].revoked ~> session[s].cleared
  /\ server.closed ~> server.shutdown = "returned"
=============================================================================
