----------------------------- MODULE ProxyProofs -----------------------------
(***************************************************************************)
(* The playback proxy: what it lets through of a range is what was asked   *)
(* for, and its streams and sessions end cleanly.                          *)
(***************************************************************************)
EXTENDS PlaybackRange, PlaybackProxy, FiniteSetTheorems, TLAPS

-----------------------------------------------------------------------------
(* Ranges, for every width of the integers and every set of written numbers. *)

\* The steps are taken once each, and the verdict is the one of the range that was
\* parsed from the header.
Decided ==
  /\ header \in Headers
  /\ verdict \in {"none", "refused", "asked", "passed", "unsatisfiable", "rejected"}
  /\ verdict \notin {"none", "refused"} => Parses(header) /\ wanted = Parsed(header)
  /\ verdict \in {"passed", "unsatisfiable", "rejected"} =>
       answer \in Answers /\ verdict = Verdict(wanted, answer)

\* A number that is parsed is one.
LEMMA NumbersAreNat == \A text : Number(text) => text \in Nat /\ text <= MaxInt
BY RangeAssumption DEF Number

\* What satisfiedContentRange accepts is a range of a file that int64s can describe.
LEMMA SatisfiedRange ==
  ASSUME NEW c, Satisfied(c)
  PROVE  /\ c.start \in Nat /\ c.end \in Nat /\ c.size \in Nat
         /\ c.start <= c.end /\ c.end < c.size /\ c.size <= MaxInt
BY NumbersAreNat DEF Satisfied

\* What each form of a header parses to.
LEMMA TailIsSuffix ==
  ASSUME NEW h \in Headers, h.given, IsTail(h)
  PROVE  Parsed(h).kind = "suffix" /\ Parsed(h).suffix = h.after
<1>1. h.before = Empty /\ h.after \in Nat /\ h.after > 0
  BY NumbersAreNat DEF IsTail
<1>2. ~IsOpen(h) /\ ~IsClosed(h)
  BY <1>1, NumbersAreNat, RangeAssumption DEF IsOpen, IsClosed
<1>3. Parsed(h) = [NoRange EXCEPT !.kind = "suffix", !.suffix = h.after]
  BY <1>2 DEF Parsed
<1> QED
  BY <1>3 DEF NoRange

LEMMA OpenIsOpen ==
  ASSUME NEW h \in Headers, h.given, IsOpen(h)
  PROVE  Parsed(h).kind = "open" /\ Parsed(h).start = h.before
<1>1. h.before \in Nat /\ h.after = Empty /\ h.before # Empty
  BY NumbersAreNat, RangeAssumption DEF IsOpen
<1>2. ~IsTail(h) /\ ~IsClosed(h)
  BY <1>1, NumbersAreNat, RangeAssumption DEF IsTail, IsClosed
<1>3. Parsed(h) = [NoRange EXCEPT !.kind = "open", !.start = h.before]
  BY <1>2 DEF Parsed
<1> QED
  BY <1>3 DEF NoRange

LEMMA ClosedIsClosed ==
  ASSUME NEW h \in Headers, h.given, IsClosed(h)
  PROVE  Parsed(h).kind = "closed" /\ Parsed(h).start = h.before /\ Parsed(h).end = h.after
<1>1. h.before \in Nat /\ h.after \in Nat /\ h.before # Empty /\ h.after # Empty
  BY NumbersAreNat, RangeAssumption DEF IsClosed
<1>2. ~IsTail(h) /\ ~IsOpen(h)
  BY <1>1 DEF IsTail, IsOpen
<1>3. Parsed(h) = [NoRange EXCEPT !.kind = "closed", !.start = h.before, !.end = h.after]
  BY <1>2 DEF Parsed
<1> QED
  BY <1>3 DEF NoRange

\* A byteRange that matches an answer asked for its first and its last byte, and for no
\* byte before its first.
LEMMA MatchesWasAsked ==
  ASSUME NEW h \in Headers, h.given, Parses(h), NEW c, Satisfied(c), Matches(Parsed(h), c)
  PROVE  /\ c.start \in Asked(h, c.size) /\ c.end \in Asked(h, c.size)
         /\ c.start - 1 \notin Asked(h, c.size)
         /\ h.before = Empty => c.end + 1 = c.size
<1>1. /\ c.start \in Nat /\ c.end \in Nat /\ c.size \in Nat
      /\ c.start <= c.end /\ c.end < c.size
  BY SatisfiedRange
<1>2. CASE IsTail(h)
  <2>1. h.before = Empty /\ h.after \in Nat /\ h.after > 0
    BY <1>2, NumbersAreNat DEF IsTail
  <2>2. Parsed(h).kind = "suffix" /\ Parsed(h).suffix = h.after
    BY <1>2, TailIsSuffix
  <2>3. c.end = c.size - 1 /\ c.end - c.start + 1 = IF h.after > c.size THEN c.size ELSE h.after
    BY <2>2 DEF Matches, SuffixMatches
  <2>. QED  BY <1>1, <2>1, <2>3 DEF Asked
<1>3. CASE IsOpen(h)
  <2>1. h.before \in Nat /\ h.after = Empty /\ h.before # Empty
    BY <1>3, NumbersAreNat, RangeAssumption DEF IsOpen
  <2>3. Parsed(h).kind = "open" /\ Parsed(h).start = h.before
    BY <1>3, OpenIsOpen
  <2>4. c.start = h.before
    BY <2>3 DEF Matches
  <2>. QED  BY <1>1, <2>1, <2>4 DEF Asked
<1>4. CASE IsClosed(h)
  <2>1. h.before \in Nat /\ h.after \in Nat /\ h.before # Empty /\ h.after # Empty
    BY <1>4, NumbersAreNat, RangeAssumption DEF IsClosed
  <2>3. Parsed(h).kind = "closed" /\ Parsed(h).start = h.before /\ Parsed(h).end = h.after
    BY <1>4, ClosedIsClosed
  <2>4. c.start = h.before /\ c.end <= h.after
    BY <2>3 DEF Matches
  <2>. QED  BY <1>1, <2>1, <2>4 DEF Asked
<1>. QED  BY <1>2, <1>3, <1>4 DEF Parses

\* A header parses to "no range" only if there is none.
LEMMA GivenIsWanted ==
  ASSUME NEW h, h.given, Parses(h)
  PROVE  Parsed(h).kind # "none"
BY DEF Parses, Parsed, NoRange

LEMMA DecidedInvariant == RangeSpec => []Decided
<1>1. RangeInit => Decided
  BY DEF RangeInit, Decided
<1>2. Decided /\ [RangeNext]_rangeVars => Decided'
  <2>. SUFFICES ASSUME Decided, [RangeNext]_rangeVars PROVE Decided'
    OBVIOUS
  <2>1. CASE Parse
    BY <2>1 DEF Parse, Decided
  <2>2. CASE Check
    <3>1. verdict' \in {"passed", "unsatisfiable", "rejected"}
      BY <2>2 DEF Check, Verdict
    <3>2. verdict' = Verdict(wanted, answer')
      BY <2>2 DEF Check
    <3>3. UNCHANGED <<header, wanted>> /\ answer' \in Answers /\ verdict = "asked"
      BY <2>2 DEF Check
    <3>. QED  BY <3>1, <3>2, <3>3 DEF Decided
  <2>3. CASE UNCHANGED rangeVars
    BY <2>3 DEF rangeVars, Decided
  <2>. QED  BY <2>1, <2>2, <2>3 DEF RangeNext
<1>. QED  BY <1>1, <1>2, PTL DEF RangeSpec

\* Whatever the upstream answers, only bytes that mpv asked for are let through, from the
\* first of them on, with their true length declared (validStatusAndRange).
THEOREM OnlyAskedBytesPass == RangeSpec => []PassedWasAsked
<1>1. Decided => PassedWasAsked
  <2>. SUFFICES ASSUME Decided, verdict = "passed", header.given PROVE PassedWasAsked
    BY DEF PassedWasAsked
  <2>1. header \in Headers /\ Parses(header) /\ wanted = Parsed(header) /\ answer \in Answers
    BY DEF Decided
  <2>2. Satisfied(answer.content) /\ Matches(wanted, answer.content) /\ LengthFits(answer)
    <3>1. Valid(wanted, answer)
      BY DEF Decided, Verdict
    <3> QED
      BY <2>1, <3>1, GivenIsWanted DEF Valid
  <2>3. /\ Start \in Asked(header, Size) /\ End \in Asked(header, Size)
        /\ Start - 1 \notin Asked(header, Size)
        /\ header.before = Empty => End + 1 = Size
    BY <2>1, <2>2, MatchesWasAsked DEF Start, End, Size
  <2>4. End - Start + 1 \in 1..MaxInt
    BY <2>2, SatisfiedRange, RangeAssumption DEF Start, End
  <2>5. answer.length \in {-1, End - Start + 1}
    BY <2>2 DEF LengthFits, Start, End
  <2>. QED  BY <2>3, <2>4, <2>5 DEF PassedWasAsked
<1>. QED  BY <1>1, DecidedInvariant, PTL

\* The range of all the bytes asked for matches what the header parses to.
LEMMA AskedMatches ==
  ASSUME NEW h \in Headers, h.given, Parses(h), NEW c,
         c.start \in Int, c.end \in Int, c.size \in 1..MaxInt, c.start <= c.end,
         Asked(h, c.size) = c.start..c.end
  PROVE  Parsed(h).kind # "none" /\ Matches(Parsed(h), c)
<1>1. c.start \in 0..(c.size - 1) /\ c.end \in 0..(c.size - 1)
  BY RangeAssumption DEF Asked
<1>2. \A b \in 0..(c.size - 1) : b \in Asked(h, c.size) <=> c.start <= b /\ b <= c.end
  BY <1>1, RangeAssumption
<1>3. CASE IsTail(h)
  <2>1. h.before = Empty /\ h.after \in Nat /\ h.after > 0
    BY <1>3, NumbersAreNat DEF IsTail
  <2>2. Parsed(h).kind = "suffix" /\ Parsed(h).suffix = h.after
    BY <1>3, TailIsSuffix
  <2>3. \A b \in 0..(c.size - 1) : b \in Asked(h, c.size) <=> b >= c.size - h.after
    BY <2>1 DEF Asked
  <2>4. c.size - 1 \in 0..(c.size - 1) /\ c.end = c.size - 1
    BY <1>1, <1>2, <2>1, <2>3, RangeAssumption
  <2>5. CASE h.after > c.size
    <3>1. 0 \in 0..(c.size - 1) /\ c.start = 0
      BY <1>1, <1>2, <2>1, <2>3, <2>5, RangeAssumption
    <3> QED
      BY <2>2, <2>4, <2>5, <3>1, RangeAssumption DEF Matches, SuffixMatches
  <2>6. CASE ~(h.after > c.size)
    <3>1. c.size - h.after \in 0..(c.size - 1) /\ c.start = c.size - h.after
      BY <1>1, <1>2, <2>1, <2>3, <2>6, RangeAssumption
    <3> QED
      BY <2>1, <2>2, <2>4, <2>6, <3>1, RangeAssumption DEF Matches, SuffixMatches
  <2> QED
    BY <2>5, <2>6
<1>4. CASE IsOpen(h)
  <2>1. h.before \in Nat /\ h.after = Empty /\ h.before # Empty
    BY <1>4, NumbersAreNat, RangeAssumption DEF IsOpen
  <2>2. Parsed(h).kind = "open" /\ Parsed(h).start = h.before
    BY <1>4, OpenIsOpen
  <2>3. c.start = h.before
    BY <1>1, <1>2, <2>1, RangeAssumption DEF Asked
  <2> QED
    BY <1>1, <2>2, <2>3, RangeAssumption DEF Matches
<1>5. CASE IsClosed(h)
  <2>1. h.before \in Nat /\ h.after \in Nat /\ h.before # Empty /\ h.after # Empty
    BY <1>5, NumbersAreNat, RangeAssumption DEF IsClosed
  <2>2. Parsed(h).kind = "closed" /\ Parsed(h).start = h.before /\ Parsed(h).end = h.after
    BY <1>5, ClosedIsClosed
  <2>3. \A b \in 0..(c.size - 1) : b \in Asked(h, c.size) <=> h.before <= b /\ b <= h.after
    BY <2>1 DEF Asked
  <2>4. c.start = h.before /\ c.end <= h.after
    BY <1>1, <1>2, <2>1, <2>3, RangeAssumption
  <2> QED
    BY <2>2, <2>4 DEF Matches
<1> QED
  BY <1>3, <1>4, <1>5 DEF Parses

\* The proxy rejects no video/mp4, not encoded and with each header once and well formed,
\* that has exactly the bytes asked for with their true length, nor the whole file when no
\* range was asked for (validStatusAndRange and the checks of the other headers beside
\* it): mpv is not left without a file that the upstream gave.
THEOREM NoHonestRejected == RangeSpec => []HonestIsPassed
<1>1. Decided => HonestIsPassed
  <2> SUFFICES ASSUME Decided, verdict = "rejected", answer.flaw = "none" PROVE HonestIsPassed
    BY DEF HonestIsPassed
  <2>1. /\ header \in Headers /\ Parses(header) /\ wanted = Parsed(header) /\ answer \in Answers
        /\ Verdict(wanted, answer) = "rejected"
    BY DEF Decided
  <2>2. ASSUME header.given, answer.status = 206, answer.content.given,
               {Start, End} \subseteq Int, Size \in 1..MaxInt,
               Asked(header, Size) = Start..End, Start <= End,
               answer.length \in {-1, End - Start + 1}
        PROVE  FALSE
    <3>1. wanted.kind # "none" /\ Matches(wanted, answer.content)
      BY <2>1, <2>2, AskedMatches DEF Start, End, Size
    <3>2. Start \in Asked(header, Size) /\ End \in Asked(header, Size)
      BY <2>2
    <3>3. Start \in 0..(Size - 1) /\ End \in 0..(Size - 1)
      BY <3>2 DEF Asked
    <3>4. Satisfied(answer.content)
      BY <2>2, <3>3, RangeAssumption DEF Satisfied, Number, Start, End, Size
    <3>5. LengthFits(answer)
      BY <2>2 DEF LengthFits, Start, End
    <3> QED
      BY <2>1, <2>2, <3>1, <3>4, <3>5 DEF Verdict, Valid, CanBeCopied
  <2>3. ASSUME ~header.given, answer.status = 200, ~answer.content.given PROVE FALSE
    <3>1. wanted = NoRange
      <4>1. ASSUME NEW h \in [given : {TRUE}, before : Texts, after : Texts] PROVE h.given
        <5>1. h.given \in {TRUE}
          BY <4>1
        <5> QED
          BY <5>1
      <4>2. header = Absent
        BY <2>1, <2>3, <4>1 DEF Headers
      <4>3. ~Number(header.before) /\ ~Number(header.after)
        BY <4>2, RangeAssumption DEF Number, Absent
      <4>4. ~IsTail(header) /\ ~IsOpen(header) /\ ~IsClosed(header)
        BY <4>3 DEF IsTail, IsOpen, IsClosed
      <4> QED
        BY <2>1, <2>3, <4>4 DEF Parsed
    <3> QED
      BY <2>1, <2>3, <3>1 DEF Verdict, Valid, CanBeCopied, NoRange
  <2> QED
    BY <2>2, <2>3 DEF HonestIsPassed
<1> QED
  BY <1>1, DecidedInvariant, PTL
-----------------------------------------------------------------------------
(* Sessions and streams.  Their invariant: the types of the records, what  *)
(* is counted, what a request has at each place, and what its session      *)
(* knows of it.                                                            *)

Places == {"new", "expiring", "returned"} \cup Served
Stages == [pc : Places, of : Sessions \cup {None}, cancelled : BOOLEAN, deadline : BOOLEAN,
           interrupted : BOOLEAN, interruptDone : BOOLEAN, finished : BOOLEAN,
           body : {None, "open", "attached", "closed"}]
Books  == [made : BOOLEAN, mapped : BOOLEAN, expired : BOOLEAN, revoked : BOOLEAN,
           transfers : SUBSET Requests, toInterrupt : SUBSET Requests,
           breaking : Requests \cup {None}, wg : Nat, streams : 0..MaxStreamsPerSession,
           cleared : BOOLEAN]
Calls  == [at : {"idle", "remove", "revoke", "join", "returned"}, of : Sessions \cup {None}]
Houses == [closed : BOOLEAN, listening : BOOLEAN, serving : BOOLEAN,
           shutdown : {"no", "revoking", "waiting", "returned"},
           toRevoke : SUBSET Sessions, joins : Sessions \cup {None},
           wg : Nat, streams : 0..MaxConcurrentStreams]

RecordsOK ==
  server \in Houses /\ session \in [Sessions -> Books]
  /\ caller \in [Callers -> Calls] /\ request \in [Requests -> Stages]

\* Who is counted where.
Slotted   == Served \ {"acquired", "detached"}
Streaming == Served \ {"acquired", "reserved", "detached"}
AllServed     == {r \in Requests : request[r].pc \in Served}
AllSlotted    == {r \in Requests : request[r].pc \in Slotted}
StreamsOf(s)  == {r \in Requests : Of(r) = s /\ request[r].pc \in Streaming}

Counts ==
  /\ IsFiniteSet(AllServed)
  /\ server.wg = Cardinality(AllServed) + (IF server.serving THEN 1 ELSE 0)
  /\ server.streams = Cardinality(AllSlotted)
  /\ \A s \in Sessions : /\ session[s].wg = Cardinality(Serves(s))
                         /\ session[s].streams = Cardinality(StreamsOf(s))

\* Where a transfer is attached, from attach to the end of finish.
Live == {"attached", "opening", "opened", "reading", "writing", "finishing", "closing"}

\* What a request has, where it is.
Sound(q) ==
  /\ q.pc = "new" => q.of = None
  /\ q.pc \in Served \cup {"expiring"} => q.of \in Sessions
  /\ q.pc \in Places \ (Live \cup {"finished", "detached", "returned"}) => q.body = None
  /\ q.pc \in {"attached", "opening"} => q.body = None
  /\ q.pc = "opened" => q.body = "open"
  /\ q.pc \in {"reading", "writing"} => q.body \in {"attached", "closed"}
  /\ q.pc \in {"finishing", "closing"} => q.body # "open"
  /\ q.pc \in {"finished", "detached", "returned"} => q.body \in {None, "closed"}
  /\ q.deadline => q.pc \in Live
  /\ q.finished => q.pc \in {"closing", "finished", "detached", "returned"}
  /\ q.pc = "closing" => q.finished
  /\ q.interruptDone => q.interrupted

\* Its session's source is there, and it calls Session.Close only while it is expiring.
Placed(r) ==
  /\ request[r].pc \in Served => ~session[Of(r)].cleared
  /\ caller[r].at \in {"remove", "revoke", "join"} => request[r].pc = "expiring"

\* What a session knows of its transfers: the one whose interrupt is under way is not past
\* finish, those in the map are not detached, and after revoke none is forgotten.
Breaks(s, r) ==
  Of(r) = s /\ request[r].pc \in Live /\ request[r].interrupted /\ ~request[r].interruptDone
Holds(s, r) ==
  Of(r) = s /\ (request[r].pc \in Live \/ (request[r].pc = "finished" /\ request[r].finished))
Owes(s, r) ==
  Of(r) = s /\ (request[r].pc \in Live \/ request[r].finished)
Knows(s) ==
  /\ \A r \in Requests : session[s].breaking = r => Breaks(s, r)
  /\ \A r \in session[s].transfers : Holds(s, r)
  /\ \A r \in session[s].toInterrupt : Owes(s, r)
  /\ session[s].revoked => \A r \in session[s].transfers :
       r \in session[s].toInterrupt \/ request[r].interrupted \/ request[r].finished
  /\ session[s].cleared => /\ session[s].revoked /\ session[s].breaking = None
                           /\ session[s].transfers = {} /\ session[s].toInterrupt = {}

ProxyInv ==
  /\ RecordsOK /\ Counts
  /\ \A r \in Requests : Sound(request[r]) /\ Placed(r)
  /\ \A s \in Sessions : Knows(s)
  /\ \A c \in Callers : caller[c].at # "idle" => caller[c].of \in Sessions

\* How one record of a function changes.
LEMMA RequestBecomes ==
  ASSUME request \in [Requests -> Stages], NEW r \in Requests, NEW e \in Stages,
         request' = [request EXCEPT ![r] = e]
  PROVE  /\ request' \in [Requests -> Stages] /\ request'[r] = e
         /\ \A q \in Requests : q # r => request'[q] = request[q]
OBVIOUS

LEMMA SessionBecomes ==
  ASSUME session \in [Sessions -> Books], NEW s \in Sessions, NEW e \in Books,
         session' = [session EXCEPT ![s] = e]
  PROVE  /\ session' \in [Sessions -> Books] /\ session'[s] = e
         /\ \A t \in Sessions : t # s => session'[t] = session[t]
OBVIOUS

LEMMA CallerBecomes ==
  ASSUME caller \in [Callers -> Calls], NEW c \in Callers, NEW e \in Calls,
         caller' = [caller EXCEPT ![c] = e]
  PROVE  /\ caller' \in [Callers -> Calls] /\ caller'[c] = e
         /\ \A d \in Callers : d # c => caller'[d] = caller[d]
OBVIOUS

\* A count, and the member that comes or goes.
LEMMA OneMore ==
  ASSUME NEW S, IsFiniteSet(S), NEW x, x \notin S
  PROVE  /\ IsFiniteSet(S \cup {x}) /\ Cardinality(S) \in Nat
         /\ Cardinality(S \cup {x}) = Cardinality(S) + 1
BY FS_AddElement, FS_CardinalityType

LEMMA OneLess ==
  ASSUME NEW S, IsFiniteSet(S), NEW x \in S
  PROVE  /\ IsFiniteSet(S \ {x}) /\ Cardinality(S) \in Nat \ {0}
         /\ Cardinality(S \ {x}) = Cardinality(S) - 1
<1>1. Cardinality(S) \in Nat /\ Cardinality(S) # 0
  BY FS_CardinalityType, FS_EmptySet
<1> QED
  BY <1>1, FS_RemoveElement

\* All that is counted is finite.
LEMMA CountsAreFinite ==
  ASSUME Counts
  PROVE  /\ IsFiniteSet(AllSlotted)
         /\ \A s \in Sessions : IsFiniteSet(Serves(s)) /\ IsFiniteSet(StreamsOf(s))
<1>1. AllSlotted \subseteq AllServed
  BY DEF AllSlotted, AllServed, Slotted
<1>2. \A s \in Sessions : Serves(s) \subseteq AllServed /\ StreamsOf(s) \subseteq AllServed
  BY DEF Serves, StreamsOf, AllServed, Streaming
<1> QED
  BY <1>1, <1>2, FS_Subset DEF Counts

\* The counts stay while nobody comes to a place where another count holds.
LEMMA CountsStay ==
  ASSUME Counts,
         \A q \in Requests : /\ request'[q].pc \in Served <=> request[q].pc \in Served
                             /\ request'[q].pc \in Slotted <=> request[q].pc \in Slotted
                             /\ request'[q].pc \in Streaming <=> request[q].pc \in Streaming
                             /\ request[q].pc \in Served => request'[q].of = request[q].of,
         server'.wg = server.wg, server'.serving = server.serving, server'.streams = server.streams,
         \A s \in Sessions : session'[s].wg = session[s].wg /\ session'[s].streams = session[s].streams
  PROVE  Counts'
<1>1. AllServed' = AllServed /\ AllSlotted' = AllSlotted
  BY DEF AllServed, AllSlotted
<1>2. ASSUME NEW s \in Sessions PROVE Serves(s)' = Serves(s) /\ StreamsOf(s)' = StreamsOf(s)
  BY DEF Serves, StreamsOf, Streaming, Of
<1> QED
  BY <1>1, <1>2 DEF Counts

\* A request goes on: what its session knows of it stays true, unless its interrupt ends or
\* it is detached.
Follows(q, e) ==
  /\ e.of = q.of
  /\ q.interrupted => e.interrupted
  /\ q.finished => e.finished
  /\ q.pc \in Live => e.pc \in Live \/ (e.pc = "finished" /\ e.finished)
  /\ q.pc = "finished" /\ q.finished => e.pc = "finished"
  /\ q.pc \in Live /\ q.interrupted /\ ~q.interruptDone => e.pc \in Live /\ ~e.interruptDone

\* Or it is detached.
Leaves(s, r, q, e) ==
  /\ r \notin session'[s].transfers /\ session[s].breaking # r
  /\ e.of = q.of /\ q.pc \notin Live /\ (q.finished => e.finished)

LEMMA KnowsStays ==
  ASSUME RecordsOK, NEW s \in Sessions, Knows(s),
         session'[s].breaking = session[s].breaking,
         session'[s].transfers \subseteq session[s].transfers,
         session'[s].toInterrupt = session[s].toInterrupt,
         session'[s].revoked = session[s].revoked, session'[s].cleared = session[s].cleared,
         \A q \in Requests : request[q].of = s =>
           Follows(request[q], request'[q]) \/ Leaves(s, q, request[q], request'[q])
  PROVE  Knows(s)'
<1>0. session[s].transfers \subseteq Requests /\ session[s].toInterrupt \subseteq Requests
  BY DEF RecordsOK, Books
<1>1. \A q \in Requests : session[s].breaking = q => Breaks(s, q)'
  <2> SUFFICES ASSUME NEW q \in Requests, session[s].breaking = q PROVE Breaks(s, q)'
    OBVIOUS
  <2>1. Breaks(s, q)
    BY DEF Knows
  <2> QED
    BY <2>1 DEF Breaks, Follows, Leaves, Of
<1>2. \A q \in session'[s].transfers : Holds(s, q)'
  <2> SUFFICES ASSUME NEW q \in session'[s].transfers PROVE Holds(s, q)'
    OBVIOUS
  <2>1. Holds(s, q) /\ q \in Requests
    BY <1>0 DEF Knows
  <2> QED
    BY <2>1 DEF Holds, Follows, Leaves, Of
<1>3. \A q \in session[s].toInterrupt : Owes(s, q)'
  <2> SUFFICES ASSUME NEW q \in session[s].toInterrupt PROVE Owes(s, q)'
    OBVIOUS
  <2>1. Owes(s, q) /\ q \in Requests
    BY <1>0 DEF Knows
  <2> QED
    BY <2>1 DEF Owes, Follows, Leaves, Of
<1>4. session[s].revoked => \A q \in session'[s].transfers :
        q \in session[s].toInterrupt \/ request'[q].interrupted \/ request'[q].finished
  <2> SUFFICES ASSUME session[s].revoked, NEW q \in session'[s].transfers
               PROVE  q \in session[s].toInterrupt \/ request'[q].interrupted \/ request'[q].finished
    OBVIOUS
  <2>1. /\ q \in Requests /\ Holds(s, q)
        /\ q \in session[s].toInterrupt \/ request[q].interrupted \/ request[q].finished
    BY <1>0 DEF Knows
  <2> QED
    BY <2>1 DEF Holds, Follows, Leaves, Of
<1> QED
  <2>1. session[s].cleared => session'[s].transfers = {}
    BY DEF Knows
  <2> QED
    BY <1>1, <1>2, <1>3, <1>4, <2>1 DEF Knows

\* What a step of one request changes, but for the counts and what the sessions know.
LEMMA OneRequestMoves ==
  ASSUME ProxyInv, NEW r \in Requests, NEW e \in Stages, request' = [request EXCEPT ![r] = e],
         Sound(e), e.of = request[r].of, e.pc \in Served => request[r].pc \in Served,
         request[r].pc # "expiring", UNCHANGED caller,
         server' \in Houses, session' \in [Sessions -> Books],
         \A s \in Sessions : session'[s].cleared = session[s].cleared
  PROVE  /\ RecordsOK' /\ \A q \in Requests : Sound(request'[q]) /\ Placed(q)'
         /\ \A c \in Callers : caller'[c].at # "idle" => caller'[c].of \in Sessions
         /\ request'[r] = e /\ \A q \in Requests : q # r => request'[q] = request[q]
<1>1. /\ request' \in [Requests -> Stages] /\ request'[r] = e
      /\ \A q \in Requests : q # r => request'[q] = request[q]
  BY RequestBecomes DEF ProxyInv, RecordsOK
<1>2. RecordsOK'
  BY <1>1 DEF ProxyInv, RecordsOK
<1>3. ASSUME NEW q \in Requests PROVE Sound(request'[q])
  BY <1>1 DEF ProxyInv
<1>4. ASSUME NEW q \in Requests PROVE Placed(q)'
  <2>1. Placed(q) /\ Sound(request[q])
    BY DEF ProxyInv
  <2>2. request[q].pc \in Served => request[q].of \in Sessions
    BY <2>1 DEF Sound
  <2>3. request'[q].of = request[q].of /\ (request'[q].pc \in Served => request[q].pc \in Served)
        /\ (request[q].pc = "expiring" => request'[q].pc = "expiring")
    BY <1>1
  <2> QED
    BY <2>1, <2>2, <2>3 DEF Placed, Of
<1> QED
  BY <1>1, <1>2, <1>3, <1>4 DEF ProxyInv

\* A step of a request that no count and no session is touched by.
LEMMA QuietStep ==
  ASSUME ProxyInv, UNCHANGED <<server, session, caller>>,
         NEW r \in Requests, NEW e \in Stages, request' = [request EXCEPT ![r] = e],
         Sound(e), Follows(request[r], e), request[r].pc # "expiring",
         e.pc \in Served <=> request[r].pc \in Served,
         e.pc \in Slotted <=> request[r].pc \in Slotted,
         e.pc \in Streaming <=> request[r].pc \in Streaming
  PROVE  ProxyInv'
<1>0. /\ RecordsOK /\ Counts /\ (\A s \in Sessions : Knows(s)) /\ e.of = request[r].of
      /\ server' \in Houses /\ session' \in [Sessions -> Books]
  BY DEF ProxyInv, RecordsOK, Follows
<1>1. /\ RecordsOK' /\ \A q \in Requests : Sound(request'[q]) /\ Placed(q)'
      /\ \A c \in Callers : caller'[c].at # "idle" => caller'[c].of \in Sessions
      /\ request'[r] = e /\ \A q \in Requests : q # r => request'[q] = request[q]
  BY <1>0, OneRequestMoves
<1>2. Counts'
  <2>1. \A q \in Requests : /\ request'[q].pc \in Served <=> request[q].pc \in Served
                            /\ request'[q].pc \in Slotted <=> request[q].pc \in Slotted
                            /\ request'[q].pc \in Streaming <=> request[q].pc \in Streaming
                            /\ request[q].pc \in Served => request'[q].of = request[q].of
    BY <1>0, <1>1
  <2> QED
    BY <1>0, <2>1, CountsStay
<1>3. ASSUME NEW s \in Sessions PROVE Knows(s)'
  <2>1. \A q \in Requests : Follows(request[q], request'[q])
    BY <1>1 DEF Follows
  <2> QED
    BY <1>0, <2>1, KnowsStays
<1> QED
  BY <1>1, <1>2, <1>3 DEF ProxyInv

LEMMA GotoIs ==
  ASSUME RecordsOK, NEW r \in Requests, NEW from, NEW to \in Places, Goto(r, from, to)
  PROVE  /\ request[r] \in Stages /\ request[r].pc = from
         /\ \E e \in Stages :
              /\ request' = [request EXCEPT ![r] = e] /\ e.pc = to
              /\ e.of = request[r].of /\ e.body = request[r].body /\ e.deadline = request[r].deadline
              /\ e.finished = request[r].finished /\ e.interrupted = request[r].interrupted
              /\ e.interruptDone = request[r].interruptDone
<1> DEFINE e == [request[r] EXCEPT !.pc = to]
<1>1. request[r] \in Stages /\ request[r].pc = from
  BY DEF RecordsOK, Goto
<1>2. e \in Stages
  BY <1>1 DEF Stages
<1>3. /\ e.pc = to /\ e.of = request[r].of /\ e.body = request[r].body /\ e.deadline = request[r].deadline
      /\ e.finished = request[r].finished /\ e.interrupted = request[r].interrupted
      /\ e.interruptDone = request[r].interruptDone
  BY <1>1 DEF Stages
<1>4. request' = [request EXCEPT ![r] = e]
  BY DEF Goto
<1> HIDE DEF e
<1> QED
  BY <1>1, <1>2, <1>3, <1>4

LEMMA QuietGoto ==
  ASSUME ProxyInv, UNCHANGED <<server, session, caller>>,
         NEW r \in Requests, NEW from, NEW to, Goto(r, from, to),
         \/ from = "new" /\ to = "returned"
         \/ from = "acquired" /\ to = "detached"
         \/ from = "admitted" /\ to = "finished"
         \/ from = "attached" /\ to = "opening"
         \/ from = "opening" /\ to = "finishing"
         \/ from \in {"reading", "writing"} /\ to \in {"reading", "writing", "finishing"}
  PROVE  ProxyInv'
<1>1. to \in Places /\ Sound(request[r]) /\ RecordsOK
  BY DEF ProxyInv, Places, Served
<1>2. PICK e \in Stages :
        /\ request' = [request EXCEPT ![r] = e] /\ e.pc = to
        /\ e.of = request[r].of /\ e.body = request[r].body /\ e.deadline = request[r].deadline
        /\ e.finished = request[r].finished /\ e.interrupted = request[r].interrupted
        /\ e.interruptDone = request[r].interruptDone
  BY <1>1, GotoIs
<1>3. request[r].pc = from
  BY <1>1, GotoIs
<1>4. Sound(e)
  BY <1>1, <1>2, <1>3 DEF Sound, Places, Served, Live, None
<1>5. Follows(request[r], e)
  BY <1>1, <1>2, <1>3 DEF Sound, Follows, Live
<1>6. /\ from # "expiring" /\ (to \in Served <=> from \in Served)
      /\ to \in Slotted <=> from \in Slotted
      /\ to \in Streaming <=> from \in Streaming
  BY DEF Served, Slotted, Streaming
<1> QED
  BY <1>2, <1>3, <1>4, <1>5, <1>6, QuietStep

LEMMA OpenReturnsStep ==
  ASSUME ProxyInv, NEW r \in Requests, OpenReturns(r) PROVE ProxyInv'
<1> DEFINE e == [request[r] EXCEPT !.pc = "opened", !.body = "open"]
<1>1. request[r] \in Stages /\ Sound(request[r]) /\ request[r].pc = "opening"
  BY DEF ProxyInv, RecordsOK, OpenReturns
<1>2. e \in Stages
  BY <1>1 DEF Stages, Places, Served
<1>3. /\ e.pc = "opened" /\ e.of = request[r].of /\ e.body = "open" /\ e.deadline = request[r].deadline
      /\ e.finished = request[r].finished /\ e.interrupted = request[r].interrupted
      /\ e.interruptDone = request[r].interruptDone
  BY <1>1 DEF Stages
<1>4. request' = [request EXCEPT ![r] = e] /\ UNCHANGED <<server, session, caller>>
  BY DEF OpenReturns
<1> HIDE DEF e
<1>5. Sound(e)
  BY <1>1, <1>3 DEF Sound, Places, Served, Live
<1>6. Follows(request[r], e)
  BY <1>1, <1>3 DEF Follows, Live
<1> QED
  BY <1>1, <1>2, <1>3, <1>4, <1>5, <1>6, QuietStep DEF Served, Slotted, Streaming

LEMMA AttachBodyStep ==
  ASSUME ProxyInv, NEW r \in Requests, AttachBody(r) PROVE ProxyInv'
<1> DEFINE e == IF request[r].interrupted
                THEN [request[r] EXCEPT !.pc = "finishing", !.body = "closed"]
                ELSE [request[r] EXCEPT !.pc = "reading", !.body = "attached"]
<1>1. request[r] \in Stages /\ Sound(request[r]) /\ request[r].pc = "opened"
  BY DEF ProxyInv, RecordsOK, AttachBody
<1>2. e \in Stages
  BY <1>1 DEF Stages, Places, Served
<1>3. /\ \/ e.pc = "finishing" /\ e.body = "closed"
         \/ e.pc = "reading" /\ e.body = "attached"
      /\ e.of = request[r].of /\ e.deadline = request[r].deadline
      /\ e.finished = request[r].finished /\ e.interrupted = request[r].interrupted
      /\ e.interruptDone = request[r].interruptDone
  BY <1>1 DEF Stages
<1>4. request' = [request EXCEPT ![r] = e] /\ UNCHANGED <<server, session, caller>>
  BY DEF AttachBody, RejectedBody
<1> HIDE DEF e
<1>5. Sound(e)
  BY <1>1, <1>3 DEF Sound, Places, Served, Live
<1>6. Follows(request[r], e)
  BY <1>1, <1>3 DEF Follows, Live
<1> QED
  BY <1>1, <1>2, <1>3, <1>4, <1>5, <1>6, QuietStep DEF Served, Slotted, Streaming

LEMMA FinishStep ==
  ASSUME ProxyInv, NEW r \in Requests, Finish(r) PROVE ProxyInv'
<1> DEFINE e == [request[r] EXCEPT !.pc = "closing", !.finished = TRUE]
<1>1. request[r] \in Stages /\ Sound(request[r]) /\ request[r].pc = "finishing"
  BY DEF ProxyInv, RecordsOK, Finish
<1>2. e \in Stages
  BY <1>1 DEF Stages, Places, Served
<1>3. /\ e.pc = "closing" /\ e.of = request[r].of /\ e.body = request[r].body
      /\ e.deadline = request[r].deadline /\ e.finished /\ e.interrupted = request[r].interrupted
      /\ e.interruptDone = request[r].interruptDone
  BY <1>1 DEF Stages
<1>4. request' = [request EXCEPT ![r] = e] /\ UNCHANGED <<server, session, caller>>
  BY DEF Finish
<1> HIDE DEF e
<1>5. Sound(e)
  BY <1>1, <1>3 DEF Sound, Places, Served, Live
<1>6. Follows(request[r], e)
  BY <1>1, <1>3 DEF Follows, Live
<1> QED
  BY <1>1, <1>2, <1>3, <1>4, <1>5, <1>6, QuietStep DEF Served, Slotted, Streaming

\* It is left to the interrupt that is under way: finish waits for it.
LEMMA CloseBodyStep ==
  ASSUME ProxyInv, NEW r \in Requests, CloseBody(r) PROVE ProxyInv'
<1> DEFINE e == [request[r] EXCEPT !.pc = "finished", !.cancelled = TRUE,
                                   !.body = ClosedBody(r), !.deadline = FALSE]
<1>1. /\ request[r] \in Stages /\ Sound(request[r]) /\ request[r].pc = "closing"
      /\ request[r].interrupted => request[r].interruptDone
  BY DEF ProxyInv, RecordsOK, CloseBody, Finishable
<1>2. /\ ClosedBody(r) \in {None, "open", "attached", "closed"}
      /\ request[r].body # "open" => ClosedBody(r) \in {None, "closed"}
  BY <1>1 DEF Stages, ClosedBody
<1>3. e \in Stages
  BY <1>1, <1>2 DEF Stages, Places, Served
<1>4. /\ e.pc = "finished" /\ e.of = request[r].of /\ e.body = ClosedBody(r)
      /\ ~e.deadline /\ e.finished = request[r].finished /\ e.interrupted = request[r].interrupted
      /\ e.interruptDone = request[r].interruptDone
  BY <1>1 DEF Stages
<1>5. request' = [request EXCEPT ![r] = e] /\ UNCHANGED <<server, session, caller>>
  BY DEF CloseBody
<1> HIDE DEF e
<1>6. Sound(e)
  BY <1>1, <1>2, <1>4 DEF Sound, Places, Served, Live
<1>7. Follows(request[r], e)
  BY <1>1, <1>4 DEF Sound, Follows, Live
<1> QED
  BY <1>1, <1>3, <1>4, <1>5, <1>6, <1>7, QuietStep DEF Served, Slotted, Streaming

\* Of a set that at most one member comes to or goes from.
Turns(S, T, x, in) ==
  /\ x \in S /\ ~in => T = S \ {x}
  /\ x \notin S /\ in => T = S \cup {x}
  /\ (x \in S <=> in) => T = S

LEMMA OneTurns ==
  ASSUME NEW S, NEW T, NEW x, NEW in \in BOOLEAN, T = IF in THEN S \cup {x} ELSE S \ {x}
  PROVE  Turns(S, T, x, in)
<1>1. (x \in S => S \cup {x} = S) /\ (x \notin S => S \ {x} = S)
  OBVIOUS
<1> QED
  BY <1>1 DEF Turns

\* What is counted, after a step of one request.
LEMMA SetsChange ==
  ASSUME NEW r \in Requests, \A q \in Requests : q # r => request'[q] = request[q]
  PROVE  /\ Turns(AllServed, AllServed', r, request'[r].pc \in Served)
         /\ Turns(AllSlotted, AllSlotted', r, request'[r].pc \in Slotted)
         /\ \A s \in Sessions :
              /\ Turns(Serves(s), Serves(s)', r, request'[r].of = s /\ request'[r].pc \in Served)
              /\ Turns(StreamsOf(s), StreamsOf(s)', r, request'[r].of = s /\ request'[r].pc \in Streaming)
<1>1. AllServed' = IF request'[r].pc \in Served THEN AllServed \cup {r} ELSE AllServed \ {r}
  BY DEF AllServed
<1>2. AllSlotted' = IF request'[r].pc \in Slotted THEN AllSlotted \cup {r} ELSE AllSlotted \ {r}
  BY DEF AllSlotted
<1>3. ASSUME NEW s \in Sessions
      PROVE  /\ Turns(Serves(s), Serves(s)', r, request'[r].of = s /\ request'[r].pc \in Served)
             /\ Turns(StreamsOf(s), StreamsOf(s)', r, request'[r].of = s /\ request'[r].pc \in Streaming)
  <2>1. Serves(s)' = IF request'[r].of = s /\ request'[r].pc \in Served
                     THEN Serves(s) \cup {r} ELSE Serves(s) \ {r}
    BY DEF Serves, Of
  <2>2. StreamsOf(s)' = IF request'[r].of = s /\ request'[r].pc \in Streaming
                        THEN StreamsOf(s) \cup {r} ELSE StreamsOf(s) \ {r}
    BY DEF StreamsOf, Of
  <2>3. (request'[r].of = s /\ request'[r].pc \in Served) \in BOOLEAN
        /\ (request'[r].of = s /\ request'[r].pc \in Streaming) \in BOOLEAN
    OBVIOUS
  <2> QED
    BY <2>1, <2>2, <2>3, OneTurns
<1>4. (request'[r].pc \in Served) \in BOOLEAN /\ (request'[r].pc \in Slotted) \in BOOLEAN
  OBVIOUS
<1> QED
  BY <1>1, <1>2, <1>3, <1>4, OneTurns

\* A request whose step changes counts alone, and what of the invariant that leaves.
LEMMA CountingStep ==
  ASSUME ProxyInv, UNCHANGED caller, NEW r \in Requests, NEW e \in Stages,
         request' = [request EXCEPT ![r] = e],
         Sound(e), e.of = request[r].of, request[r].pc \in Served,
         \A s \in Sessions : request[r].of = s =>
           Follows(request[r], e) \/ Leaves(s, r, request[r], e),
         server' \in Houses, session' \in [Sessions -> Books],
         \A s \in Sessions :
           /\ session'[s].breaking = session[s].breaking
           /\ session'[s].transfers \subseteq session[s].transfers
           /\ session'[s].toInterrupt = session[s].toInterrupt
           /\ session'[s].revoked = session[s].revoked /\ session'[s].cleared = session[s].cleared
  PROVE  /\ Counts' => ProxyInv'
         /\ request'[r] = e /\ \A q \in Requests : q # r => request'[q] = request[q]
<1>0. /\ RecordsOK /\ Counts /\ (\A s \in Sessions : Knows(s)) /\ e.of = request[r].of
      /\ request[r].pc # "expiring"
  BY DEF ProxyInv, Served
<1>1. /\ RecordsOK' /\ \A q \in Requests : Sound(request'[q]) /\ Placed(q)'
      /\ \A c \in Callers : caller'[c].at # "idle" => caller'[c].of \in Sessions
      /\ request'[r] = e /\ \A q \in Requests : q # r => request'[q] = request[q]
  BY <1>0, OneRequestMoves
<1>2. ASSUME NEW s \in Sessions PROVE Knows(s)'
  <2>1. \A q \in Requests : request[q].of = s =>
          Follows(request[q], request'[q]) \/ Leaves(s, q, request[q], request'[q])
    BY <1>1 DEF Follows
  <2> QED
    BY <1>0, <2>1, KnowsStays
<1> QED
  BY <1>1, <1>2 DEF ProxyInv

LEMMA CountingGoto ==
  ASSUME ProxyInv, UNCHANGED caller, NEW r \in Requests, NEW from, NEW to, Goto(r, from, to),
         \/ from = "acquired" /\ to = "reserved"
         \/ from = "reserved" /\ to \in {"admitted", "detached"}
         \/ from = "detached" /\ to = "returned",
         server' \in Houses, session' \in [Sessions -> Books],
         \A s \in Sessions :
           /\ session'[s].breaking = session[s].breaking /\ session'[s].transfers = session[s].transfers
           /\ session'[s].toInterrupt = session[s].toInterrupt
           /\ session'[s].revoked = session[s].revoked /\ session'[s].cleared = session[s].cleared
  PROVE  /\ Counts' => ProxyInv'
         /\ request[r].pc = from /\ request'[r].pc = to /\ request'[r].of = request[r].of
         /\ request[r].of \in Sessions /\ \A q \in Requests : q # r => request'[q] = request[q]
<1>1. RecordsOK /\ Sound(request[r]) /\ to \in Places /\ from \in Served
  BY DEF ProxyInv, Places, Served
<1>2. PICK e \in Stages :
        /\ request' = [request EXCEPT ![r] = e] /\ e.pc = to
        /\ e.of = request[r].of /\ e.body = request[r].body /\ e.deadline = request[r].deadline
        /\ e.finished = request[r].finished /\ e.interrupted = request[r].interrupted
        /\ e.interruptDone = request[r].interruptDone
  BY <1>1, GotoIs
<1>3. request[r].pc = from
  BY <1>1, GotoIs
<1>4. Sound(e)
  BY <1>1, <1>2, <1>3 DEF Sound, Places, Served, Live
<1>5. Follows(request[r], e)
  BY <1>1, <1>2, <1>3 DEF Sound, Follows, Live
<1>6. /\ Counts' => ProxyInv'
      /\ request'[r] = e /\ \A q \in Requests : q # r => request'[q] = request[q]
  BY <1>1, <1>2, <1>3, <1>4, <1>5, CountingStep
<1>7. request[r].of \in Sessions
  BY <1>1, <1>3 DEF Sound
<1> QED
  BY <1>2, <1>3, <1>6, <1>7

LEMMA SessionsBooks ==
  ASSUME RecordsOK, NEW s \in Sessions, NEW e \in Books, session' = [session EXCEPT ![s] = e],
         e.breaking = session[s].breaking, e.transfers = session[s].transfers,
         e.toInterrupt = session[s].toInterrupt,
         e.revoked = session[s].revoked, e.cleared = session[s].cleared
  PROVE  /\ session' \in [Sessions -> Books] /\ session'[s] = e
         /\ \A t \in Sessions : t # s => session'[t] = session[t]
         /\ \A t \in Sessions :
              /\ session'[t].breaking = session[t].breaking /\ session'[t].transfers = session[t].transfers
              /\ session'[t].toInterrupt = session[t].toInterrupt
              /\ session'[t].revoked = session[t].revoked /\ session'[t].cleared = session[t].cleared
<1>1. /\ session' \in [Sessions -> Books] /\ session'[s] = e
      /\ \A t \in Sessions : t # s => session'[t] = session[t]
  BY SessionBecomes DEF RecordsOK
<1> QED
  BY <1>1

LEMMA ReserveStep ==
  ASSUME ProxyInv, NEW r \in Requests, Reserve(r) PROVE ProxyInv'
<1>1. /\ RecordsOK /\ Counts /\ Goto(r, "acquired", "reserved")
      /\ UNCHANGED <<session, caller>> /\ session \in [Sessions -> Books]
  BY DEF ProxyInv, RecordsOK, Reserve
<1>2. /\ server' \in Houses /\ server'.wg = server.wg /\ server'.serving = server.serving
      /\ server'.streams = server.streams + 1
  <2>1. server \in Houses /\ server.streams \in 0..MaxConcurrentStreams
        /\ server.streams < MaxConcurrentStreams /\ server' = [server EXCEPT !.streams = @ + 1]
    BY <1>1 DEF RecordsOK, Houses, Reserve
  <2>2. server.streams + 1 \in 0..MaxConcurrentStreams
    BY <2>1, ProxyAssumption
  <2> QED
    BY <2>1, <2>2 DEF Houses
<1>3. /\ Counts' => ProxyInv'
      /\ request[r].pc = "acquired" /\ request'[r].pc = "reserved" /\ request'[r].of = request[r].of
      /\ \A q \in Requests : q # r => request'[q] = request[q]
  BY <1>1, <1>2, CountingGoto
<1>4. /\ r \in AllServed /\ r \notin AllSlotted /\ \A s \in Sessions : r \notin StreamsOf(s)
      /\ \A s \in Sessions : r \in Serves(s) <=> request[r].of = s
      /\ "reserved" \in Served /\ "reserved" \in Slotted /\ "reserved" \notin Streaming
  BY <1>3 DEF AllServed, AllSlotted, StreamsOf, Serves, Of, Served, Slotted, Streaming
<1>5. /\ AllServed' = AllServed /\ AllSlotted' = AllSlotted \cup {r}
      /\ \A s \in Sessions : Serves(s)' = Serves(s) /\ StreamsOf(s)' = StreamsOf(s)
  <2>1. AllServed' = AllServed /\ AllSlotted' = AllSlotted \cup {r}
    BY <1>3, <1>4, SetsChange DEF Turns
  <2>2. ASSUME NEW s \in Sessions PROVE Serves(s)' = Serves(s) /\ StreamsOf(s)' = StreamsOf(s)
    BY <1>3, <1>4, SetsChange DEF Turns
  <2> QED
    BY <2>1, <2>2
<1>6. Counts'
  BY <1>1, <1>2, <1>4, <1>5, CountsAreFinite, OneMore DEF Counts
<1> QED
  BY <1>3, <1>6

LEMMA AdmitStep ==
  ASSUME ProxyInv, NEW r \in Requests, Admit(r) PROVE ProxyInv'
<1> DEFINE s == request[r].of
           e == [session[s] EXCEPT !.streams = @ + 1]
<1>1. /\ RecordsOK /\ Counts /\ Sound(request[r]) /\ Goto(r, "reserved", "admitted")
      /\ UNCHANGED <<server, caller>> /\ server \in Houses
  BY DEF ProxyInv, RecordsOK, Admit
<1>2. s \in Sessions /\ session[s] \in Books /\ session[s].streams < MaxStreamsPerSession
      /\ session' = [session EXCEPT ![s] = e]
  <2>1. request[r].pc = "reserved" /\ session[Of(r)].streams < MaxStreamsPerSession
        /\ session' = [session EXCEPT ![Of(r)].streams = @ + 1]
    BY DEF Admit, Goto, SlotFree
  <2>2. s \in Sessions
    BY <1>1, <2>1 DEF Sound, Served
  <2> QED
    BY <1>1, <2>1, <2>2 DEF RecordsOK, Of
<1>3. /\ e \in Books /\ e.streams = session[s].streams + 1 /\ e.wg = session[s].wg
      /\ e.breaking = session[s].breaking /\ e.transfers = session[s].transfers
      /\ e.toInterrupt = session[s].toInterrupt
      /\ e.revoked = session[s].revoked /\ e.cleared = session[s].cleared
  <2>1. session[s].streams + 1 \in 0..MaxStreamsPerSession
    BY <1>2, ProxyAssumption DEF Books
  <2> QED
    BY <1>2, <2>1 DEF Books
<1> HIDE DEF e
<1>4. /\ session' \in [Sessions -> Books] /\ session'[s] = e
      /\ \A t \in Sessions : t # s => session'[t] = session[t]
      /\ \A t \in Sessions :
           /\ session'[t].breaking = session[t].breaking /\ session'[t].transfers = session[t].transfers
           /\ session'[t].toInterrupt = session[t].toInterrupt
           /\ session'[t].revoked = session[t].revoked /\ session'[t].cleared = session[t].cleared
  BY <1>1, <1>2, <1>3, SessionsBooks
<1>5. /\ Counts' => ProxyInv'
      /\ request[r].pc = "reserved" /\ request'[r].pc = "admitted" /\ request'[r].of = s
      /\ \A q \in Requests : q # r => request'[q] = request[q]
  BY <1>1, <1>4, CountingGoto
<1>6. /\ r \in AllServed /\ r \in AllSlotted /\ \A t \in Sessions : r \notin StreamsOf(t)
      /\ \A t \in Sessions : r \in Serves(t) <=> t = s
      /\ "admitted" \in Served /\ "admitted" \in Slotted /\ "admitted" \in Streaming
  BY <1>5 DEF AllServed, AllSlotted, StreamsOf, Serves, Of, Served, Slotted, Streaming
<1>7. /\ AllServed' = AllServed /\ AllSlotted' = AllSlotted
      /\ \A t \in Sessions : /\ Serves(t)' = Serves(t)
                             /\ StreamsOf(t)' = IF t = s THEN StreamsOf(t) \cup {r} ELSE StreamsOf(t)
  <2>1. AllServed' = AllServed /\ AllSlotted' = AllSlotted
    BY <1>5, <1>6, SetsChange DEF Turns
  <2>2. ASSUME NEW t \in Sessions
        PROVE  /\ Serves(t)' = Serves(t)
               /\ StreamsOf(t)' = IF t = s THEN StreamsOf(t) \cup {r} ELSE StreamsOf(t)
    BY <1>5, <1>6, SetsChange DEF Turns
  <2> QED
    BY <2>1, <2>2
<1>8. Counts'
  <2>1. ASSUME NEW t \in Sessions PROVE session'[t].wg = Cardinality(Serves(t)') /\ session'[t].streams = Cardinality(StreamsOf(t)')
    <3>1. session[t].wg = Cardinality(Serves(t)) /\ session[t].streams = Cardinality(StreamsOf(t))
      BY <1>1 DEF Counts
    <3>2. CASE t = s
      <4>1. IsFiniteSet(StreamsOf(t)) /\ r \notin StreamsOf(t)
        BY <1>1, <1>6, CountsAreFinite
      <4>2. Cardinality(StreamsOf(t) \cup {r}) = Cardinality(StreamsOf(t)) + 1
        BY <4>1, OneMore
      <4> QED
        BY <1>3, <1>4, <1>7, <3>1, <3>2, <4>2
    <3>3. CASE t # s
      BY <1>4, <1>7, <3>1, <3>3
    <3> QED
      BY <3>2, <3>3
  <2> QED
    BY <1>1, <1>7, <2>1 DEF Counts
<1> QED
  BY <1>5, <1>8

\* A slot of the server's is given back by one who has one.
LEMMA GivenBack ==
  ASSUME RecordsOK, Counts, NEW r \in AllSlotted, server' = SlotGivenBack
  PROVE  /\ server' \in Houses /\ server'.wg = server.wg /\ server'.serving = server.serving
         /\ server'.streams = server.streams - 1
<1>1. server \in Houses /\ server.streams \in 0..MaxConcurrentStreams
      /\ server' = [server EXCEPT !.streams = @ - 1]
  BY DEF RecordsOK, Houses, SlotGivenBack
<1>2. server.streams \in Nat \ {0}
  BY CountsAreFinite, OneLess DEF Counts
<1>3. server.streams - 1 \in 0..MaxConcurrentStreams
  BY <1>1, <1>2, ProxyAssumption
<1> QED
  BY <1>1, <1>3 DEF Houses

LEMMA BusyStep ==
  ASSUME ProxyInv, NEW r \in Requests, Busy(r) PROVE ProxyInv'
<1>1. /\ RecordsOK /\ Counts /\ Goto(r, "reserved", "detached")
      /\ UNCHANGED <<session, caller>> /\ session \in [Sessions -> Books]
      /\ server' = SlotGivenBack /\ server \in Houses
  BY DEF ProxyInv, RecordsOK, Busy
<1>2. r \in AllSlotted /\ IsFiniteSet(AllSlotted)
  BY <1>1, CountsAreFinite DEF AllSlotted, Goto, Slotted, Served
<1>3. /\ server' \in Houses /\ server'.wg = server.wg /\ server'.serving = server.serving
      /\ server'.streams = server.streams - 1
  BY <1>1, <1>2, GivenBack
<1>4. /\ Counts' => ProxyInv'
      /\ request[r].pc = "reserved" /\ request'[r].pc = "detached" /\ request'[r].of = request[r].of
      /\ \A q \in Requests : q # r => request'[q] = request[q]
  BY <1>1, <1>3, CountingGoto
<1>5. /\ r \in AllServed /\ \A s \in Sessions : r \notin StreamsOf(s)
      /\ \A s \in Sessions : r \in Serves(s) <=> request[r].of = s
      /\ "detached" \in Served /\ "detached" \notin Slotted /\ "detached" \notin Streaming
  BY <1>4 DEF AllServed, StreamsOf, Serves, Of, Served, Slotted, Streaming
<1>6. /\ AllServed' = AllServed /\ AllSlotted' = AllSlotted \ {r}
      /\ \A s \in Sessions : Serves(s)' = Serves(s) /\ StreamsOf(s)' = StreamsOf(s)
  <2>1. AllServed' = AllServed /\ AllSlotted' = AllSlotted \ {r}
    BY <1>4, <1>5, SetsChange DEF Turns
  <2>2. ASSUME NEW s \in Sessions PROVE Serves(s)' = Serves(s) /\ StreamsOf(s)' = StreamsOf(s)
    BY <1>4, <1>5, SetsChange DEF Turns
  <2> QED
    BY <2>1, <2>2
<1>7. Counts'
  BY <1>1, <1>2, <1>3, <1>6, OneLess DEF Counts
<1> QED
  BY <1>4, <1>7

LEMMA ReturnStep ==
  ASSUME ProxyInv, NEW r \in Requests, Return(r) PROVE ProxyInv'
<1> DEFINE s == request[r].of
           e == [session[s] EXCEPT !.wg = @ - 1]
<1>1. /\ RecordsOK /\ Counts /\ Sound(request[r]) /\ Goto(r, "detached", "returned")
      /\ UNCHANGED caller /\ request[r].pc = "detached"
      /\ server \in Houses /\ server' = [server EXCEPT !.wg = @ - 1]
      /\ session' = [session EXCEPT ![s].wg = @ - 1]
  BY DEF ProxyInv, RecordsOK, Return, Goto, Of
<1>2. s \in Sessions /\ session[s] \in Books /\ session' = [session EXCEPT ![s] = e]
  BY <1>1 DEF Sound, Served, RecordsOK
<1>3. /\ r \in AllServed /\ r \in Serves(s) /\ \A t \in Sessions : t # s => r \notin Serves(t)
      /\ r \notin AllSlotted /\ \A t \in Sessions : r \notin StreamsOf(t)
      /\ "returned" \notin Served /\ "returned" \notin Slotted /\ "returned" \notin Streaming
  BY <1>1 DEF AllServed, Serves, AllSlotted, StreamsOf, Of, Served, Slotted, Streaming
<1>4. /\ IsFiniteSet(AllServed) /\ IsFiniteSet(Serves(s))
      /\ Cardinality(AllServed) \in Nat \ {0} /\ Cardinality(Serves(s)) \in Nat \ {0}
      /\ server.wg \in Nat \ {0} /\ session[s].wg \in Nat \ {0}
  <2>1. IsFiniteSet(AllServed) /\ IsFiniteSet(Serves(s))
    BY <1>1, <1>2, CountsAreFinite DEF Counts
  <2>2. Cardinality(AllServed) \in Nat \ {0} /\ Cardinality(Serves(s)) \in Nat \ {0}
    BY <1>3, <2>1, OneLess
  <2> QED
    BY <1>1, <1>2, <2>1, <2>2 DEF Counts
<1>5. /\ server' \in Houses /\ server'.wg = server.wg - 1 /\ server'.serving = server.serving
      /\ server'.streams = server.streams
  <2>1. server.wg - 1 \in Nat
    BY <1>4
  <2> QED
    BY <1>1, <2>1 DEF Houses
<1>6. /\ e \in Books /\ e.streams = session[s].streams /\ e.wg = session[s].wg - 1
      /\ e.breaking = session[s].breaking /\ e.transfers = session[s].transfers
      /\ e.toInterrupt = session[s].toInterrupt
      /\ e.revoked = session[s].revoked /\ e.cleared = session[s].cleared
  <2>1. session[s].wg - 1 \in Nat
    BY <1>4
  <2> QED
    BY <1>2, <2>1 DEF Books
<1> HIDE DEF e
<1>7. /\ session' \in [Sessions -> Books] /\ session'[s] = e
      /\ \A t \in Sessions : t # s => session'[t] = session[t]
      /\ \A t \in Sessions :
           /\ session'[t].breaking = session[t].breaking /\ session'[t].transfers = session[t].transfers
           /\ session'[t].toInterrupt = session[t].toInterrupt
           /\ session'[t].revoked = session[t].revoked /\ session'[t].cleared = session[t].cleared
  BY <1>1, <1>2, <1>6, SessionsBooks
<1>8. /\ Counts' => ProxyInv'
      /\ request'[r].pc = "returned" /\ request'[r].of = s
      /\ \A q \in Requests : q # r => request'[q] = request[q]
  BY <1>1, <1>5, <1>7, CountingGoto
<1>9. /\ AllServed' = AllServed \ {r} /\ AllSlotted' = AllSlotted
      /\ \A t \in Sessions : /\ Serves(t)' = IF t = s THEN Serves(t) \ {r} ELSE Serves(t)
                             /\ StreamsOf(t)' = StreamsOf(t)
  <2>1. AllServed' = AllServed \ {r} /\ AllSlotted' = AllSlotted
    BY <1>3, <1>8, SetsChange DEF Turns
  <2>2. ASSUME NEW t \in Sessions
        PROVE  /\ Serves(t)' = IF t = s THEN Serves(t) \ {r} ELSE Serves(t)
               /\ StreamsOf(t)' = StreamsOf(t)
    BY <1>3, <1>8, SetsChange DEF Turns
  <2> QED
    BY <2>1, <2>2
<1>10. Counts'
  <2>1. ASSUME NEW t \in Sessions
        PROVE  session'[t].wg = Cardinality(Serves(t)') /\ session'[t].streams = Cardinality(StreamsOf(t)')
    <3>1. session[t].wg = Cardinality(Serves(t)) /\ session[t].streams = Cardinality(StreamsOf(t))
      BY <1>1 DEF Counts
    <3>2. CASE t = s
      BY <1>3, <1>4, <1>6, <1>7, <1>9, <3>1, <3>2, OneLess
    <3>3. CASE t # s
      BY <1>7, <1>9, <3>1, <3>3
    <3> QED
      BY <3>2, <3>3
  <2>2. IsFiniteSet(AllServed') /\ Cardinality(AllServed') = Cardinality(AllServed) - 1
    BY <1>3, <1>4, <1>9, OneLess
  <2>3. server'.wg = Cardinality(AllServed') + (IF server'.serving THEN 1 ELSE 0)
    BY <1>1, <1>4, <1>5, <2>2 DEF Counts
  <2> QED
    BY <1>1, <1>5, <1>9, <2>1, <2>2, <2>3 DEF Counts
<1> QED
  BY <1>8, <1>10

LEMMA DetachStep ==
  ASSUME ProxyInv, NEW r \in Requests, Detach(r) PROVE ProxyInv'
<1> DEFINE s == request[r].of
           e == [session[s] EXCEPT !.transfers = @ \ {r}, !.streams = @ - 1]
<1>1. /\ RecordsOK /\ Counts /\ Sound(request[r]) /\ Goto(r, "finished", "detached")
      /\ UNCHANGED caller /\ request[r].pc = "finished" /\ request[r] \in Stages
      /\ server' = SlotGivenBack
      /\ session' = [session EXCEPT ![s].transfers = @ \ {r}, ![s].streams = @ - 1]
  BY DEF ProxyInv, RecordsOK, Detach, Goto, Of
<1>2. s \in Sessions /\ session[s] \in Books /\ session' = [session EXCEPT ![s] = e]
  BY <1>1 DEF Sound, Served, RecordsOK
<1>3. /\ r \in AllServed /\ r \in Serves(s) /\ \A t \in Sessions : t # s => r \notin Serves(t)
      /\ r \in AllSlotted /\ r \in StreamsOf(s) /\ \A t \in Sessions : t # s => r \notin StreamsOf(t)
      /\ "detached" \in Served /\ "detached" \notin Slotted /\ "detached" \notin Streaming
  BY <1>1, <1>2 DEF AllServed, Serves, AllSlotted, StreamsOf, Of, Served, Slotted, Streaming
<1>4. /\ IsFiniteSet(AllSlotted) /\ IsFiniteSet(StreamsOf(s))
      /\ Cardinality(StreamsOf(s)) \in Nat \ {0} /\ session[s].streams \in Nat \ {0}
  <2>1. IsFiniteSet(AllSlotted) /\ IsFiniteSet(StreamsOf(s))
    BY <1>1, <1>2, CountsAreFinite
  <2>2. Cardinality(StreamsOf(s)) \in Nat \ {0}
    BY <1>3, <2>1, OneLess
  <2> QED
    BY <1>1, <1>2, <2>1, <2>2 DEF Counts
<1>5. /\ server' \in Houses /\ server'.wg = server.wg /\ server'.serving = server.serving
      /\ server'.streams = server.streams - 1
  BY <1>1, <1>3, GivenBack
<1>6. /\ e \in Books /\ e.streams = session[s].streams - 1 /\ e.wg = session[s].wg
      /\ e.breaking = session[s].breaking /\ e.transfers = session[s].transfers \ {r}
      /\ e.toInterrupt = session[s].toInterrupt
      /\ e.revoked = session[s].revoked /\ e.cleared = session[s].cleared
  <2>1. session[s].streams - 1 \in 0..MaxStreamsPerSession /\ session[s].transfers \ {r} \in SUBSET Requests
    BY <1>2, <1>4, ProxyAssumption DEF Books
  <2> QED
    BY <1>2, <2>1 DEF Books
<1> HIDE DEF e
<1>7. /\ session' \in [Sessions -> Books] /\ session'[s] = e
      /\ \A t \in Sessions : t # s => session'[t] = session[t]
  BY <1>1, <1>2, <1>6, SessionBecomes DEF RecordsOK
<1>8. /\ \A t \in Sessions :
           /\ session'[t].breaking = session[t].breaking /\ session'[t].transfers \subseteq session[t].transfers
           /\ session'[t].toInterrupt = session[t].toInterrupt
           /\ session'[t].revoked = session[t].revoked /\ session'[t].cleared = session[t].cleared
  BY <1>6, <1>7
<1>9. PICK g \in Stages :
        /\ request' = [request EXCEPT ![r] = g] /\ g.pc = "detached"
        /\ g.of = request[r].of /\ g.body = request[r].body /\ g.deadline = request[r].deadline
        /\ g.finished = request[r].finished /\ g.interrupted = request[r].interrupted
        /\ g.interruptDone = request[r].interruptDone
  <2>1. "detached" \in Places
    BY DEF Places, Served
  <2> QED
    BY <1>1, <2>1, GotoIs
<1>10. Sound(g)
  BY <1>1, <1>9 DEF Sound, Places, Served, Live
<1>11. Leaves(s, r, request[r], g)
  <2>1. session[s].breaking # r
    BY <1>1, <1>2 DEF ProxyInv, Knows, Breaks, Live
  <2>2. r \notin session'[s].transfers /\ request[r].pc \notin Live
    BY <1>1, <1>6, <1>7 DEF Live
  <2> QED
    BY <1>9, <2>1, <2>2 DEF Leaves
<1>12. /\ Counts' => ProxyInv'
       /\ request'[r] = g /\ \A q \in Requests : q # r => request'[q] = request[q]
  <2>1. request[r].pc \in Served
    BY <1>1 DEF Served
  <2> QED
    <3>1. \A t \in Sessions : request[r].of = t => Follows(request[r], g) \/ Leaves(t, r, request[r], g)
      BY <1>11
    <3>2. request' = [request EXCEPT ![r] = g] /\ g.of = request[r].of /\ UNCHANGED caller
      BY <1>1, <1>9
    <3> HIDE DEF s
    <3> QED
      BY <1>5, <1>7, <1>8, <1>10, <2>1, <3>1, <3>2, CountingStep
<1>13. /\ AllServed' = AllServed /\ AllSlotted' = AllSlotted \ {r}
       /\ \A t \in Sessions : /\ Serves(t)' = Serves(t)
                              /\ StreamsOf(t)' = IF t = s THEN StreamsOf(t) \ {r} ELSE StreamsOf(t)
  <2>1. AllServed' = AllServed /\ AllSlotted' = AllSlotted \ {r}
    BY <1>3, <1>9, <1>12, SetsChange DEF Turns
  <2>2. ASSUME NEW t \in Sessions
        PROVE  /\ Serves(t)' = Serves(t)
               /\ StreamsOf(t)' = IF t = s THEN StreamsOf(t) \ {r} ELSE StreamsOf(t)
    BY <1>3, <1>9, <1>12, SetsChange DEF Turns
  <2> QED
    BY <2>1, <2>2
<1>14. Counts'
  <2>1. ASSUME NEW t \in Sessions
        PROVE  session'[t].wg = Cardinality(Serves(t)') /\ session'[t].streams = Cardinality(StreamsOf(t)')
    <3>1. session[t].wg = Cardinality(Serves(t)) /\ session[t].streams = Cardinality(StreamsOf(t))
      BY <1>1 DEF Counts
    <3>2. CASE t = s
      BY <1>3, <1>4, <1>6, <1>7, <1>13, <3>1, <3>2, OneLess
    <3>3. CASE t # s
      BY <1>7, <1>13, <3>1, <3>3
    <3> QED
      BY <3>2, <3>3
  <2>2. server'.streams = Cardinality(AllSlotted')
    BY <1>1, <1>3, <1>4, <1>5, <1>13, OneLess DEF Counts
  <2> QED
    BY <1>1, <1>5, <1>13, <2>1, <2>2 DEF Counts
<1> QED
  BY <1>12, <1>14

LEMMA AttachStep ==
  ASSUME ProxyInv, NEW r \in Requests, Attach(r) PROVE ProxyInv'
<1> DEFINE s == request[r].of
           e == [session[s] EXCEPT !.transfers = @ \cup {r}]
<1>1. /\ RecordsOK /\ Counts /\ Sound(request[r]) /\ request[r] \in Stages
      /\ UNCHANGED <<server, caller>> /\ server \in Houses /\ request[r].pc = "admitted"
  BY DEF ProxyInv, RecordsOK, Attach
<1>2. CASE ~Attachable(Of(r))
  <2>1. Goto(r, "admitted", "finished") /\ UNCHANGED <<server, session, caller>>
    BY <1>2 DEF Attach
  <2> QED
    BY <2>1, QuietGoto
<1>3. CASE Attachable(Of(r))
  <2>1. /\ Goto(r, "admitted", "attached") /\ s \in Sessions /\ ~session[s].revoked
        /\ session' = [session EXCEPT ![s] = e] /\ session[s] \in Books /\ Knows(s)
    <3>1. s \in Sessions
      BY <1>1 DEF Sound, Served
    <3> QED
      BY <1>1, <1>3, <3>1 DEF Attach, Attachable, Of, RecordsOK, ProxyInv
  <2>2. /\ e \in Books /\ e.transfers = session[s].transfers \cup {r} /\ e.wg = session[s].wg
        /\ e.streams = session[s].streams /\ e.breaking = session[s].breaking
        /\ e.toInterrupt = session[s].toInterrupt
        /\ e.revoked = session[s].revoked /\ e.cleared = session[s].cleared
    <3>1. session[s].transfers \cup {r} \in SUBSET Requests
      BY <2>1 DEF Books
    <3> QED
      BY <2>1, <3>1 DEF Books
  <2> HIDE DEF e
  <2>3. /\ session' \in [Sessions -> Books] /\ session'[s] = e
        /\ \A t \in Sessions : t # s => session'[t] = session[t]
    BY <1>1, <2>1, <2>2, SessionBecomes DEF RecordsOK
  <2>4. PICK g \in Stages :
          /\ request' = [request EXCEPT ![r] = g] /\ g.pc = "attached"
          /\ g.of = request[r].of /\ g.body = request[r].body /\ g.deadline = request[r].deadline
          /\ g.finished = request[r].finished /\ g.interrupted = request[r].interrupted
          /\ g.interruptDone = request[r].interruptDone
    <3>1. "attached" \in Places
      BY DEF Places, Served
    <3> QED
      BY <1>1, <2>1, <3>1, GotoIs
  <2>5. Sound(g)
    BY <1>1, <2>4 DEF Sound, Places, Served, Live
  <2>6. Follows(request[r], g)
    BY <1>1, <2>4 DEF Sound, Follows, Live
  <2>7. /\ RecordsOK' /\ \A q \in Requests : Sound(request'[q]) /\ Placed(q)'
        /\ \A c \in Callers : caller'[c].at # "idle" => caller'[c].of \in Sessions
        /\ request'[r] = g /\ \A q \in Requests : q # r => request'[q] = request[q]
    <3>1. \A t \in Sessions : session'[t].cleared = session[t].cleared
      BY <2>2, <2>3
    <3>2. request[r].pc \in Served /\ request[r].pc # "expiring"
      BY <1>1 DEF Served
    <3> QED
      BY <1>1, <2>3, <2>4, <2>5, <3>1, <3>2, OneRequestMoves
  <2>8. Counts'
    <3>1. \A q \in Requests : /\ request'[q].pc \in Served <=> request[q].pc \in Served
                              /\ request'[q].pc \in Slotted <=> request[q].pc \in Slotted
                              /\ request'[q].pc \in Streaming <=> request[q].pc \in Streaming
                              /\ request[q].pc \in Served => request'[q].of = request[q].of
      <4>1. /\ {"admitted", "attached"} \subseteq Served /\ {"admitted", "attached"} \subseteq Slotted
            /\ {"admitted", "attached"} \subseteq Streaming
        BY DEF Served, Slotted, Streaming
      <4> QED
        BY <1>1, <2>4, <2>7, <4>1
    <3>2. \A t \in Sessions : session'[t].wg = session[t].wg /\ session'[t].streams = session[t].streams
      BY <2>2, <2>3
    <3> QED
      BY <1>1, <3>1, <3>2, CountsStay
  <2>9. \A q \in Requests : Follows(request[q], request'[q])
    BY <2>6, <2>7 DEF Follows
  <2>10. ASSUME NEW t \in Sessions, t # s PROVE Knows(t)'
    <3>1. Knows(t)
      BY DEF ProxyInv
    <3> QED
      BY <1>1, <2>3, <2>9, <2>10, <3>1, KnowsStays
  <2>11. ASSUME NEW t \in Sessions, t = s PROVE Knows(t)'
    <3>0. Knows(t) /\ ~session[t].revoked /\ session[t] \in Books /\ session'[t] = e
          /\ request[r].of = t
      BY <2>1, <2>3, <2>11
    <3> HIDE DEF s
    <3>1. /\ ~session'[t].revoked /\ ~session'[t].cleared
      BY <2>2, <2>11, <3>0 DEF Knows
    <3>2. \A q \in Requests : session[t].breaking = q => Breaks(t, q)'
      <4>1. \A q \in Requests : session[t].breaking = q => Breaks(t, q)
        BY <3>0 DEF Knows
      <4> QED
        BY <2>9, <4>1 DEF Breaks, Follows, Of
    <3>3. ASSUME NEW q \in session[t].transfers \cup {r} PROVE Holds(t, q)'
      <4>1. CASE q = r
        BY <2>4, <2>7, <3>0, <4>1 DEF Holds, Of, Live
      <4>2. CASE q # r
        <5>1. Holds(t, q) /\ q \in Requests
          BY <3>0, <4>2 DEF Knows, Books
        <5> QED
          BY <2>9, <5>1 DEF Holds, Follows, Of
      <4> QED
        BY <4>1, <4>2
    <3>4. ASSUME NEW q \in session[t].toInterrupt PROVE Owes(t, q)'
      <4>1. Owes(t, q) /\ q \in Requests
        BY <3>0 DEF Knows, Books
      <4> QED
        BY <2>9, <4>1 DEF Owes, Follows, Of
    <3> QED
      <4>1. /\ session'[t].breaking = session[t].breaking
            /\ session'[t].transfers = session[t].transfers \cup {r}
            /\ session'[t].toInterrupt = session[t].toInterrupt
        BY <2>2, <2>11, <3>0
      <4> QED
        BY <3>1, <3>2, <3>3, <3>4, <4>1 DEF Knows
  <2>12. \A t \in Sessions : Knows(t)'
    BY <2>10, <2>11
  <2> QED
    BY <2>7, <2>8, <2>12 DEF ProxyInv
<1> QED
  BY <1>2, <1>3

LEMMA ArriveStep ==
  ASSUME ProxyInv, NEW r \in Requests, NEW s \in Sessions, Arrive(r, s) PROVE ProxyInv'
<1> DEFINE pc == IF Acquirable(s) THEN "acquired" ELSE "expiring"
           e == [request[r] EXCEPT !.pc = pc, !.of = s]
<1>1. /\ RecordsOK /\ Counts /\ Sound(request[r]) /\ Placed(r) /\ request[r] \in Stages
      /\ request[r].pc = "new" /\ session[s] \in Books /\ Knows(s) /\ session \in [Sessions -> Books]
      /\ server \in Houses
  BY DEF ProxyInv, RecordsOK, Arrive
<1>2. request' = [request EXCEPT ![r] = e] /\ pc \in {"acquired", "expiring"}
  BY DEF Arrive
<1>3. e \in Stages /\ e.pc = pc /\ e.of = s /\ e.body = None /\ ~e.deadline /\ ~e.finished
      /\ e.interrupted = request[r].interrupted /\ e.interruptDone = request[r].interruptDone
  <2>1. request[r].body = None /\ ~request[r].deadline /\ ~request[r].finished
    BY <1>1 DEF Sound, Places, Live, Served
  <2> QED
    BY <1>1, <2>1 DEF Stages, Places, Served
<1>4. Sound(e)
  BY <1>1, <1>2, <1>3 DEF Sound, Live
<1> HIDE DEF e
<1>5. /\ request' \in [Requests -> Stages] /\ request'[r] = e
      /\ \A q \in Requests : q # r => request'[q] = request[q]
  BY <1>1, <1>2, <1>3, RequestBecomes DEF RecordsOK
<1>6. ASSUME NEW q \in Requests PROVE Sound(request'[q])
  BY <1>4, <1>5 DEF ProxyInv
<1>7. /\ r \notin AllServed /\ r \notin AllSlotted
      /\ \A t \in Sessions : r \notin Serves(t) /\ r \notin StreamsOf(t)
  BY <1>1 DEF AllServed, AllSlotted, Serves, StreamsOf, Served, Slotted, Streaming
<1>8. \A t \in Sessions : \A q \in Requests : request[q].of = t => Follows(request[q], request'[q])
  <2>1. request[r].of = None /\ None \notin Sessions
    BY <1>1, ProxyAssumption DEF Sound
  <2> QED
    BY <1>5, <2>1 DEF Follows
<1>9. CASE Acquirable(s)
  <2> DEFINE g == [session[s] EXCEPT !.wg = @ + 1]
  <2>1. /\ pc = "acquired" /\ ~session[s].revoked /\ UNCHANGED caller
        /\ session' = [session EXCEPT ![s] = g] /\ server' = [server EXCEPT !.wg = @ + 1]
    BY <1>9 DEF Arrive, Acquirable
  <2>2. /\ g \in Books /\ g.wg = session[s].wg + 1 /\ g.streams = session[s].streams
        /\ g.breaking = session[s].breaking /\ g.transfers = session[s].transfers
        /\ g.toInterrupt = session[s].toInterrupt
        /\ g.revoked = session[s].revoked /\ g.cleared = session[s].cleared
    BY <1>1 DEF Books
  <2>3. server' \in Houses /\ server'.wg = server.wg + 1 /\ server'.serving = server.serving
        /\ server'.streams = server.streams
    BY <1>1, <2>1 DEF Houses
  <2> HIDE DEF g
  <2>4. /\ session' \in [Sessions -> Books] /\ session'[s] = g
        /\ \A t \in Sessions : t # s => session'[t] = session[t]
        /\ \A t \in Sessions :
             /\ session'[t].breaking = session[t].breaking /\ session'[t].transfers = session[t].transfers
             /\ session'[t].toInterrupt = session[t].toInterrupt
             /\ session'[t].revoked = session[t].revoked /\ session'[t].cleared = session[t].cleared
    BY <1>1, <2>1, <2>2, SessionsBooks
  <2>5. RecordsOK'
    BY <1>1, <1>5, <2>1, <2>3, <2>4 DEF RecordsOK
  <2>6. ASSUME NEW q \in Requests PROVE Placed(q)'
    <3>1. CASE q = r
      <4>1. ~session'[s].cleared
        BY <1>1, <2>1, <2>4 DEF Knows
      <4>2. caller'[r].at \notin {"remove", "revoke", "join"}
        BY <1>1, <2>1 DEF Placed
      <4> QED
        BY <1>3, <1>5, <3>1, <4>1, <4>2 DEF Placed, Of
    <3>2. CASE q # r
      <4>1. Placed(q) /\ (request[q].pc \in Served => request[q].of \in Sessions)
        BY DEF ProxyInv, Sound
      <4> QED
        BY <1>5, <2>1, <2>4, <3>2, <4>1 DEF Placed, Of
    <3> QED
      BY <3>1, <3>2
  <2>7. ASSUME NEW t \in Sessions PROVE Knows(t)'
    <3>1. Knows(t)
      BY DEF ProxyInv
    <3> QED
      BY <1>1, <1>8, <2>4, <3>1, KnowsStays
  <2>8. /\ AllServed' = AllServed \cup {r} /\ AllSlotted' = AllSlotted
        /\ \A t \in Sessions : /\ Serves(t)' = IF t = s THEN Serves(t) \cup {r} ELSE Serves(t)
                               /\ StreamsOf(t)' = StreamsOf(t)
    <3>1. "acquired" \in Served /\ "acquired" \notin Slotted /\ "acquired" \notin Streaming
      BY DEF Served, Slotted, Streaming
    <3>2. request'[r].pc = "acquired" /\ request'[r].of = s
      BY <1>3, <1>5, <2>1
    <3>3. AllServed' = AllServed \cup {r} /\ AllSlotted' = AllSlotted
      BY <1>5, <1>7, <3>1, <3>2, SetsChange DEF Turns
    <3>4. ASSUME NEW t \in Sessions
          PROVE  /\ Serves(t)' = IF t = s THEN Serves(t) \cup {r} ELSE Serves(t)
                 /\ StreamsOf(t)' = StreamsOf(t)
      BY <1>5, <1>7, <3>1, <3>2, SetsChange DEF Turns
    <3> QED
      BY <3>3, <3>4
  <2>9. Counts'
    <3>1. ASSUME NEW t \in Sessions
          PROVE  session'[t].wg = Cardinality(Serves(t)') /\ session'[t].streams = Cardinality(StreamsOf(t)')
      <4>1. session[t].wg = Cardinality(Serves(t)) /\ session[t].streams = Cardinality(StreamsOf(t))
        BY <1>1 DEF Counts
      <4>2. CASE t = s
        BY <1>1, <1>7, <2>2, <2>4, <2>8, <4>1, <4>2, CountsAreFinite, OneMore
      <4>3. CASE t # s
        BY <2>4, <2>8, <4>1, <4>3
      <4> QED
        BY <4>2, <4>3
    <3>2. /\ IsFiniteSet(AllServed') /\ Cardinality(AllServed') = Cardinality(AllServed) + 1
          /\ Cardinality(AllServed) \in Nat
      BY <1>1, <1>7, <2>8, OneMore DEF Counts
    <3>3. server'.wg = Cardinality(AllServed') + (IF server'.serving THEN 1 ELSE 0)
      BY <1>1, <2>3, <3>2 DEF Counts
    <3> QED
      BY <1>1, <2>3, <2>8, <3>1, <3>2, <3>3 DEF Counts
  <2> QED
    BY <1>6, <2>1, <2>5, <2>6, <2>7, <2>9 DEF ProxyInv
<1>10. CASE ~Acquirable(s)
  <2> DEFINE d == [at |-> "remove", of |-> s]
  <2>1. /\ pc = "expiring" /\ caller' = [caller EXCEPT ![r] = d]
        /\ UNCHANGED <<server, session>> /\ r \in Callers
    BY <1>10 DEF Arrive, CallClose, Callers
  <2>2. d \in Calls /\ d.of = s
    BY DEF Calls
  <2> HIDE DEF d
  <2>3. /\ caller' \in [Callers -> Calls] /\ caller'[r] = d
        /\ \A c \in Callers : c # r => caller'[c] = caller[c]
    BY <1>1, <2>1, <2>2, CallerBecomes DEF RecordsOK
  <2>4. RecordsOK'
    BY <1>1, <1>5, <2>1, <2>3 DEF RecordsOK
  <2>5. ASSUME NEW q \in Requests PROVE Placed(q)'
    <3>1. CASE q = r
      BY <1>3, <1>5, <2>1, <3>1 DEF Placed, Served
    <3>2. CASE q # r
      <4>1. Placed(q) /\ q \in Callers
        BY DEF ProxyInv, Callers
      <4> QED
        BY <1>5, <2>1, <2>3, <3>2, <4>1 DEF Placed, Of
    <3> QED
      BY <3>1, <3>2
  <2>6. ASSUME NEW t \in Sessions PROVE Knows(t)'
    <3>1. Knows(t)
      BY DEF ProxyInv
    <3> QED
      BY <1>1, <1>8, <2>1, <3>1, KnowsStays
  <2>7. Counts'
    <3>1. \A q \in Requests : /\ request'[q].pc \in Served <=> request[q].pc \in Served
                              /\ request'[q].pc \in Slotted <=> request[q].pc \in Slotted
                              /\ request'[q].pc \in Streaming <=> request[q].pc \in Streaming
                              /\ request[q].pc \in Served => request'[q].of = request[q].of
      <4>1. \A p \in {"new", "expiring"} : p \notin Served /\ p \notin Slotted /\ p \notin Streaming
        BY DEF Served, Slotted, Streaming
      <4> QED
        BY <1>1, <1>3, <1>5, <2>1, <4>1
    <3> QED
      BY <1>1, <2>1, <3>1, CountsStay
  <2>8. \A c \in Callers : caller'[c].at # "idle" => caller'[c].of \in Sessions
    BY <2>2, <2>3 DEF ProxyInv
  <2> QED
    BY <1>6, <2>4, <2>5, <2>6, <2>7, <2>8 DEF ProxyInv
<1> QED
  BY <1>9, <1>10

LEMMA SameFollows == \A q : Follows(q, q)
BY DEF Follows

\* A step that no request makes.
LEMMA SessionsMove ==
  ASSUME ProxyInv, UNCHANGED request, RecordsOK',
         server'.wg = server.wg, server'.serving = server.serving, server'.streams = server.streams,
         \A t \in Sessions : /\ session'[t].wg = session[t].wg /\ session'[t].streams = session[t].streams
                             /\ session'[t].cleared = session[t].cleared,
         \A c \in Callers : caller'[c].at # "idle" => caller'[c].of \in Sessions,
         \A q \in Requests : caller'[q].at \in {"remove", "revoke", "join"} =>
                               caller[q].at \in {"remove", "revoke", "join"},
         \A t \in Sessions : Knows(t)'
  PROVE  ProxyInv'
<1>1. Counts'
  <2>1. Counts
    BY DEF ProxyInv
  <2> QED
    BY <2>1, CountsStay
<1>2. ASSUME NEW q \in Requests PROVE Sound(request'[q]) /\ Placed(q)'
  <2>1. Sound(request[q]) /\ Placed(q) /\ (request[q].pc \in Served => request[q].of \in Sessions)
    BY DEF ProxyInv, Sound
  <2> QED
    BY <2>1 DEF Placed, Of
<1> QED
  BY <1>1, <1>2 DEF ProxyInv

LEMMA KnowsSame ==
  ASSUME ProxyInv, UNCHANGED request, NEW s \in Sessions,
         session'[s].breaking = session[s].breaking, session'[s].transfers = session[s].transfers,
         session'[s].toInterrupt = session[s].toInterrupt,
         session'[s].revoked = session[s].revoked, session'[s].cleared = session[s].cleared
  PROVE  Knows(s)'
<1>1. RecordsOK /\ Knows(s)
  BY DEF ProxyInv
<1> QED
  BY <1>1, SameFollows, KnowsStays

LEMMA NewSessionStep ==
  ASSUME ProxyInv, NEW s \in Sessions, NewSession(s) \/ Expire(s) PROVE ProxyInv'
<1>1. PICK e \in Books :
        /\ session' = [session EXCEPT ![s] = e] /\ e.wg = session[s].wg
        /\ e.streams = session[s].streams /\ e.breaking = session[s].breaking
        /\ e.transfers = session[s].transfers /\ e.toInterrupt = session[s].toInterrupt
        /\ e.revoked = session[s].revoked /\ e.cleared = session[s].cleared
  <2> DEFINE made == [session[s] EXCEPT !.made = TRUE, !.mapped = TRUE]
             gone == [session[s] EXCEPT !.expired = TRUE]
  <2>0. session[s] \in Books
    BY DEF ProxyInv, RecordsOK
  <2>1. ASSUME NEW e \in {made, gone}
        PROVE  /\ e \in Books /\ e.wg = session[s].wg
               /\ e.streams = session[s].streams /\ e.breaking = session[s].breaking
               /\ e.transfers = session[s].transfers /\ e.toInterrupt = session[s].toInterrupt
               /\ e.revoked = session[s].revoked /\ e.cleared = session[s].cleared
    BY <2>0 DEF Books
  <2>2. \/ session' = [session EXCEPT ![s] = made]
        \/ session' = [session EXCEPT ![s] = gone]
    BY DEF NewSession, Expire
  <2> HIDE DEF made, gone
  <2> QED
    BY <2>1, <2>2
<1>2. UNCHANGED <<server, caller, request>> /\ RecordsOK
  BY DEF NewSession, Expire, ProxyInv
<1>3. /\ session' \in [Sessions -> Books] /\ session'[s] = e
      /\ \A t \in Sessions : t # s => session'[t] = session[t]
  BY <1>1, <1>2, SessionBecomes DEF RecordsOK
<1>4. \A t \in Sessions : Knows(t)'
  BY <1>1, <1>2, <1>3, KnowsSame
<1>5. RecordsOK'
  BY <1>2, <1>3 DEF RecordsOK
<1>6. \A c \in Callers : caller'[c].at # "idle" => caller'[c].of \in Sessions
  BY <1>2 DEF ProxyInv
<1> QED
  BY <1>1, <1>2, <1>3, <1>4, <1>5, <1>6, SessionsMove

\* A call of Session.Close begins or goes on.
LEMMA CallerMoves ==
  ASSUME ProxyInv, NEW c \in Callers, NEW e \in Calls, caller' = [caller EXCEPT ![c] = e],
         e.of \in Sessions,
         c \in Requests => caller[c].at \in {"remove", "revoke", "join"}
  PROVE  /\ caller' \in [Callers -> Calls]
         /\ \A d \in Callers : caller'[d].at # "idle" => caller'[d].of \in Sessions
         /\ \A q \in Requests : caller'[q].at \in {"remove", "revoke", "join"} =>
                                  caller[q].at \in {"remove", "revoke", "join"}
<1>1. /\ caller' \in [Callers -> Calls] /\ caller'[c] = e
      /\ \A d \in Callers : d # c => caller'[d] = caller[d]
  BY CallerBecomes DEF ProxyInv, RecordsOK
<1>2. Requests \subseteq Callers
  BY DEF Callers
<1> QED
  BY <1>1, <1>2 DEF ProxyInv

LEMMA CloseIsCalled ==
  ASSUME ProxyInv, NEW s \in Sessions, OwnerCloses(s) \/ TimerCloses(s) PROVE ProxyInv'
<1>1. PICK c \in OwnCallers : CallClose(c, s)
  BY DEF OwnerCloses, TimerCloses, OwnCallers
<1>2. UNCHANGED <<server, session, request>> /\ RecordsOK
  BY DEF OwnerCloses, TimerCloses, ProxyInv
<1> DEFINE e == [at |-> "remove", of |-> s]
<1>3. e \in Calls /\ e.of = s /\ caller' = [caller EXCEPT ![c] = e] /\ c \in Callers /\ c \notin Requests
  BY <1>1, ProxyAssumption DEF Calls, CallClose, Callers
<1> HIDE DEF e
<1>4. /\ caller' \in [Callers -> Calls]
      /\ \A d \in Callers : caller'[d].at # "idle" => caller'[d].of \in Sessions
      /\ \A q \in Requests : caller'[q].at \in {"remove", "revoke", "join"} =>
                               caller[q].at \in {"remove", "revoke", "join"}
  BY <1>3, CallerMoves
<1>5. \A t \in Sessions : Knows(t)'
  BY <1>2, KnowsSame
<1>6. RecordsOK'
  BY <1>2, <1>4 DEF RecordsOK
<1> QED
  BY <1>2, <1>4, <1>5, <1>6, SessionsMove

LEMMA RemoveStep ==
  ASSUME ProxyInv, NEW c \in Callers, Remove(c) PROVE ProxyInv'
<1>1. PICK s \in Sessions : s = caller[c].of
  BY DEF ProxyInv, Remove
<1> DEFINE d == [caller[c] EXCEPT !.at = "revoke"]
           e == [session[s] EXCEPT !.mapped = FALSE]
<1>2. /\ UNCHANGED <<server, request>> /\ RecordsOK /\ caller[c] \in Calls /\ session[s] \in Books
      /\ caller[c].at = "remove"
      /\ caller' = [caller EXCEPT ![c] = d] /\ session' = [session EXCEPT ![s] = e]
  BY <1>1 DEF Remove, ProxyInv, RecordsOK
<1>3. d \in Calls /\ d.of = s
  BY <1>1, <1>2 DEF Calls
<1>4. /\ e \in Books /\ e.wg = session[s].wg
      /\ e.streams = session[s].streams /\ e.breaking = session[s].breaking
      /\ e.transfers = session[s].transfers /\ e.toInterrupt = session[s].toInterrupt
      /\ e.revoked = session[s].revoked /\ e.cleared = session[s].cleared
  BY <1>2 DEF Books
<1> HIDE DEF d, e
<1>5. /\ caller' \in [Callers -> Calls]
      /\ \A b \in Callers : caller'[b].at # "idle" => caller'[b].of \in Sessions
      /\ \A q \in Requests : caller'[q].at \in {"remove", "revoke", "join"} =>
                               caller[q].at \in {"remove", "revoke", "join"}
  BY <1>2, <1>3, CallerMoves
<1>6. /\ session' \in [Sessions -> Books] /\ session'[s] = e
      /\ \A t \in Sessions : t # s => session'[t] = session[t]
  BY <1>2, <1>4, SessionBecomes DEF RecordsOK
<1>7. \A t \in Sessions : Knows(t)'
  BY <1>2, <1>4, <1>6, KnowsSame
<1>8. RecordsOK'
  BY <1>2, <1>5, <1>6 DEF RecordsOK
<1> QED
  BY <1>2, <1>4, <1>5, <1>6, <1>7, <1>8, SessionsMove

\* The first section of revoke: all that is attached is to be interrupted.
LEMMA RevokedIs ==
  ASSUME ProxyInv, UNCHANGED request, NEW s \in Sessions, session' = Revoked(s)
  PROVE  /\ session' \in [Sessions -> Books]
         /\ \A t \in Sessions : /\ session'[t].wg = session[t].wg /\ session'[t].streams = session[t].streams
                                /\ session'[t].cleared = session[t].cleared
         /\ \A t \in Sessions : Knows(t)'
<1>0. RecordsOK /\ session \in [Sessions -> Books] /\ session[s] \in Books /\ Knows(s)
  BY DEF ProxyInv, RecordsOK
<1>1. CASE session[s].revoked
  <2>1. session' = session
    BY <1>1 DEF Revoked
  <2>2. \A t \in Sessions : Knows(t)'
    BY <2>1, KnowsSame
  <2> QED
    BY <1>0, <2>1, <2>2
<1>2. CASE ~session[s].revoked
  <2> DEFINE e == [session[s] EXCEPT !.revoked = TRUE, !.toInterrupt = session[s].transfers]
  <2>1. session' = [session EXCEPT ![s] = e]
    BY <1>2 DEF Revoked
  <2>2. /\ e \in Books /\ e.wg = session[s].wg
        /\ e.streams = session[s].streams /\ e.breaking = session[s].breaking
        /\ e.transfers = session[s].transfers /\ e.toInterrupt = session[s].transfers
        /\ e.revoked /\ e.cleared = session[s].cleared
    BY <1>0 DEF Books
  <2> HIDE DEF e
  <2>3. /\ session' \in [Sessions -> Books] /\ session'[s] = e
        /\ \A t \in Sessions : t # s => session'[t] = session[t]
    BY <1>0, <2>1, <2>2, SessionBecomes
  <2>4. Knows(s)'
    <3>1. ~e.cleared
      BY <1>0, <1>2, <2>2 DEF Knows
    <3>2. \A q \in Requests : session[s].breaking = q => Breaks(s, q)'
      BY <1>0 DEF Knows, Breaks, Of
    <3>3. \A q \in session[s].transfers : Holds(s, q)' /\ Owes(s, q)'
      BY <1>0 DEF Knows, Holds, Owes, Of
    <3> QED
      BY <2>2, <2>3, <3>1, <3>2, <3>3 DEF Knows
  <2>5. ASSUME NEW t \in Sessions, t # s PROVE Knows(t)'
    BY <2>3, <2>5, KnowsSame
  <2> QED
    BY <2>2, <2>3, <2>4, <2>5
<1> QED
  BY <1>1, <1>2

LEMMA RevokeStep ==
  ASSUME ProxyInv, NEW c \in Callers, Revoke(c) PROVE ProxyInv'
<1>1. PICK s \in Sessions : s = caller[c].of
  BY DEF ProxyInv, Revoke
<1> DEFINE d == [caller[c] EXCEPT !.at = "join"]
<1>2. /\ UNCHANGED <<server, request>> /\ RecordsOK /\ caller[c] \in Calls
      /\ caller[c].at = "revoke"
      /\ caller' = [caller EXCEPT ![c] = d] /\ session' = Revoked(s)
  BY <1>1 DEF Revoke, ProxyInv, RecordsOK
<1>3. d \in Calls /\ d.of = s
  BY <1>1, <1>2 DEF Calls
<1> HIDE DEF d
<1>4. /\ caller' \in [Callers -> Calls]
      /\ \A b \in Callers : caller'[b].at # "idle" => caller'[b].of \in Sessions
      /\ \A q \in Requests : caller'[q].at \in {"remove", "revoke", "join"} =>
                               caller[q].at \in {"remove", "revoke", "join"}
  BY <1>2, <1>3, CallerMoves
<1>5. /\ session' \in [Sessions -> Books]
      /\ \A t \in Sessions : /\ session'[t].wg = session[t].wg /\ session'[t].streams = session[t].streams
                             /\ session'[t].cleared = session[t].cleared
      /\ \A t \in Sessions : Knows(t)'
  BY <1>2, RevokedIs
<1>6. RecordsOK'
  BY <1>2, <1>4, <1>5 DEF RecordsOK
<1> QED
  BY <1>2, <1>4, <1>5, <1>6, SessionsMove

LEMMA ServerRevokesStep ==
  ASSUME ProxyInv, NEW s \in Sessions, ServerRevokes(s) PROVE ProxyInv'
<1>1. /\ UNCHANGED <<caller, request>> /\ RecordsOK /\ server \in Houses
      /\ session' = Revoked(s) /\ server' = [server EXCEPT !.toRevoke = @ \ {s}, !.joins = s]
  BY DEF ServerRevokes, ProxyInv, RecordsOK
<1>2. /\ server' \in Houses /\ server'.wg = server.wg /\ server'.serving = server.serving
      /\ server'.streams = server.streams
  <2>1. server.toRevoke \ {s} \in SUBSET Sessions
    BY <1>1 DEF Houses
  <2> QED
    BY <1>1, <2>1 DEF Houses
<1>3. /\ session' \in [Sessions -> Books]
      /\ \A t \in Sessions : /\ session'[t].wg = session[t].wg /\ session'[t].streams = session[t].streams
                             /\ session'[t].cleared = session[t].cleared
      /\ \A t \in Sessions : Knows(t)'
  BY <1>1, RevokedIs
<1>4. RecordsOK'
  BY <1>1, <1>2, <1>3 DEF RecordsOK
<1>5. \A c \in Callers : caller'[c].at # "idle" => caller'[c].of \in Sessions
  BY <1>1 DEF ProxyInv
<1> QED
  BY <1>1, <1>2, <1>3, <1>4, <1>5, SessionsMove

\* The source is forgotten when nobody is served any more.
LEMMA ClearStep ==
  ASSUME ProxyInv, NEW s \in Sessions, Clear(s) PROVE ProxyInv'
<1> DEFINE e == [session[s] EXCEPT !.cleared = TRUE, !.transfers = {}]
<1>1. /\ UNCHANGED <<server, caller, request>> /\ RecordsOK /\ Counts /\ session[s] \in Books /\ Knows(s)
      /\ session[s].revoked /\ session[s].toInterrupt = {} /\ session[s].breaking = None
      /\ session[s].wg = 0 /\ session' = [session EXCEPT ![s] = e]
  BY DEF Clear, Clearable, ProxyInv, RecordsOK
<1>2. /\ e \in Books /\ e.wg = session[s].wg
      /\ e.streams = session[s].streams /\ e.breaking = None
      /\ e.transfers = {} /\ e.toInterrupt = {}
      /\ e.revoked /\ e.cleared
  BY <1>1 DEF Books
<1> HIDE DEF e
<1>3. /\ session' \in [Sessions -> Books] /\ session'[s] = e
      /\ \A t \in Sessions : t # s => session'[t] = session[t]
  BY <1>1, <1>2, SessionBecomes DEF RecordsOK
<1>4. RecordsOK'
  BY <1>1, <1>3 DEF RecordsOK
<1>5. Counts'
  <2>1. \A t \in Sessions : session'[t].wg = session[t].wg /\ session'[t].streams = session[t].streams
    BY <1>2, <1>3
  <2> QED
    BY <1>1, <2>1, CountsStay
<1>6. \A q \in Requests : request[q].of = s => request[q].pc \notin Served
  <2>1. Serves(s) = {}
    BY <1>1, CountsAreFinite, FS_EmptySet DEF Counts
  <2> QED
    BY <2>1 DEF Serves, Of
<1>7. ASSUME NEW q \in Requests PROVE Sound(request'[q]) /\ Placed(q)'
  <2>1. Sound(request[q]) /\ Placed(q) /\ (request[q].pc \in Served => request[q].of \in Sessions)
    BY DEF ProxyInv, Sound
  <2> QED
    BY <1>1, <1>3, <1>6, <2>1 DEF Placed, Of
<1>8. ASSUME NEW t \in Sessions PROVE Knows(t)'
  <2>1. CASE t = s
    <3>1. \A q \in Requests : session'[t].breaking # q
      BY <1>2, <1>3, <2>1, ProxyAssumption
    <3> QED
      BY <1>2, <1>3, <2>1, <3>1 DEF Knows
  <2>2. CASE t # s
    BY <1>1, <1>3, <2>2, KnowsSame
  <2> QED
    BY <2>1, <2>2
<1>9. \A c \in Callers : caller'[c].at # "idle" => caller'[c].of \in Sessions
  BY <1>1 DEF ProxyInv
<1> QED
  BY <1>4, <1>5, <1>7, <1>8, <1>9 DEF ProxyInv

\* Once interrupted or finished, a transfer is owed nothing; its interrupt begins while it
\* is live.
LEMMA InterruptStep ==
  ASSUME ProxyInv, NEW s \in Sessions, NEW r \in Requests, Interrupt(s, r) PROVE ProxyInv'
<1>1. /\ UNCHANGED <<server, caller>> /\ RecordsOK /\ Counts /\ session[s] \in Books /\ Knows(s)
      /\ r \in session[s].toInterrupt /\ session[s].breaking = None /\ ~session[s].cleared
      /\ request[r] \in Stages /\ Sound(request[r]) /\ server \in Houses
  BY DEF Interrupt, ProxyInv, RecordsOK, Knows
<1>2. CASE request[r].interrupted \/ request[r].finished
  <2> DEFINE e == [session[s] EXCEPT !.toInterrupt = @ \ {r}]
  <2>1. session' = [session EXCEPT ![s] = e] /\ UNCHANGED request
    BY <1>2 DEF Interrupt
  <2>2. /\ e \in Books /\ e.wg = session[s].wg
        /\ e.streams = session[s].streams /\ e.breaking = session[s].breaking
        /\ e.transfers = session[s].transfers /\ e.toInterrupt = session[s].toInterrupt \ {r}
        /\ e.revoked = session[s].revoked /\ e.cleared = session[s].cleared
    <3>1. session[s].toInterrupt \ {r} \in SUBSET Requests
      BY <1>1 DEF Books
    <3> QED
      BY <1>1, <3>1 DEF Books
  <2> HIDE DEF e
  <2>3. /\ session' \in [Sessions -> Books] /\ session'[s] = e
        /\ \A t \in Sessions : t # s => session'[t] = session[t]
    BY <1>1, <2>1, <2>2, SessionBecomes DEF RecordsOK
  <2>4. RecordsOK'
    BY <1>1, <2>1, <2>3 DEF RecordsOK
  <2>5. Knows(s)'
    <3>1. \A q \in Requests : session[s].breaking = q => Breaks(s, q)'
      BY <1>1, <2>1 DEF Knows, Breaks, Of
    <3>2. \A q \in session[s].transfers : Holds(s, q)'
      BY <1>1, <2>1 DEF Knows, Holds, Of
    <3>3. \A q \in session[s].toInterrupt : Owes(s, q)'
      BY <1>1, <2>1 DEF Knows, Owes, Of
    <3>4. session[s].revoked => \A q \in session[s].transfers :
            q \in session[s].toInterrupt \ {r} \/ request'[q].interrupted \/ request'[q].finished
      BY <1>1, <1>2, <2>1 DEF Knows
    <3> QED
      BY <1>1, <2>2, <2>3, <3>1, <3>2, <3>3, <3>4 DEF Knows
  <2>6. \A t \in Sessions : Knows(t)'
    <3>1. \A t \in Sessions : t # s => Knows(t)'
      BY <2>1, <2>3, KnowsSame
    <3> QED
      BY <2>5, <3>1
  <2>7. \A c \in Callers : caller'[c].at # "idle" => caller'[c].of \in Sessions
    BY <1>1 DEF ProxyInv
  <2>8. \A t \in Sessions : /\ session'[t].wg = session[t].wg /\ session'[t].streams = session[t].streams
                            /\ session'[t].cleared = session[t].cleared
    BY <2>2, <2>3
  <2> QED
    BY <1>1, <2>1, <2>4, <2>6, <2>7, <2>8, SessionsMove
<1>3. CASE ~(request[r].interrupted \/ request[r].finished)
  <2> DEFINE e == [session[s] EXCEPT !.toInterrupt = @ \ {r}, !.breaking = r]
             g == [request[r] EXCEPT !.interrupted = TRUE]
  <2>1. session' = [session EXCEPT ![s] = e] /\ request' = [request EXCEPT ![r] = g]
    BY <1>3 DEF Interrupt
  <2>2. /\ e \in Books /\ e.wg = session[s].wg
        /\ e.streams = session[s].streams /\ e.breaking = r
        /\ e.transfers = session[s].transfers /\ e.toInterrupt = session[s].toInterrupt \ {r}
        /\ e.revoked = session[s].revoked /\ e.cleared = session[s].cleared
    <3>1. session[s].toInterrupt \ {r} \in SUBSET Requests
      BY <1>1 DEF Books
    <3> QED
      BY <1>1, <3>1 DEF Books
  <2>3. /\ g \in Stages /\ g.pc = request[r].pc /\ g.of = request[r].of /\ g.body = request[r].body
        /\ g.deadline = request[r].deadline /\ g.finished = request[r].finished /\ g.interrupted
        /\ g.interruptDone = request[r].interruptDone
    BY <1>1 DEF Stages
  <2>4. /\ request[r].pc \in Live /\ request[r].of = s /\ ~request[r].interruptDone
        /\ request[r].pc \in Served /\ request[r].pc # "expiring"
    <3>1. Owes(s, r)
      BY <1>1 DEF Knows
    <3> QED
      BY <1>1, <1>3, <3>1 DEF Owes, Of, Sound, Live, Served
  <2> HIDE DEF e, g
  <2>5. /\ session' \in [Sessions -> Books] /\ session'[s] = e
        /\ \A t \in Sessions : t # s => session'[t] = session[t]
    BY <1>1, <2>1, <2>2, SessionBecomes DEF RecordsOK
  <2>6. Sound(g)
    BY <1>1, <2>3 DEF Sound
  <2>7. /\ RecordsOK' /\ \A q \in Requests : Sound(request'[q]) /\ Placed(q)'
        /\ \A c \in Callers : caller'[c].at # "idle" => caller'[c].of \in Sessions
        /\ request'[r] = g /\ \A q \in Requests : q # r => request'[q] = request[q]
    <3>1. \A t \in Sessions : session'[t].cleared = session[t].cleared
      BY <2>2, <2>5
    <3> QED
      BY <1>1, <2>1, <2>3, <2>4, <2>5, <2>6, <3>1, OneRequestMoves
  <2>8. Counts'
    <3>1. \A q \in Requests : request'[q].pc = request[q].pc /\ request'[q].of = request[q].of
      BY <2>3, <2>7
    <3>2. \A t \in Sessions : session'[t].wg = session[t].wg /\ session'[t].streams = session[t].streams
      BY <2>2, <2>5
    <3> QED
      BY <1>1, <3>1, <3>2, CountsStay
  <2>9. \A q \in Requests : Follows(request[q], request'[q])
    BY <1>3, <2>3, <2>4, <2>7 DEF Follows
  <2>10. ASSUME NEW t \in Sessions, t # s PROVE Knows(t)'
    <3>1. Knows(t)
      BY DEF ProxyInv
    <3> QED
      BY <1>1, <2>5, <2>9, <2>10, <3>1, KnowsStays
  <2>11. Knows(s)'
    <3>1. \A q \in Requests : r = q => Breaks(s, q)'
      BY <2>3, <2>4, <2>7 DEF Breaks, Of
    <3>2. ASSUME NEW q \in session[s].transfers PROVE Holds(s, q)'
      <4>1. Holds(s, q) /\ q \in Requests
        BY <1>1 DEF Knows, Books
      <4> QED
        BY <2>9, <4>1 DEF Holds, Follows, Of
    <3>3. ASSUME NEW q \in session[s].toInterrupt PROVE Owes(s, q)'
      <4>1. Owes(s, q) /\ q \in Requests
        BY <1>1 DEF Knows, Books
      <4> QED
        BY <2>9, <4>1 DEF Owes, Follows, Of
    <3>4. session[s].revoked => \A q \in session[s].transfers :
            q \in session[s].toInterrupt \ {r} \/ request'[q].interrupted \/ request'[q].finished
      <4> SUFFICES ASSUME session[s].revoked, NEW q \in session[s].transfers, q # r
                   PROVE  q \in session[s].toInterrupt \/ request'[q].interrupted \/ request'[q].finished
        BY <2>3, <2>7
      <4>1. /\ q \in Requests /\ request'[q] = request[q]
            /\ q \in session[s].toInterrupt \/ request[q].interrupted \/ request[q].finished
        BY <1>1, <2>7 DEF Knows, Books
      <4> QED
        BY <4>1
    <3>5. /\ session'[s].breaking = r /\ session'[s].transfers = session[s].transfers
          /\ session'[s].toInterrupt = session[s].toInterrupt \ {r}
          /\ session'[s].revoked = session[s].revoked /\ ~session'[s].cleared
      BY <1>1, <2>2, <2>5
    <3> QED
      BY <3>1, <3>2, <3>3, <3>4, <3>5 DEF Knows
  <2>12. \A t \in Sessions : Knows(t)'
    BY <2>10, <2>11
  <2> QED
    BY <2>7, <2>8, <2>12 DEF ProxyInv
<1> QED
  BY <1>2, <1>3

\* What interrupt does after its section: the transfer is live until it has done it.
LEMMA BreakStep ==
  ASSUME ProxyInv, NEW s \in Sessions, Break(s) PROVE ProxyInv'
<1>1. PICK r \in Requests : r = session[s].breaking
  BY DEF Break, ProxyInv, RecordsOK, Books
<1> DEFINE e == [session[s] EXCEPT !.breaking = None]
           g == [request[r] EXCEPT !.cancelled = TRUE, !.deadline = TRUE, !.body = ClosedBody(r),
                                   !.interruptDone = TRUE]
<1>2. /\ UNCHANGED <<server, caller>> /\ RecordsOK /\ Counts /\ session[s] \in Books /\ Knows(s)
      /\ request[r] \in Stages /\ Sound(request[r]) /\ Breaks(s, r) /\ server \in Houses
      /\ session' = [session EXCEPT ![s] = e] /\ request' = [request EXCEPT ![r] = g]
  BY <1>1 DEF Break, Broken, ProxyInv, RecordsOK, Knows
<1>3. /\ e \in Books /\ e.wg = session[s].wg
      /\ e.streams = session[s].streams /\ e.breaking = None
      /\ e.transfers = session[s].transfers /\ e.toInterrupt = session[s].toInterrupt
      /\ e.revoked = session[s].revoked /\ e.cleared = session[s].cleared
  BY <1>2 DEF Books
<1>4. ClosedBody(r) \in {None, "open", "attached", "closed"}
      /\ (request[r].body = "attached" => ClosedBody(r) = "closed")
      /\ (request[r].body # "attached" => ClosedBody(r) = request[r].body)
  BY <1>2 DEF ClosedBody, Stages
<1>5. /\ g \in Stages /\ g.pc = request[r].pc /\ g.of = request[r].of /\ g.body = ClosedBody(r)
      /\ g.finished = request[r].finished /\ g.interrupted = request[r].interrupted
  BY <1>2, <1>4 DEF Stages
<1>6. /\ request[r].pc \in Live /\ request[r].of = s /\ request[r].interrupted
      /\ request[r].pc \in Served /\ request[r].pc # "expiring"
  BY <1>2 DEF Breaks, Of, Live, Served
<1> HIDE DEF e, g
<1>7. Sound(g)
  BY <1>2, <1>4, <1>5, <1>6 DEF Sound, Live, None
<1>8. /\ session' \in [Sessions -> Books] /\ session'[s] = e
      /\ \A t \in Sessions : t # s => session'[t] = session[t]
  BY <1>2, <1>3, SessionBecomes DEF RecordsOK
<1>9. /\ RecordsOK' /\ \A q \in Requests : Sound(request'[q]) /\ Placed(q)'
      /\ \A c \in Callers : caller'[c].at # "idle" => caller'[c].of \in Sessions
      /\ request'[r] = g /\ \A q \in Requests : q # r => request'[q] = request[q]
  <2>1. \A t \in Sessions : session'[t].cleared = session[t].cleared
    BY <1>3, <1>8
  <2> QED
    BY <1>2, <1>5, <1>6, <1>7, <1>8, <2>1, OneRequestMoves
<1>10. Counts'
  <2>1. \A q \in Requests : request'[q].pc = request[q].pc /\ request'[q].of = request[q].of
    BY <1>5, <1>9
  <2>2. \A t \in Sessions : session'[t].wg = session[t].wg /\ session'[t].streams = session[t].streams
    BY <1>3, <1>8
  <2> QED
    BY <1>2, <2>1, <2>2, CountsStay
<1>11. ASSUME NEW t \in Sessions, t # s PROVE Knows(t)'
  <2>1. \A q \in Requests : request[q].of = t => Follows(request[q], request'[q])
    BY <1>6, <1>9, <1>11, SameFollows
  <2>2. Knows(t)
    BY DEF ProxyInv
  <2> QED
    BY <1>2, <1>8, <1>11, <2>1, <2>2, KnowsStays
<1>12. Knows(s)'
  <2>0. \A q \in Requests : /\ request'[q].pc = request[q].pc /\ request'[q].of = request[q].of
                            /\ request'[q].finished = request[q].finished
                            /\ request'[q].interrupted = request[q].interrupted
    BY <1>5, <1>9
  <2>1. \A q \in Requests : None # q
    BY ProxyAssumption
  <2>2. ASSUME NEW q \in session[s].transfers PROVE Holds(s, q)'
    <3>1. Holds(s, q) /\ q \in Requests
      BY <1>2 DEF Knows, Books
    <3> QED
      BY <2>0, <3>1 DEF Holds, Of
  <2>3. ASSUME NEW q \in session[s].toInterrupt PROVE Owes(s, q)'
    <3>1. Owes(s, q) /\ q \in Requests
      BY <1>2 DEF Knows, Books
    <3> QED
      BY <2>0, <3>1 DEF Owes, Of
  <2>4. session[s].revoked => \A q \in session[s].transfers :
          q \in session[s].toInterrupt \/ request'[q].interrupted \/ request'[q].finished
    BY <1>2, <2>0 DEF Knows, Books
  <2>5. session[s].cleared => session[s].transfers = {} /\ session[s].toInterrupt = {} /\ session[s].revoked
    BY <1>2 DEF Knows
  <2>6. /\ session'[s].breaking = None /\ session'[s].transfers = session[s].transfers
        /\ session'[s].toInterrupt = session[s].toInterrupt
        /\ session'[s].revoked = session[s].revoked /\ session'[s].cleared = session[s].cleared
    BY <1>3, <1>8
  <2> QED
    BY <2>1, <2>2, <2>3, <2>4, <2>5, <2>6 DEF Knows
<1>13. \A t \in Sessions : Knows(t)'
  BY <1>11, <1>12
<1> QED
  BY <1>9, <1>10, <1>13 DEF ProxyInv

\* Of a request, only the call that finds its session expired is made by it.
LEMMA CloseReturnsStep ==
  ASSUME ProxyInv, NEW c \in Callers, CloseReturns(c) PROVE ProxyInv'
<1>1. PICK s \in Sessions : s = caller[c].of
  BY DEF ProxyInv, CloseReturns
<1> DEFINE d == [caller[c] EXCEPT !.at = "returned"]
<1>2. /\ UNCHANGED <<server, session>> /\ RecordsOK /\ Counts /\ caller[c] \in Calls
      /\ caller[c].at = "join" /\ caller' = [caller EXCEPT ![c] = d]
      /\ request' = IF c \in Requests THEN [request EXCEPT ![c].pc = "returned"] ELSE request
  BY DEF CloseReturns, ProxyInv, RecordsOK
<1>3. d \in Calls /\ d.of = s /\ d.at = "returned"
  BY <1>1, <1>2 DEF Calls
<1> HIDE DEF d
<1>4. /\ caller' \in [Callers -> Calls]
      /\ \A b \in Callers : caller'[b].at # "idle" => caller'[b].of \in Sessions
      /\ \A q \in Requests : caller'[q].at \in {"remove", "revoke", "join"} =>
                               caller[q].at \in {"remove", "revoke", "join"}
  BY <1>2, <1>3, CallerMoves
<1>5. CASE c \notin Requests
  <2>1. UNCHANGED request
    BY <1>2, <1>5
  <2>2. \A t \in Sessions : Knows(t)'
    BY <1>2, <2>1, KnowsSame
  <2>3. RecordsOK'
    BY <1>2, <1>4, <2>1 DEF RecordsOK
  <2> QED
    BY <1>2, <1>4, <2>1, <2>2, <2>3, SessionsMove
<1>6. CASE c \in Requests
  <2> DEFINE g == [request[c] EXCEPT !.pc = "returned"]
  <2>1. /\ request' = [request EXCEPT ![c] = g] /\ request[c] \in Stages /\ Sound(request[c])
        /\ request[c].pc = "expiring"
    <3>1. Placed(c) /\ Sound(request[c])
      BY <1>6 DEF ProxyInv
    <3> QED
      BY <1>2, <1>6, <3>1 DEF RecordsOK, Placed
  <2>2. /\ g \in Stages /\ g.pc = "returned" /\ g.of = request[c].of /\ g.body = request[c].body
        /\ g.deadline = request[c].deadline /\ g.finished = request[c].finished
        /\ g.interrupted = request[c].interrupted /\ g.interruptDone = request[c].interruptDone
    BY <2>1 DEF Stages, Places
  <2> HIDE DEF g
  <2>3. Sound(g)
    BY <2>1, <2>2 DEF Sound, Places, Served, Live
  <2>4. Follows(request[c], g)
    BY <2>1, <2>2 DEF Follows, Live
  <2>5. /\ request' \in [Requests -> Stages] /\ request'[c] = g
        /\ \A q \in Requests : q # c => request'[q] = request[q]
    BY <1>2, <1>6, <2>1, <2>2, RequestBecomes DEF RecordsOK
  <2>6. RecordsOK'
    BY <1>2, <1>4, <2>5 DEF RecordsOK
  <2>7. ASSUME NEW q \in Requests PROVE Sound(request'[q]) /\ Placed(q)'
    <3>0. Sound(request[q]) /\ Placed(q)
      BY DEF ProxyInv
    <3>1. CASE q = c
      <4>1. caller'[c].at = "returned"
        BY <1>2, <1>3 DEF RecordsOK
      <4> QED
        BY <2>2, <2>3, <2>5, <3>1, <4>1 DEF Placed, Served
    <3>2. CASE q # c
      BY <1>2, <1>4, <2>5, <3>0, <3>2 DEF Placed, Of
    <3> QED
      BY <3>1, <3>2
  <2>8. Counts'
    <3>1. \A p \in {"expiring", "returned"} : p \notin Served /\ p \notin Slotted /\ p \notin Streaming
      BY DEF Served, Slotted, Streaming
    <3>2. \A q \in Requests : /\ request'[q].pc \in Served <=> request[q].pc \in Served
                              /\ request'[q].pc \in Slotted <=> request[q].pc \in Slotted
                              /\ request'[q].pc \in Streaming <=> request[q].pc \in Streaming
                              /\ request[q].pc \in Served => request'[q].of = request[q].of
      BY <2>1, <2>2, <2>5, <3>1
    <3> QED
      BY <1>2, <3>2, CountsStay
  <2>9. ASSUME NEW t \in Sessions PROVE Knows(t)'
    <3>1. Knows(t)
      BY DEF ProxyInv
    <3>2. \A q \in Requests : Follows(request[q], request'[q])
      BY <2>4, <2>5, SameFollows
    <3> QED
      BY <1>2, <3>1, <3>2, KnowsStays
  <2> QED
    BY <1>4, <2>6, <2>7, <2>8, <2>9 DEF ProxyInv
<1> QED
  BY <1>5, <1>6

LEMMA ServerClosesStep ==
  ASSUME ProxyInv, ServerCloses PROVE ProxyInv'
<1>1. /\ UNCHANGED <<caller, request>> /\ RecordsOK /\ server \in Houses /\ session \in [Sessions -> Books]
      /\ session' = [s \in Sessions |-> [session[s] EXCEPT !.mapped = FALSE]]
      /\ server' = [server EXCEPT !.closed = TRUE, !.shutdown = "revoking", !.toRevoke = Mapped]
  BY DEF ServerCloses, ProxyInv, RecordsOK
<1>2. /\ server' \in Houses /\ server'.wg = server.wg /\ server'.serving = server.serving
      /\ server'.streams = server.streams
  <2>1. Mapped \in SUBSET Sessions
    BY DEF Mapped
  <2> QED
    BY <1>1, <2>1 DEF Houses
<1>3. \A s \in Sessions :
        /\ session'[s] \in Books /\ session'[s].wg = session[s].wg
        /\ session'[s].streams = session[s].streams /\ session'[s].breaking = session[s].breaking
        /\ session'[s].transfers = session[s].transfers
        /\ session'[s].toInterrupt = session[s].toInterrupt
        /\ session'[s].revoked = session[s].revoked /\ session'[s].cleared = session[s].cleared
  <2> SUFFICES ASSUME NEW s \in Sessions
        PROVE  /\ session'[s] \in Books /\ session'[s].wg = session[s].wg
               /\ session'[s].streams = session[s].streams /\ session'[s].breaking = session[s].breaking
               /\ session'[s].transfers = session[s].transfers
               /\ session'[s].toInterrupt = session[s].toInterrupt
               /\ session'[s].revoked = session[s].revoked /\ session'[s].cleared = session[s].cleared
    OBVIOUS
  <2>1. session[s] \in Books /\ session'[s] = [session[s] EXCEPT !.mapped = FALSE]
    BY <1>1
  <2> QED
    BY <2>1 DEF Books
<1>4. session' \in [Sessions -> Books]
  BY <1>1, <1>3
<1>5. RecordsOK'
  BY <1>1, <1>2, <1>4 DEF RecordsOK
<1>6. \A t \in Sessions : Knows(t)'
  BY <1>1, <1>3, KnowsSame
<1>7. \A c \in Callers : caller'[c].at # "idle" => caller'[c].of \in Sessions
  BY <1>1 DEF ProxyInv
<1> QED
  BY <1>1, <1>2, <1>3, <1>5, <1>6, <1>7, SessionsMove

LEMMA ServerOnlySteps ==
  ASSUME ProxyInv, ServerJoins \/ ServerWaits \/ ServerReturns PROVE ProxyInv'
<1>1. UNCHANGED <<session, caller, request>> /\ RecordsOK /\ server \in Houses
  BY DEF ServerJoins, ServerWaits, ServerReturns, ProxyInv, RecordsOK
<1>2. /\ server' \in Houses /\ server'.wg = server.wg /\ server'.serving = server.serving
      /\ server'.streams = server.streams
  BY <1>1 DEF ServerJoins, ServerWaits, ServerReturns, Houses
<1>3. RecordsOK'
  BY <1>1, <1>2 DEF RecordsOK
<1>4. \A t \in Sessions : Knows(t)'
  BY <1>1, KnowsSame
<1>5. \A c \in Callers : caller'[c].at # "idle" => caller'[c].of \in Sessions
  BY <1>1 DEF ProxyInv
<1> QED
  BY <1>1, <1>2, <1>3, <1>4, <1>5, SessionsMove

LEMMA ServeReturnsStep ==
  ASSUME ProxyInv, ServeReturns PROVE ProxyInv'
<1>1. /\ UNCHANGED <<session, caller, request>> /\ RecordsOK /\ Counts /\ server \in Houses
      /\ server.serving /\ server' = [server EXCEPT !.serving = FALSE, !.wg = @ - 1]
  BY DEF ServeReturns, ProxyInv, RecordsOK
<1>2. server.wg = Cardinality(AllServed) + 1 /\ Cardinality(AllServed) \in Nat
  BY <1>1, FS_CardinalityType DEF Counts
<1>3. /\ server' \in Houses /\ server'.wg = Cardinality(AllServed) /\ ~server'.serving
      /\ server'.streams = server.streams
  <2>1. server.wg - 1 = Cardinality(AllServed) /\ server.wg - 1 \in Nat
    BY <1>2
  <2>2. server' \in Houses /\ server'.wg = server.wg - 1 /\ server'.serving = FALSE
        /\ server'.streams = server.streams
    BY <1>1, <2>1 DEF Houses
  <2> QED
    BY <2>1, <2>2
<1>4. RecordsOK'
  BY <1>1, <1>3 DEF RecordsOK
<1>5. Counts'
  <2>1. AllServed' = AllServed /\ AllSlotted' = AllSlotted
    BY <1>1 DEF AllServed, AllSlotted
  <2>2. \A s \in Sessions : Serves(s)' = Serves(s) /\ StreamsOf(s)' = StreamsOf(s)
    BY <1>1 DEF Serves, StreamsOf, Of
  <2>3. server'.wg = Cardinality(AllServed) + (IF server'.serving THEN 1 ELSE 0)
    BY <1>2, <1>3
  <2> QED
    BY <1>1, <1>3, <2>1, <2>2, <2>3 DEF Counts
<1>6. \A t \in Sessions : Knows(t)'
  BY <1>1, KnowsSame
<1>7. ASSUME NEW q \in Requests PROVE Sound(request'[q]) /\ Placed(q)'
  BY <1>1 DEF ProxyInv, Placed, Of
<1>8. \A c \in Callers : caller'[c].at # "idle" => caller'[c].of \in Sessions
  BY <1>1 DEF ProxyInv
<1> QED
  BY <1>4, <1>5, <1>6, <1>7, <1>8 DEF ProxyInv

\* The contexts of all that is served are cancelled at once.
LEMMA StopListeningStep ==
  ASSUME ProxyInv, StopListening PROVE ProxyInv'
<1>1. /\ UNCHANGED <<session, caller>> /\ RecordsOK /\ Counts /\ server \in Houses
      /\ request \in [Requests -> Stages]
      /\ server' = [server EXCEPT !.listening = FALSE]
      /\ request' = [r \in Requests |-> [request[r] EXCEPT !.cancelled = @ \/ request[r].pc \in Served]]
  BY DEF StopListening, ProxyInv, RecordsOK
<1>2. /\ server' \in Houses /\ server'.wg = server.wg /\ server'.serving = server.serving
      /\ server'.streams = server.streams
  BY <1>1 DEF Houses
<1>3. ASSUME NEW r \in Requests
      PROVE  /\ request'[r] \in Stages /\ request'[r].pc = request[r].pc /\ request'[r].of = request[r].of
             /\ request'[r].body = request[r].body /\ request'[r].deadline = request[r].deadline
             /\ request'[r].finished = request[r].finished
             /\ request'[r].interrupted = request[r].interrupted
             /\ request'[r].interruptDone = request[r].interruptDone
  <2> DEFINE b == request[r].cancelled \/ request[r].pc \in Served
  <2>1. request[r] \in Stages /\ request'[r] = [request[r] EXCEPT !.cancelled = b]
    BY <1>1
  <2>2. b \in BOOLEAN
    BY <2>1 DEF Stages
  <2> HIDE DEF b
  <2>3. request'[r] \in Stages
    BY <2>1, <2>2 DEF Stages
  <2>4. /\ request'[r].pc = request[r].pc /\ request'[r].of = request[r].of
        /\ request'[r].body = request[r].body /\ request'[r].deadline = request[r].deadline
    BY <2>1 DEF Stages
  <2>5. /\ request'[r].finished = request[r].finished
        /\ request'[r].interrupted = request[r].interrupted
        /\ request'[r].interruptDone = request[r].interruptDone
    BY <2>1 DEF Stages
  <2> QED
    BY <2>3, <2>4, <2>5
<1>4. request' \in [Requests -> Stages]
  BY <1>1, <1>3
<1>5. RecordsOK'
  BY <1>1, <1>2, <1>4 DEF RecordsOK
<1>6. Counts'
  BY <1>1, <1>2, <1>3, CountsStay
<1>7. ASSUME NEW q \in Requests PROVE Sound(request'[q]) /\ Placed(q)'
  <2>1. Sound(request[q]) /\ Placed(q)
    BY DEF ProxyInv
  <2>2. Sound(request'[q])
    BY <1>3, <2>1 DEF Sound
  <2>3. Placed(q)'
    BY <1>1, <1>3, <2>1 DEF Placed, Of
  <2> QED
    BY <2>2, <2>3
<1>8. ASSUME NEW t \in Sessions PROVE Knows(t)'
  <2>1. Knows(t)
    BY DEF ProxyInv
  <2>2. \A q \in Requests : Follows(request[q], request'[q])
    BY <1>3 DEF Follows
  <2> QED
    BY <1>1, <2>1, <2>2, KnowsStays
<1>9. \A c \in Callers : caller'[c].at # "idle" => caller'[c].of \in Sessions
  BY <1>1 DEF ProxyInv
<1> QED
  BY <1>5, <1>6, <1>7, <1>8, <1>9 DEF ProxyInv

-----------------------------------------------------------------------------
LEMMA ProxyInvInit == Init => ProxyInv
<1> SUFFICES ASSUME Init PROVE ProxyInv
  OBVIOUS
<1>1. server \in Houses /\ server.wg = 1 /\ server.serving /\ server.streams = 0
  BY ProxyAssumption DEF Init, Houses
<1>2. session \in [Sessions -> Books] /\ \A s \in Sessions :
        /\ session[s].wg = 0 /\ session[s].streams = 0 /\ session[s].transfers = {}
        /\ session[s].toInterrupt = {} /\ session[s].breaking = None
        /\ ~session[s].revoked /\ ~session[s].cleared
  <2> DEFINE e == [made |-> FALSE, mapped |-> FALSE, expired |-> FALSE, revoked |-> FALSE,
                   transfers |-> {}, toInterrupt |-> {}, breaking |-> None, wg |-> 0, streams |-> 0,
                   cleared |-> FALSE]
  <2>1. e \in Books
    BY ProxyAssumption DEF Books
  <2>2. /\ e.wg = 0 /\ e.streams = 0 /\ e.transfers = {} /\ e.toInterrupt = {} /\ e.breaking = None
        /\ ~e.revoked /\ ~e.cleared
    OBVIOUS
  <2>3. session = [s \in Sessions |-> e]
    BY DEF Init
  <2> HIDE DEF e
  <2> QED
    BY <2>1, <2>2, <2>3
<1>3. caller \in [Callers -> Calls] /\ \A c \in Callers : caller[c].at = "idle"
  BY DEF Init, Calls
<1>4. request \in [Requests -> Stages] /\ \A r \in Requests :
        /\ request[r].pc = "new" /\ request[r].of = None /\ request[r].body = None
        /\ ~request[r].deadline /\ ~request[r].finished /\ ~request[r].interruptDone
  <2> DEFINE e == [pc |-> "new", of |-> None, cancelled |-> FALSE, deadline |-> FALSE,
                   interrupted |-> FALSE, interruptDone |-> FALSE, finished |-> FALSE, body |-> None]
  <2>1. e \in Stages
    BY DEF Stages, Places
  <2>2. /\ e.pc = "new" /\ e.of = None /\ e.body = None
        /\ ~e.deadline /\ ~e.finished /\ ~e.interruptDone
    OBVIOUS
  <2>3. request = [r \in Requests |-> e]
    BY DEF Init
  <2> HIDE DEF e
  <2> QED
    BY <2>1, <2>2, <2>3
<1>5. RecordsOK
  BY <1>1, <1>2, <1>3, <1>4 DEF RecordsOK
<1>6. "new" \notin Served /\ "new" \notin Slotted /\ "new" \notin Streaming /\ "new" # "expiring"
  BY DEF Served, Slotted, Streaming
<1>7. Counts
  <2>1. AllServed = {} /\ AllSlotted = {} /\ \A s \in Sessions : Serves(s) = {} /\ StreamsOf(s) = {}
    BY <1>4, <1>6 DEF AllServed, AllSlotted, Serves, StreamsOf
  <2>2. IsFiniteSet({}) /\ Cardinality({}) = 0
    BY FS_EmptySet
  <2>3. server.wg = Cardinality(AllServed) + (IF server.serving THEN 1 ELSE 0)
    BY <1>1, <2>1, <2>2
  <2> QED
    BY <1>1, <1>2, <2>1, <2>2, <2>3 DEF Counts
<1>8. \A r \in Requests : Sound(request[r])
  BY <1>4 DEF Sound, Served, Live
<1>9. \A r \in Requests : Placed(r)
  BY <1>3, <1>4, <1>6 DEF Placed, Callers
<1>10. \A s \in Sessions : Knows(s)
  BY <1>2, ProxyAssumption DEF Knows
<1> QED
  BY <1>3, <1>5, <1>7, <1>8, <1>9, <1>10 DEF ProxyInv

LEMMA ProxyInvariant == Spec => []ProxyInv
<1>1. ProxyInv /\ [Next]_vars => ProxyInv'
  <2> SUFFICES ASSUME ProxyInv, [Next]_vars PROVE ProxyInv'
    OBVIOUS
  <2>1. CASE SessionStep
    BY <2>1, NewSessionStep, CloseIsCalled, BreakStep, ClearStep, InterruptStep, RemoveStep,
       RevokeStep, CloseReturnsStep DEF SessionStep
  <2>2. CASE ServerStep
    BY <2>2, ServerClosesStep, StopListeningStep, ServeReturnsStep, ServerOnlySteps,
       ServerRevokesStep DEF ServerStep
  <2>3. ASSUME NEW r \in Requests, Refuse(r) \/ Serve(r) PROVE ProxyInv'
    <3>1. CASE Refuse(r)
      BY <3>1, QuietGoto DEF Refuse
    <3>2. CASE Answer(r)
      BY <3>2, QuietGoto DEF Answer
    <3>3. CASE Request(r)
      BY <3>3, QuietGoto DEF Request
    <3>4. CASE OpenFails(r)
      BY <3>4, QuietGoto DEF OpenFails
    <3>5. CASE Read(r) \/ Write(r)
      BY <3>5, QuietGoto DEF Read, Write
    <3>6. CASE CopyEnds(r)
      BY <3>6, QuietGoto DEF CopyEnds, Goto
    <3> QED
      BY <2>3, <3>1, <3>2, <3>3, <3>4, <3>5, <3>6, ReserveStep, AdmitStep, BusyStep, AttachStep,
         OpenReturnsStep, AttachBodyStep, FinishStep, CloseBodyStep, DetachStep, ReturnStep DEF Serve
  <2>4. CASE RequestStep
    BY <2>3, <2>4, ArriveStep DEF RequestStep
  <2>5. CASE UNCHANGED vars
    <3>1. UNCHANGED <<server, session, caller, request>> /\ RecordsOK'
      BY <2>5 DEF vars, ProxyInv, RecordsOK
    <3>2. \A t \in Sessions : Knows(t)'
      BY <3>1, KnowsSame
    <3>3. \A c \in Callers : caller'[c].at # "idle" => caller'[c].of \in Sessions
      BY <3>1 DEF ProxyInv
    <3> QED
      BY <3>1, <3>2, <3>3, SessionsMove
  <2> QED
    BY <2>1, <2>2, <2>4, <2>5 DEF Next
<1> QED
  BY <1>1, ProxyInvInit, PTL DEF Spec

\* For any sessions, requests and limits: a stream's source is there while it is used, one
\* that is over has left neither a body, a deadline nor a slot, and the limits hold,
\* whatever expiry, Session.Close and Server.Close do meanwhile.
THEOREM StreamsStayClean == Spec => []StreamsAreClean
<1>1. ProxyInv => StreamsAreClean
  <2> SUFFICES ASSUME ProxyInv PROVE StreamsAreClean
    OBVIOUS
  <2>0. /\ RecordsOK /\ Counts /\ \A r \in Requests : Sound(request[r]) /\ Placed(r)
        /\ \A s \in Sessions : Knows(s)
    BY DEF ProxyInv
  <2>1. TypeOK
    BY <2>0 DEF TypeOK, RecordsOK, Counts, Houses, Books, Calls, Stages, Places
  <2>2. SourceIsThere
    BY <2>0 DEF SourceIsThere, Placed, Served
  <2>3. NothingLeftBehind
    <3>1. \A s \in Sessions : \A r \in Requests : session[s].breaking = r => request[r].pc \in Live
      BY <2>0 DEF Knows, Breaks
    <3>2. "detached" \notin Live /\ "returned" \notin Live
      BY DEF Live
    <3> QED
      BY <2>0, <3>1, <3>2 DEF NothingLeftBehind, Sound
  <2>4. SlotsReturned
    <3>1. AllSlotted = {r \in Requests : request[r].pc \in Served \ {"acquired", "detached"}}
      BY DEF AllSlotted, Slotted
    <3>2. ASSUME NEW s \in Sessions
          PROVE  StreamsOf(s) = {r \in Serves(s) : request[r].pc \notin {"acquired", "reserved", "detached"}}
      BY DEF StreamsOf, Serves, Streaming
    <3> QED
      BY <2>0, <3>1, <3>2 DEF SlotsReturned, Counts
  <2> QED
    BY <2>1, <2>2, <2>3, <2>4 DEF StreamsAreClean
<1> QED
  BY <1>1, ProxyInvariant, PTL

\* For any sessions and requests: once revoke has interrupted what it found, no transfer of
\* the session goes on that nobody has interrupted; attach and revoke do not miss each other.
THEOREM NothingIsMissed == Spec => []NoTransferMissed
<1>1. ProxyInv => NoTransferMissed
  BY DEF ProxyInv, Knows, NoTransferMissed
<1> QED
  BY <1>1, ProxyInvariant, PTL
=============================================================================
