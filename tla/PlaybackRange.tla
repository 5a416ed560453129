---------------------------- MODULE PlaybackRange ----------------------------
(***************************************************************************)
(* What the playback proxy makes of ranges (adapters/playback/proxy/       *)
(* proxy.go): a Range of mpv's is parsed, and the upstream's answer to it  *)
(* is let through or rejected.                                             *)
(*                                                                         *)
(* The text of a range is its two halves, each a run of digits (here the   *)
(* number they write), Empty or Junk; so are the parts of a Content-Range. *)
(***************************************************************************)
EXTENDS Integers

CONSTANTS
  MaxInt,    \* of an int64
  Numbers,   \* bound: the numbers that are written
  Empty, Junk

ASSUME RangeAssumption ==
  /\ MaxInt \in Nat \ {0}
  /\ Numbers \subseteq Nat
  /\ Empty \notin Int /\ Junk \notin Int /\ Empty # Junk

Texts   == Numbers \cup {Empty, Junk}
Absent  == [given |-> FALSE, before |-> Empty, after |-> Empty]
Headers == [given : {TRUE}, before : Texts, after : Texts] \cup {Absent}

\* An answer: its status, its Content-Range, if any, its length, -1 for unknown, and
\* what is wrong with its other headers: its type is not video/mp4, it has an encoding
\* besides identity, or a header that is passed on comes twice or malformed.
NoContent == [given |-> FALSE, start |-> Empty, end |-> Empty, size |-> Empty]
Contents  == [given : {TRUE}, start : Texts, end : Texts, size : Texts] \cup {NoContent}
Statuses  == {200, 206, 416}
Flaws     == {"none", "type", "encoding", "header"}
Answers   == [status : Statuses, content : Contents, length : Numbers \cup {-1}, flaw : Flaws]

VARIABLES
  header,    \* mpv's Range
  wanted,    \* the byteRange parsed from it
  answer,    \* the upstream's
  verdict    \* "none" yet, "refused" (416 to mpv), "asked", "passed", "unsatisfiable" or "rejected"

rangeVars == <<header, wanted, answer, verdict>>

-----------------------------------------------------------------------------
(* Parsing.                                                                *)

\* parseRangeNumber: 19 digits are enough for any int64, and ParseInt refuses the rest.
Number(text) == text \in 0..MaxInt

NoRange == [kind |-> "none", start |-> 0, end |-> 0, suffix |-> 0]

Ordered(h) == h.before <= h.after

\* parseRange succeeds with a byteRange of its kind.
IsTail(h) == h.before = Empty /\ Number(h.after) /\ h.after > 0
IsOpen(h)   == Number(h.before) /\ h.after = Empty
IsClosed(h) == Number(h.before) /\ Number(h.after) /\ Ordered(h)

Parses(h) == ~h.given \/ IsTail(h) \/ IsOpen(h) \/ IsClosed(h)

Parsed(h) ==
  IF ~h.given THEN NoRange
  ELSE CASE IsTail(h) -> [NoRange EXCEPT !.kind = "suffix", !.suffix = h.after]
         [] IsOpen(h) -> [NoRange EXCEPT !.kind = "open", !.start = h.before]
         [] IsClosed(h) -> [NoRange EXCEPT !.kind = "closed", !.start = h.before, !.end = h.after]

-----------------------------------------------------------------------------
(* Checking the answer.                                                    *)

\* satisfiedContentRange.
Satisfied(c) ==
  /\ c.given
  /\ Number(c.start) /\ Number(c.end) /\ Number(c.size)
  /\ c.size > 0 /\ c.start <= c.end /\ c.end < c.size

\* unsatisfiedContentRange, "bytes */size".
Unsatisfied(c) == c.given /\ c.start = Empty /\ c.end = Empty /\ Number(c.size)

\* byteRange.matches; a suffix longer than the file is all of it.
ShortSuffixMatches(w, c) == c.end = c.size - 1   \* fault: any piece at the end will do
UnclippedSuffixMatches(w, c) ==                  \* fault
  c.end = c.size - 1 /\ c.end - c.start + 1 = w.suffix
SuffixMatches(w, c) ==
  LET want == IF w.suffix > c.size THEN c.size ELSE w.suffix
  IN c.end = c.size - 1 /\ c.end - c.start + 1 = want

Matches(w, c) ==
  CASE w.kind = "closed" -> c.start = w.start /\ c.end <= w.end
    [] w.kind = "open"   -> c.start = w.start /\ c.end >= c.start /\ c.end < c.size
    [] w.kind = "suffix" -> SuffixMatches(w, c)
    [] OTHER             -> FALSE

LengthFits(a) == a.length # -1 => a.length = a.content.end - a.content.start + 1

\* validStatusAndRange.
Valid(w, a) ==
  IF w.kind = "none"
  THEN a.status = 200 /\ ~a.content.given
  ELSE a.status = 206 /\ Satisfied(a.content) /\ Matches(w, a.content) /\ LengthFits(a)

\* validVideoType, validContentEncoding and copyResponseHeaders.
CanBeCopied(a) == a.flaw = "none"

\* serveSession, after the body is attached.
Verdict(w, a) ==
  IF w.kind # "none" /\ a.status = 416
  THEN IF Unsatisfied(a.content) THEN "unsatisfiable" ELSE "rejected"
  ELSE IF Valid(w, a) /\ CanBeCopied(a) THEN "passed" ELSE "rejected"

-----------------------------------------------------------------------------
NoAnswer == [status |-> 0, content |-> NoContent, length |-> -1, flaw |-> "none"]

RangeInit ==
  /\ header \in Headers
  /\ wanted = NoRange
  /\ answer = NoAnswer
  /\ verdict = "none"

Parse ==
  /\ verdict = "none"
  /\ IF Parses(header)
     THEN wanted' = Parsed(header) /\ verdict' = "asked"
     ELSE verdict' = "refused" /\ UNCHANGED wanted
  /\ UNCHANGED <<header, answer>>

Check ==
  /\ verdict = "asked"
  /\ answer' \in Answers
  /\ verdict' = Verdict(wanted, answer')
  /\ UNCHANGED <<header, wanted>>

RangeNext == Parse \/ Check

RangeSpec == RangeInit /\ [][RangeNext]_rangeVars

-----------------------------------------------------------------------------
(* Properties: against what a Range and a Content-Range mean (RFC 9110).   *)

\* The bytes of a file of the given size that a header asks for.
Asked(h, size) ==
  {b \in 0..(size - 1) :
     IF h.before = Empty THEN b >= size - h.after
     ELSE b >= h.before /\ (h.after = Empty \/ b <= h.after)}

\* The first and the last byte of an answer.
Start == answer.content.start
End   == answer.content.end
Size  == answer.content.size

\* Bytes are let through only if they are bytes asked for, begin with the first of them,
\* are all of them if the last bytes were asked for, and have their true length declared,
\* one that an int64 holds.
PassedWasAsked ==
  verdict = "passed" /\ header.given =>
    /\ Start \in Asked(header, Size) /\ End \in Asked(header, Size)
    /\ Start - 1 \notin Asked(header, Size)
    /\ header.before = Empty => End + 1 = Size
    /\ End - Start + 1 \in 1..MaxInt
    /\ answer.length \in {-1, End - Start + 1}

\* A video/mp4 that is not encoded, with each header once and well formed, is never
\* rejected when it is all the bytes asked for, correctly declared, or the whole file
\* where no range was asked for.
HonestIsPassed ==
  verdict = "rejected" /\ answer.flaw = "none" =>
    IF header.given
    THEN ~ /\ answer.status = 206 /\ answer.content.given
           /\ {Start, End} \subseteq Int /\ Size \in 1..MaxInt
           /\ Asked(header, Size) = Start..End /\ Start <= End
           /\ answer.length \in {-1, End - Start + 1}
    ELSE ~(answer.status = 200 /\ ~answer.content.given)
=============================================================================
